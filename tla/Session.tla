------------------------------- MODULE Session -------------------------------
(***************************************************************************)
(* The shape of the file system handlers of pgfuse.c:                      *)
(*                                                                         *)
(*   ACQUIRE; PSQL_BEGIN; statements; PSQL_COMMIT or PSQL_ROLLBACK; RELEASE *)
(*                                                                         *)
(* on top of the connection pool.  The three PSQL_ macros return from the  *)
(* handler when their command fails, before RELEASE.  A failed statement   *)
(* sends the handler to PSQL_ROLLBACK, except where its result is dropped  *)
(* (psql_copy_xattr_from_to and set_del_dlfileentry inside psql_rename),   *)
(* where the handler goes on, and in pgfuse_rename, which answers with the *)
(* error of psql_rename but comes to PSQL_COMMIT.                          *)
(*                                                                         *)
(* One handler does not end with RELEASE: pgfuse_chown goes on to ask the  *)
(* database for the user of an entry of the portal, on the connection it   *)
(* has just released and that another thread may have been given.          *)
(*                                                                         *)
(* The server's side of a connection is its transaction: none, open, or    *)
(* aborted by a failed statement, in which case every further statement    *)
(* fails and COMMIT rolls back and reports success.  pending holds the     *)
(* threads whose changes the transaction would store.                      *)
(***************************************************************************)
EXTENDS Pool

VARIABLES
  step,    \* step[t]: the next database command of the handler of thread t
  tx,      \* tx[c]: the transaction of connection c at the server
  pending, \* pending[c]: the threads with changes in that transaction
  wrote,   \* wrote[t]: the handler of t has changes its caller is to see
  dropped, \* dropped[t]: the handler went on after a failed statement
  answer,  \* answer[t]: what the handler returns to FUSE
  stored,  \* stored[t]: the changes of the last handler of t are committed
  kept,    \* kept[t]: the PGconn* pgfuse_chown uses after its RELEASE
  raced,   \* raced[t]: such a use came between the commands of t's handler
  givenUp  \* connections whose handler returned early because of such a use

lateVars == <<kept, raced, givenUp>>
handlerVars == <<step, tx, pending, wrote, dropped, answer, stored, lateVars>>
sessionVars == <<vars, handlerVars>>

Steps ==
  {"none", "begin", "work", "commit", "refuse", "rollback", "release", "late"}

\* Transactions and handlers are in one of their states, and the steps of a
\* handler go with what it has: the connection it leases from ACQUIRE to
\* RELEASE, the pointer it keeps after it, an open transaction for changes.
SessionTypeOK ==
  /\ step \in [Threads -> Steps]
  /\ tx \in [Addr -> {"none", "open", "aborted"}]
  /\ pending \in [Addr -> SUBSET Threads]
  /\ wrote \in [Threads -> BOOLEAN]
  /\ dropped \in [Threads -> BOOLEAN]
  /\ answer \in [Threads -> {"none", "ok", "refused", "lost"}]
  /\ stored \in [Threads -> BOOLEAN]
  /\ kept \in [Threads -> Addr \cup {NONE}]
  /\ raced \in [Threads -> BOOLEAN]
  /\ givenUp \subseteq Addr
  /\ \A t \in Threads :
       /\ step[t] \in {"none", "late"} <=> held[t] = NONE
       /\ step[t] = "late" <=> kept[t] # NONE
  /\ \A c \in Addr : pending[c] # {} => tx[c] = "open"

SessionInit ==
  /\ Init
  /\ step = [t \in Threads |-> "none"]
  /\ tx = [c \in Addr |-> "none"]
  /\ pending = [c \in Addr |-> {}]
  /\ wrote = [t \in Threads |-> FALSE]
  /\ dropped = [t \in Threads |-> FALSE]
  /\ answer = [t \in Threads |-> "none"]
  /\ stored = [t \in Threads |-> FALSE]
  /\ kept = [t \in Threads |-> NONE]
  /\ raced = [t \in Threads |-> FALSE]
  /\ givenUp = {}

Conn(t) == held[t]
Answering(t) == Conn(t) \notin broken
GoTo(t, s) == step' = [step EXCEPT ![t] = s]

\* The server's transaction on connection c ends, its changes stored or not.
EndTx(c) ==
  /\ tx' = [tx EXCEPT ![c] = "none"]
  /\ pending' = [pending EXCEPT ![c] = {}]
Store(ts) == stored' = [t \in Threads |-> stored[t] \/ t \in ts]

-------------------------------------------------------------------------------
\* ACQUIRE: a fresh handler, its connection in hand.
Acquire(t) ==
  /\ Take(t)
  /\ GoTo(t, "begin")
  /\ wrote' = [wrote EXCEPT ![t] = FALSE]
  /\ dropped' = [dropped EXCEPT ![t] = FALSE]
  /\ answer' = [answer EXCEPT ![t] = "none"]
  /\ stored' = [stored EXCEPT ![t] = FALSE]
  /\ raced' = [raced EXCEPT ![t] = FALSE]
  /\ UNCHANGED <<tx, pending, kept, givenUp>>

\* PSQL_BEGIN.  BEGIN succeeds, with a warning, inside an open transaction and
\* fails inside an aborted one.
Begin(t) ==
  /\ step[t] = "begin"
  /\ Answering(t)
  /\ tx[Conn(t)] # "aborted"
  /\ tx' = [tx EXCEPT ![Conn(t)] = "open"]
  /\ GoTo(t, "work")
  /\ UNCHANGED <<vars, pending, wrote, dropped, answer, stored, lateVars>>

\* A statement that succeeds.
Execute(t) ==
  /\ step[t] = "work"
  /\ Answering(t)
  /\ tx[Conn(t)] = "open"
  /\ wrote' = [wrote EXCEPT ![t] = TRUE]
  /\ pending' = [pending EXCEPT ![Conn(t)] = @ \cup {t}]
  /\ UNCHANGED <<vars, step, tx, dropped, answer, stored, lateVars>>

\* A statement that fails, for its own reasons or because the connection or
\* the transaction is already lost.
FailStatement(t) ==
  /\ step[t] = "work"
  /\ IF Answering(t)
     THEN /\ tx' = [tx EXCEPT ![Conn(t)] = "aborted"]
          /\ pending' = [pending EXCEPT ![Conn(t)] = {}]
     ELSE UNCHANGED <<tx, pending>>

\* Mutant: the result of the statement is not looked at.
StatementFailsUnnoticed(t) ==
  /\ FailStatement(t)
  /\ wrote' = [wrote EXCEPT ![t] = TRUE]
  /\ UNCHANGED <<vars, step, dropped, answer, stored, lateVars>>

StatementFails(t) ==
  /\ FailStatement(t)
  /\ GoTo(t, "rollback")
  /\ UNCHANGED <<vars, wrote, dropped, answer, stored, lateVars>>

FailureIsDropped(t) ==
  /\ FailStatement(t)
  /\ wrote' = [wrote EXCEPT ![t] = TRUE]
  /\ dropped' = [dropped EXCEPT ![t] = TRUE]
  /\ UNCHANGED <<vars, step, answer, stored, lateVars>>

\* The handler refuses the operation (EROFS, EISDIR, ENOMEM...).
Refuse(t) ==
  /\ step[t] = "work"
  /\ GoTo(t, "rollback")
  /\ UNCHANGED <<vars, tx, pending, wrote, dropped, answer, stored, lateVars>>

\* pgfuse_rename comes to PSQL_COMMIT with the error of psql_rename in hand:
\* psql_rename refused before it changed anything, or a statement failed.
RefuseByCommit(t) ==
  /\ step[t] = "work"
  /\ ~wrote[t] \/ tx[Conn(t)] # "open" \/ raced[t]
  /\ GoTo(t, "refuse")
  /\ UNCHANGED <<vars, tx, pending, wrote, dropped, answer, stored, lateVars>>

\* The handler is done.
Finish(t) ==
  /\ step[t] = "work"
  /\ GoTo(t, "commit")
  /\ UNCHANGED <<vars, tx, pending, wrote, dropped, answer, stored, lateVars>>

\* PSQL_COMMIT: the server answers COMMIT in an aborted transaction with
\* ROLLBACK, which PQresultStatus reports as PGRES_COMMAND_OK.
Commit(t) ==
  /\ step[t] \in {"commit", "refuse"}
  /\ Answering(t)
  /\ Store(pending[Conn(t)])
  /\ EndTx(Conn(t))
  /\ answer' = [answer EXCEPT ![t] = IF step[t] = "commit" THEN "ok" ELSE "refused"]
  /\ GoTo(t, "release")
  /\ UNCHANGED <<vars, wrote, dropped, lateVars>>

\* Mutant: the error path releases the connection without PSQL_ROLLBACK.
RollbackForgotten(t) ==
  /\ step[t] = "rollback"
  /\ answer' = [answer EXCEPT ![t] = "refused"]
  /\ GoTo(t, "release")
  /\ UNCHANGED <<vars, tx, pending, wrote, dropped, stored, lateVars>>

\* Mutant: the error path leaves the handler without RELEASE.
RollbackAndReturn(t) ==
  /\ step[t] = "rollback"
  /\ Answering(t)
  /\ EndTx(Conn(t))
  /\ Abandon(t)
  /\ answer' = [answer EXCEPT ![t] = "refused"]
  /\ GoTo(t, "none")
  /\ UNCHANGED <<wrote, dropped, stored, lateVars>>

\* PSQL_ROLLBACK.
Rollback(t) ==
  /\ step[t] = "rollback"
  /\ Answering(t)
  /\ EndTx(Conn(t))
  /\ answer' = [answer EXCEPT ![t] = "refused"]
  /\ GoTo(t, "release")
  /\ UNCHANGED <<vars, wrote, dropped, stored, lateVars>>

\* A PSQL_ macro whose command fails returns -EIO and never comes to RELEASE.
ReturnHoldingSlot(t) ==
  /\ step[t] \in {"begin", "commit", "refuse", "rollback"}
  /\ ~Answering(t) \/ (step[t] = "begin" /\ tx[Conn(t)] = "aborted")
  /\ Abandon(t)
  /\ answer' = [answer EXCEPT ![t] = "lost"]
  /\ GoTo(t, "none")
  /\ UNCHANGED <<tx, pending, wrote, dropped, stored, lateVars>>

\* Mutant: RELEASE, and the handler starts again with the released pointer.
ReleaseAndRetry(t) ==
  /\ step[t] = "release"
  /\ Release(t)
  /\ GoTo(t, "begin")
  /\ UNCHANGED <<tx, pending, wrote, dropped, answer, stored, lateVars>>

\* RELEASE, the end of every handler but pgfuse_chown.
ReleaseConn(t) ==
  /\ step[t] = "release"
  /\ Release(t)
  /\ GoTo(t, "none")
  /\ UNCHANGED <<tx, pending, wrote, dropped, answer, stored, lateVars>>

\* RELEASE in pgfuse_chown, for an entry of the portal and after PSQL_COMMIT:
\* the pointer is used once more.
ReleaseAndKeep(t) ==
  /\ step[t] = "release"
  /\ answer[t] = "ok"
  /\ Release(t)
  /\ kept' = [kept EXCEPT ![t] = held[t]]
  /\ GoTo(t, "late")
  /\ UNCHANGED <<tx, pending, wrote, dropped, answer, stored, raced, givenUp>>

\* The server goes away and takes the transaction with it, or carries out
\* COMMIT and goes away before the answer.
ConnectionLost(t) ==
  /\ step[t] \in {"begin", "work", "commit", "refuse", "rollback"}
  /\ Answering(t)
  /\ Break(t)
  /\ EndTx(Conn(t))
  /\ \/ UNCHANGED stored
     \/ step[t] \in {"commit", "refuse"} /\ Store(pending[Conn(t)])
  /\ UNCHANGED <<step, wrote, dropped, answer, lateVars>>

-------------------------------------------------------------------------------
(* What pgfuse_chown does after RELEASE: get_userid_from_uid answers from    *)
(* Redis or runs one SELECT on the kept connection, inside the transaction   *)
(* that another handler may have open on it.                                 *)

LateQuery(t) ==
  /\ step[t] = "late"
  /\ pc[t] = "idle"
  /\ kept' = [kept EXCEPT ![t] = NONE]

LateIsHarmless(t) ==
  /\ LateQuery(t)
  /\ GoTo(t, "none")
  /\ UNCHANGED <<vars, tx, pending, wrote, dropped, answer, stored, raced, givenUp>>

\* The SELECT fails, and with it the transaction of the handler that holds the
\* connection, which sees nothing of it.
LateAborts(t) ==
  /\ LateQuery(t)
  /\ kept[t] \notin broken
  /\ tx[kept[t]] = "open"
  /\ tx' = [tx EXCEPT ![kept[t]] = "aborted"]
  /\ pending' = [pending EXCEPT ![kept[t]] = {}]
  /\ raced' = [u \in Threads |-> raced[u] \/ held[u] = kept[t]]
  /\ GoTo(t, "none")
  /\ UNCHANGED <<vars, wrote, dropped, answer, stored, givenUp>>

\* The SELECT finds the server gone.
LateBreaks(t) ==
  /\ LateQuery(t)
  /\ kept[t] \notin broken
  /\ BreakLate(kept[t])
  /\ EndTx(kept[t])
  /\ GoTo(t, "none")
  /\ UNCHANGED <<wrote, dropped, answer, stored, raced, givenUp>>

(* Two threads inside libpq with one PGconn: PQexecParams throws away the    *)
(* result another command of the connection is waiting for, or its command   *)
(* is refused as one too many.  The handler u that holds the connection sees *)
(* its command fail, whether the server carried it out or not.               *)
Collision(t, u) ==
  /\ LateQuery(t)
  /\ held[u] = kept[t]
  /\ Answering(u)

\* u fails in a statement: it goes to PSQL_ROLLBACK or does not look.
LateSpoils(t, u) ==
  /\ Collision(t, u)
  /\ step[u] = "work"
  /\ \/ UNCHANGED pending
     \/ /\ tx[Conn(u)] = "open"
        /\ pending' = [pending EXCEPT ![Conn(u)] = @ \cup {u}]
  /\ raced' = [raced EXCEPT ![u] = TRUE]
  /\ \E s \in {"work", "rollback"} : step' = [step EXCEPT ![t] = "none", ![u] = s]
  /\ UNCHANGED <<vars, tx, wrote, dropped, answer, stored, givenUp>>

CarriedOut(u) ==
  \/ /\ step[u] = "begin"
     /\ tx' = [tx EXCEPT ![Conn(u)] = "open"]
     /\ UNCHANGED <<pending, stored>>
  \/ /\ step[u] \in {"commit", "refuse"}
     /\ Store(pending[Conn(u)])
     /\ EndTx(Conn(u))
  \/ /\ step[u] = "rollback"
     /\ EndTx(Conn(u))
     /\ UNCHANGED stored

\* u fails in a PSQL_ macro and returns without RELEASE, although its
\* connection works.
LateCollides(t, u) ==
  /\ Collision(t, u)
  /\ step[u] \in {"begin", "commit", "refuse", "rollback"}
  /\ CarriedOut(u) \/ UNCHANGED <<tx, pending, stored>>
  /\ Abandon(u)
  /\ answer' = [answer EXCEPT ![u] = "lost"]
  /\ givenUp' = givenUp \cup {Conn(u)}
  /\ step' = [step EXCEPT ![t] = "none", ![u] = "none"]
  /\ UNCHANGED <<wrote, dropped, raced>>

Late(t) ==
  \/ LateIsHarmless(t)
  \/ LateAborts(t)
  \/ LateBreaks(t)
  \/ \E u \in Threads : LateSpoils(t, u) \/ LateCollides(t, u)

-------------------------------------------------------------------------------
\* A thread takes up its next operation when the last one has returned.
NextOperation(t) == step[t] # "late" /\ Enter(t)

PoolOnly(t) == NextOperation(t) \/ Block(t) \/ SpuriousWakeup(t) \/ Signal(t)

Command(t) ==
  \/ Begin(t)
  \/ Execute(t)
  \/ StatementFails(t)
  \/ FailureIsDropped(t)
  \/ Refuse(t)
  \/ RefuseByCommit(t)
  \/ Finish(t)
  \/ Commit(t)
  \/ Rollback(t)
  \/ ReturnHoldingSlot(t)
  \/ ReleaseConn(t)
  \/ ReleaseAndKeep(t)

Handle(t) ==
  \/ Acquire(t)
  \/ Command(t)
  \/ ConnectionLost(t)
  \/ Late(t)
  \/ PoolOnly(t) /\ UNCHANGED handlerVars

\* The threads are joined before psql_pool_destroy.
LoopOver == phase = "run" => \A t \in Threads : step[t] # "late"

SessionNext ==
  \/ LoopOver /\ Lifecycle /\ UNCHANGED handlerVars
  \/ \E t \in Threads : Handle(t)

SessionSpec == SessionInit /\ [][SessionNext]_sessionVars

(* A handler's commands return, and it issues finitely many statements:      *)
(* sooner or later it finishes, refuses or fails.                            *)
SessionFairness ==
  \A t \in Threads :
    /\ WF_sessionVars(Acquire(t) \/ (Block(t) /\ UNCHANGED handlerVars))
    /\ WF_sessionVars(Begin(t) \/ Refuse(t) \/ RefuseByCommit(t) \/ Finish(t)
                        \/ Commit(t) \/ Rollback(t) \/ ReturnHoldingSlot(t)
                        \/ ReleaseConn(t) \/ ReleaseAndKeep(t))
    /\ WF_sessionVars(Signal(t) /\ UNCHANGED handlerVars)

FairSessionSpec == SessionSpec /\ SessionFairness

-------------------------------------------------------------------------------
(***************************************************************************)
(* What holds of the handlers and the pool together.                       *)
(***************************************************************************)

\* A connection another handler can be given carries no transaction of the
\* handler before it.
IdleIsClean ==
  phase = "run" =>
    \A s \in Slots : Usable(s) => tx[conns[s]] = "none"

\* A handler answers with success only if the server committed its changes,
\* unless it dropped the result of a failed statement on the way or the late
\* query of another handler aborted its transaction.
SuccessIsStored ==
  \A t \in Threads :
    answer[t] = "ok" /\ wrote[t] /\ ~dropped[t] /\ ~raced[t] => stored[t]

\* What a handler refused is never stored, not by itself, though pgfuse_rename
\* refuses and commits, and not by the COMMIT of the handler that is given the
\* connection after it; unless a late query hid the answer of a statement.
RefusedStoresNothing ==
  \A t \in Threads : answer[t] = "refused" /\ ~raced[t] => ~stored[t]

\* The early returns leak slots, but never one whose connection still works,
\* unless its handler gave up over the late query of another one: every other
\* healthy connection is idle or in a handler's hands.
HealthyIsNotLeaked ==
  phase = "run" =>
    \A s \in Slots :
      avail[s] \in Threads /\ conns[s] \notin broken \cup givenUp
        => held[avail[s]] = conns[s]

\* pool.h describes avail as "slots of allocated/available connections per
\* thread": a connection allocated to a thread is not in use by another one.
\* pgfuse_chown is using it.
OneThreadPerConn ==
  \A t, u \in Threads : t # u /\ held[u] # NONE => kept[t] # held[u]

\* As long as one connection works that nobody has given up, a waiting thread
\* sees handlers come to their end and another one begin.
HealthyConn ==
  \E s \in Slots : avail[s] # ERROR /\ conns[s] \notin broken \cup givenUp
HealthyConnServes ==
  (phase = "run" /\ Waiting # {} /\ HealthyConn)
     ~> ((\E t \in Threads : step[t] = "begin") \/ ~HealthyConn)
===============================================================================
