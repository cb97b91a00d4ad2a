---------------------------- MODULE SessionProofs ----------------------------
(***************************************************************************)
(* Proofs about the handlers over the connection pool, for any number of   *)
(* threads, slots and addresses, late queries of pgfuse_chown included.    *)
(* What the pool guarantees of its leases is taken from PoolProofs.        *)
(***************************************************************************)
EXTENDS Session, PoolProofs

\* A handler that has not released its connection holds it; one that has and
\* goes on keeps the pointer.
StepIffHeld ==
  \A t \in Threads :
    /\ step[t] \in {"none", "late"} <=> held[t] = NONE
    /\ step[t] = "late" <=> kept[t] # NONE

\* A handler between RELEASE and its late query does not use the pool.
LateIsOutside ==
  \A t \in Threads : step[t] = "late" => pc[t] \in {"idle", "signal"}

\* A handler past BEGIN holds the connection.
WorkedOn(c) ==
  \E t \in Threads :
    held[t] = c /\ step[t] \in {"work", "commit", "refuse", "rollback"}

\* The connection's slot is lent to a thread that has forgotten it.
Orphan(c) ==
  /\ \E s \in Slots : conns[s] = c /\ avail[s] \in Threads
  /\ \A t \in Threads : held[t] # c

\* A transaction belongs to a connection that works and to the handler that
\* holds it and has come past BEGIN, or to nobody.
TxHasHandler ==
  \A c \in Addr :
    tx[c] # "none" =>
      phase # "init" /\ c \notin broken /\ (WorkedOn(c) \/ Orphan(c))

\* The changes in a transaction are those of the handler that holds it.
PendingIsOwn ==
  \A c \in Addr : \A t \in pending[c] :
    tx[c] = "open" /\ (held[t] = c \/ Orphan(c))

\* They are changes the handler knows of, and it does not refuse with them,
\* but for the answers that a late query took.
PendingIsWritten ==
  \A t \in Threads :
    held[t] # NONE /\ t \in pending[held[t]] /\ ~raced[t] =>
      wrote[t] /\ step[t] # "refuse"

\* A handler that goes on has given no answer.
AnswerEnds ==
  \A t \in Threads : answer[t] # "none" => step[t] \in {"none", "release", "late"}

\* Changes are stored by a COMMIT, whether its answer came or was lost.
StoredByCommit ==
  \A t \in Threads :
    stored[t] => \/ answer[t] \in {"ok", "lost"}
                 \/ step[t] \in {"commit", "refuse"} /\ held[t] \in broken
                 \/ raced[t]

\* What a handler has written and not failed to write is in its transaction.
WrittenIsPending ==
  \A t \in Threads :
    wrote[t] /\ ~dropped[t] /\ ~raced[t] =>
      /\ step[t] # "begin"
      /\ step[t] \in {"work", "commit"} /\ held[t] \notin broken
           => t \in pending[held[t]]

\* A slot whose connection works and is not given up is lent to the thread that
\* holds it.
HealthyIsHeld ==
  \A s \in Slots :
    avail[s] \in Threads /\ conns[s] \notin broken \cup givenUp
      => held[avail[s]] = conns[s]

HandlerTypes ==
  /\ step \in [Threads -> Steps]
  /\ tx \in [Addr -> {"none", "open", "aborted"}]
  /\ pending \in [Addr -> SUBSET Threads]
  /\ wrote \in [Threads -> BOOLEAN]
  /\ dropped \in [Threads -> BOOLEAN]
  /\ answer \in [Threads -> {"none", "ok", "refused", "lost"}]
  /\ stored \in [Threads -> BOOLEAN]
  /\ kept \in [Threads -> Addr \cup {NONE}]
  /\ raced \in [Threads -> BOOLEAN]
  /\ givenUp \subseteq Addr

SessionInv ==
  /\ HandlerTypes
  /\ StepIffHeld
  /\ LateIsOutside
  /\ TxHasHandler
  /\ PendingIsOwn
  /\ PendingIsWritten
  /\ AnswerEnds
  /\ StoredByCommit
  /\ WrittenIsPending
  /\ HealthyIsHeld
  /\ SuccessIsStored
-------------------------------------------------------------------------------
\* What a handler does with its connection is what Pool lets a thread do.
LEMMA SessionStepIsPoolStep ==
  PoolInv /\ [SessionNext]_sessionVars => [Next]_vars
<1> SUFFICES ASSUME PoolInv, [SessionNext]_sessionVars
             PROVE  [Next]_vars
  OBVIOUS
<1>1. CASE Lifecycle
  BY <1>1 DEF Next
<1>2. ASSUME NEW t \in Threads, Acquire(t)
      PROVE  Use(t)
  BY <1>2 DEF Acquire, Use, Acquiring
<1>3. ASSUME NEW t \in Threads, Command(t)
      PROVE  Use(t) \/ UNCHANGED vars
  BY <1>3
     DEF Command, Begin, Execute, StatementFails, FailureIsDropped, Refuse,
         RefuseByCommit, Finish, Commit, Rollback, ReturnHoldingSlot,
         ReleaseConn, ReleaseAndKeep, Use
<1>4. ASSUME NEW t \in Threads, ConnectionLost(t)
      PROVE  Use(t)
  BY <1>4 DEF ConnectionLost, Use
<1>5. ASSUME NEW t \in Threads, PoolOnly(t)
      PROVE  Use(t)
  BY <1>5 DEF PoolOnly, NextOperation, Use, Acquiring
<1>6. CASE UNCHANGED sessionVars
  BY <1>6 DEF sessionVars
<1>7. ASSUME NEW t \in Threads, Late(t)
      PROVE  Next \/ UNCHANGED vars
  <2>1. CASE LateIsHarmless(t) \/ LateAborts(t)
    BY <2>1 DEF LateIsHarmless, LateAborts
  <2>2. CASE LateBreaks(t)
    <3>1. BreakLate(kept[t]) /\ kept[t] \in Addr
      BY <2>2 DEF LateBreaks, BreakLate, PoolInv, TypeOK
    <3> QED
      BY <3>1 DEF Next
  <2>3. ASSUME NEW u \in Threads, LateSpoils(t, u) \/ LateCollides(t, u)
        PROVE  Next \/ UNCHANGED vars
    BY <2>3 DEF LateSpoils, LateCollides, Next, Use
  <2> QED
    BY <1>7, <2>1, <2>2, <2>3 DEF Late
<1> QED
  BY <1>1, <1>2, <1>3, <1>4, <1>5, <1>6, <1>7 DEF SessionNext, Handle, Next

\* So a session is a behaviour of the pool, and has its invariants.
LEMMA UsesThePool == SessionSpec => Spec
<1>1. SessionInit => Init /\ PoolInv
  BY InvInit DEF SessionInit
<1>2. PoolInv /\ [SessionNext]_sessionVars => [Next]_vars /\ PoolInv'
  BY SessionStepIsPoolStep, InvNext
<1> QED
  BY <1>1, <1>2, PTL DEF SessionSpec, Spec

\* Before psql_pool_init runs no handler has begun.
LEMMA InitHolds == SessionInit => SessionInv
BY PoolAssumption
   DEF SessionInit, Init, SessionInv, HandlerTypes, Steps, StepIffHeld,
       LateIsOutside, TxHasHandler, PendingIsOwn, PendingIsWritten, AnswerEnds,
       StoredByCommit, WrittenIsPending, HealthyIsHeld, SuccessIsStored, Slots

\* A slot lent to a thread that has forgotten its connection is lost for good:
\* nobody takes it and nobody releases it.
LEMMA OrphanStays ==
  ASSUME PoolInv, [Next]_vars, phase # "init", NEW c \in Addr, Orphan(c)
  PROVE  Orphan(c)' /\ phase' # "init"
<1> USE PoolAssumption
<1>1. PICK s \in Slots : conns[s] = c /\ avail[s] \in Threads
  BY DEF Orphan
<1>2. c # NONE /\ avail[s] # ERROR /\ avail[s] # AVAILABLE
  BY <1>1
<1>3. Slots' = Slots
  BY DEF Slots
<1>4. ASSUME NEW t \in Threads, Take(t)
      PROVE  Orphan(c)' /\ phase' # "init"
  <2>1. PICK r \in Slots :
          /\ Usable(r)
          /\ avail' = [Condemned(r) EXCEPT ![r] = t]
          /\ held' = [held EXCEPT ![t] = conns[r]]
    BY <1>4 DEF Take
  <2>2. UNCHANGED <<phase, conns>>
    BY <1>4 DEF Take
  <2>3. r # s /\ conns[r] # c
    BY <1>1, <1>2, <2>1, NoLiveAlias DEF Usable
  <2>4. avail'[s] = avail[s]
    BY <1>2, <2>1, <2>3, CondemnedKeeps DEF PoolInv
  <2>5. \A u \in Threads : held'[u] # c
    BY <2>1, <2>3 DEF Orphan, PoolInv, TypeOK
  <2> QED
    BY <1>1, <1>3, <2>2, <2>4, <2>5 DEF Orphan
<1>5. ASSUME NEW t \in Threads, Block(t)
      PROVE  Orphan(c)' /\ phase' # "init"
  <2>1. avail'[s] = avail[s] /\ UNCHANGED <<phase, conns, held>>
    BY <1>2, <1>5, CondemnedKeeps DEF Block, PoolInv
  <2> QED
    BY <1>1, <1>3, <2>1 DEF Orphan
<1>6. ASSUME NEW t \in Threads, Release(t)
      PROVE  Orphan(c)' /\ phase' # "init"
  <2>1. held[t] # NONE /\ held[t] # c
    BY <1>6 DEF Release, PoolInv, HoldsIffPc, Orphan
  <2>2. /\ SlotsOf(held[t]) # {} /\ LastSlotOf(held[t]) \in Slots
        /\ conns[LastSlotOf(held[t])] = held[t]
    BY <2>1, OwnSlotIsLast
  <2>3. avail'[s] = avail[s] /\ UNCHANGED <<phase, conns>>
    BY <1>1, <1>6, <2>1, <2>2 DEF Release, PoolInv, TypeOK
  <2>4. \A u \in Threads : held'[u] # c
    BY <1>2, <1>6 DEF Release, Orphan, PoolInv, TypeOK
  <2> QED
    BY <1>1, <1>3, <2>3, <2>4 DEF Orphan
<1>7. ASSUME NEW t \in Threads, Abandon(t)
      PROVE  Orphan(c)' /\ phase' # "init"
  <2>1. \A u \in Threads : held'[u] # c
    BY <1>2, <1>7 DEF Abandon, Orphan, PoolInv, TypeOK
  <2> QED
    BY <1>1, <1>3, <1>7, <2>1 DEF Abandon, Orphan
<1>8. CASE \/ BeginDestroy \/ DestroySlot \/ EndDestroy \/ UNCHANGED vars
           \/ \E d \in Addr : BreakLate(d)
           \/ \E t \in Threads :
                Enter(t) \/ SpuriousWakeup(t) \/ Signal(t) \/ Break(t)
  <2>1. UNCHANGED <<conns, avail, held>> /\ phase' # "init"
    BY <1>8
       DEF BeginDestroy, DestroySlot, EndDestroy, vars, BreakLate, Enter,
           SpuriousWakeup, Signal, Break
  <2> QED
    BY <1>1, <1>3, <2>1 DEF Orphan
<1>9. ~(\E d \in Addr : ConnectOk(d) \/ ConnectFails(d))
  BY DEF ConnectOk, ConnectFails, Connect
<1> QED
  BY <1>4, <1>5, <1>6, <1>7, <1>8, <1>9 DEF Next, Lifecycle, Use, Acquiring

\* Who holds a connection is the only one, and its slot is not an orphan's.
LEMMA HolderIsAlone ==
  ASSUME Exclusive, NEW t \in Threads, held[t] # NONE
  PROVE  /\ \A u \in Threads : held[u] = held[t] => u = t
         /\ ~Orphan(held[t])
BY DEF Exclusive, Orphan

\* Steps of the pool that no handler notices.
LEMMA PoolStepKeeps ==
  ASSUME PoolInv, [Next]_vars, SessionInv, UNCHANGED handlerVars,
         \/ Lifecycle
         \/ \E t \in Threads : PoolOnly(t)
         \/ UNCHANGED vars
  PROVE  SessionInv'
<1>1. /\ UNCHANGED <<step, tx, pending, wrote, dropped, answer, stored>>
      /\ UNCHANGED <<kept, raced, givenUp, held, broken>>
  BY DEF handlerVars, lateVars, Lifecycle, ConnectOk, ConnectFails, Connect,
         BeginDestroy, DestroySlot, EndDestroy, PoolOnly, NextOperation, Enter,
         Block, SpuriousWakeup, Signal, vars
<1>2. /\ HandlerTypes' /\ StepIffHeld' /\ PendingIsWritten'
      /\ AnswerEnds' /\ StoredByCommit' /\ WrittenIsPending' /\ SuccessIsStored'
  BY <1>1
     DEF SessionInv, HandlerTypes, StepIffHeld, PendingIsWritten,
         AnswerEnds, StoredByCommit, WrittenIsPending, SuccessIsStored
<1>6. LateIsOutside'
  <2> USE <1>1 DEF SessionInv, LateIsOutside, PoolInv, TypeOK
  <2>1. CASE UNCHANGED pc
    BY <2>1
  <2>2. ASSUME NEW t \in Threads,
               NextOperation(t) \/ Block(t) \/ SpuriousWakeup(t) \/ Signal(t)
        PROVE  LateIsOutside'
    BY <2>2 DEF NextOperation, Enter, Block, SpuriousWakeup, Signal, Waiting
  <2> QED
    BY <2>1, <2>2
       DEF Lifecycle, ConnectOk, ConnectFails, Connect, BeginDestroy, DestroySlot,
           EndDestroy, PoolOnly, vars
<1>4. TxHasHandler'
  <2> SUFFICES ASSUME NEW c \in Addr, tx[c] # "none"
               PROVE  phase' # "init" /\ c \notin broken /\ (WorkedOn(c)' \/ Orphan(c)')
    BY <1>1 DEF TxHasHandler
  <2>1. phase # "init" /\ c \notin broken /\ (WorkedOn(c) \/ Orphan(c))
    BY DEF SessionInv, TxHasHandler
  <2>2. WorkedOn(c) => WorkedOn(c)'
    BY <1>1 DEF WorkedOn
  <2>3. Orphan(c) => Orphan(c)'
    BY <2>1, OrphanStays
  <2>4. phase' # "init"
    BY <2>1
       DEF Lifecycle, ConnectOk, ConnectFails, Connect, BeginDestroy, DestroySlot,
           EndDestroy, PoolOnly, NextOperation, Enter, Block, SpuriousWakeup,
           Signal, vars
  <2> QED
    BY <2>1, <2>2, <2>3, <2>4
<1>5. PendingIsOwn'
  <2> SUFFICES ASSUME NEW c \in Addr, NEW t \in pending[c]
               PROVE  tx[c] = "open" /\ (held[t] = c \/ Orphan(c)')
    BY <1>1 DEF PendingIsOwn
  <2>1. tx[c] = "open" /\ (held[t] = c \/ Orphan(c)) /\ phase # "init"
    BY DEF SessionInv, PendingIsOwn, TxHasHandler
  <2> QED
    BY <2>1, OrphanStays
<1>3. HealthyIsHeld'
  <2> USE PoolAssumption DEF SessionInv, HealthyIsHeld, PoolInv, TypeOK
  <2>1. ASSUME NEW c \in Addr, ConnectOk(c) \/ ConnectFails(c)
        PROVE  HealthyIsHeld'
    BY <1>1, <2>1 DEF ConnectOk, ConnectFails, Connect, Slots
  <2>2. CASE BeginDestroy \/ DestroySlot \/ EndDestroy \/ UNCHANGED vars
    BY <1>1, <2>2 DEF BeginDestroy, DestroySlot, EndDestroy, vars, Slots
  <2>3. ASSUME NEW t \in Threads,
               NextOperation(t) \/ SpuriousWakeup(t) \/ Signal(t)
        PROVE  HealthyIsHeld'
    BY <1>1, <2>3 DEF NextOperation, Enter, SpuriousWakeup, Signal, Slots
  <2>4. ASSUME NEW t \in Threads, Block(t)
        PROVE  HealthyIsHeld'
    BY <1>1, <2>4, CondemnedKeeps DEF Block, Slots
  <2> QED
    BY <2>1, <2>2, <2>3, <2>4 DEF Lifecycle, PoolOnly
<1> QED
  BY <1>2, <1>3, <1>4, <1>5, <1>6 DEF SessionInv

\* The commands of a handler: the pool stands still, and only the handler's own
\* connection and its own answer change.
LEMMA CommandKeeps ==
  ASSUME PoolInv, SessionInv, Exclusive, NEW t \in Threads,
         \/ Begin(t) \/ Execute(t) \/ StatementFails(t) \/ FailureIsDropped(t)
         \/ Refuse(t) \/ RefuseByCommit(t) \/ Finish(t) \/ Commit(t) \/ Rollback(t)
  PROVE  SessionInv'
<1> DEFINE c == held[t]
<1>1. /\ c \in Addr /\ c # NONE /\ phase # "init"
      /\ step[t] \in {"begin", "work", "commit", "refuse", "rollback"}
      /\ UNCHANGED <<phase, pc, held, broken, conns, avail, kept, raced, givenUp>>
      /\ Slots' = Slots
  <2>1. /\ step[t] \in {"begin", "work", "commit", "refuse", "rollback"}
        /\ UNCHANGED <<phase, pc, held, broken, conns, avail, kept, raced, givenUp>>
    BY DEF vars, lateVars, Begin, Execute, StatementFails, FailureIsDropped,
           Refuse, RefuseByCommit, Finish, Commit, Rollback, FailStatement
  <2>2. c # NONE /\ c \in Addr
    BY <2>1, PoolAssumption DEF SessionInv, StepIffHeld, PoolInv, TypeOK
  <2> QED
    BY <2>1, <2>2 DEF PoolInv, Quiet, HoldsIffPc, Slots
<1>2. /\ \A u \in Threads : held[u] = c => u = t
      /\ ~Orphan(c)
      /\ \A d \in Addr : Orphan(d)' <=> Orphan(d)
  BY <1>1, HolderIsAlone DEF Orphan
<1>3. HandlerTypes'
  <2> USE <1>1 DEF SessionInv, HandlerTypes
  <2>1. CASE Begin(t) \/ Refuse(t) \/ RefuseByCommit(t) \/ Finish(t)
    BY <2>1 DEF Begin, Refuse, RefuseByCommit, Finish, GoTo, Conn, Steps
  <2>2. CASE Execute(t)
    BY <2>2 DEF Execute, Conn
  <2>3. CASE StatementFails(t) \/ FailureIsDropped(t)
    BY <2>3 DEF StatementFails, FailureIsDropped, FailStatement, GoTo, Conn, Steps
  <2>4. CASE Rollback(t)
    BY <2>4 DEF Rollback, GoTo, EndTx, Conn, Steps
  <2>5. CASE Commit(t)
    BY <2>5 DEF Commit, GoTo, EndTx, Store, Conn, Steps
  <2> QED
    BY <2>1, <2>2, <2>3, <2>4, <2>5
<1>4. \A u \in Threads : u # t =>
        /\ step'[u] = step[u] /\ wrote'[u] = wrote[u] /\ dropped'[u] = dropped[u]
        /\ answer'[u] = answer[u] /\ stored'[u] = stored[u]
  BY <1>1, <1>2
     DEF SessionInv, HandlerTypes, PendingIsOwn, Begin, Execute, StatementFails,
         FailureIsDropped, Refuse, RefuseByCommit, Finish, Commit, Rollback,
         GoTo, Store, Conn
<1>10. StepIffHeld' /\ LateIsOutside' /\ HealthyIsHeld'
  <2>1. /\ step'[t] \notin {"none", "late"} /\ step[t] \notin {"none", "late"}
        /\ kept' = kept /\ held' = held
    BY <1>1
       DEF SessionInv, HandlerTypes, Begin, Execute, StatementFails,
           FailureIsDropped, Refuse, RefuseByCommit, Finish, Commit, Rollback, GoTo
  <2>2. StepIffHeld'
    BY <1>1, <1>4, <2>1 DEF SessionInv, StepIffHeld
  <2>3. LateIsOutside'
    BY <1>1, <1>4, <2>1 DEF SessionInv, LateIsOutside
  <2> QED
    BY <1>1, <2>2, <2>3 DEF SessionInv, HealthyIsHeld
<1>11. AnswerEnds'
  <2>1. answer'[t] # "none" => step'[t] \in {"none", "release", "late"}
    BY <1>1
       DEF SessionInv, HandlerTypes, AnswerEnds, Begin, Execute, StatementFails,
           FailureIsDropped, Refuse, RefuseByCommit, Finish, Commit, Rollback, GoTo
  <2> QED
    BY <1>4, <2>1 DEF SessionInv, AnswerEnds
<1>12. /\ tx'[c] # "none" =>
            c \notin broken /\ step'[t] \in {"work", "commit", "refuse", "rollback"}
       /\ \A d \in Addr : d # c => tx'[d] = tx[d] /\ pending'[d] = pending[d]
       /\ pending'[c] # {} => tx'[c] = "open"
       /\ pending'[c] \subseteq pending[c] \cup {t}
  <2> USE <1>1, <1>2
      DEF SessionInv, HandlerTypes, Conn, Answering, GoTo
  <2>0. /\ tx[c] # "none" => c \notin broken
        /\ pending[c] # {} => tx[c] = "open"
    BY DEF TxHasHandler, PendingIsOwn
  <2>1. CASE Begin(t)
    BY <2>0, <2>1 DEF Begin
  <2>2. CASE Execute(t)
    BY <2>0, <2>2 DEF Execute
  <2>3. CASE StatementFails(t) \/ FailureIsDropped(t)
    BY <2>0, <2>3 DEF StatementFails, FailureIsDropped, FailStatement
  <2>4. CASE Refuse(t) \/ RefuseByCommit(t) \/ Finish(t)
    BY <2>0, <2>4 DEF Refuse, RefuseByCommit, Finish
  <2>5. CASE Commit(t) \/ Rollback(t)
    BY <2>0, <2>5 DEF Commit, Rollback, EndTx
  <2> QED
    BY <2>1, <2>2, <2>3, <2>4, <2>5
<1>13. pending[c] \subseteq {t}
  BY <1>1, <1>2 DEF SessionInv, PendingIsOwn, HandlerTypes
<1>5. TxHasHandler'
  <2> SUFFICES ASSUME NEW d \in Addr, tx'[d] # "none"
               PROVE  phase' # "init" /\ d \notin broken' /\ (WorkedOn(d)' \/ Orphan(d)')
    BY DEF TxHasHandler
  <2>1. CASE d = c
    BY <1>1, <1>12, <2>1 DEF WorkedOn
  <2>2. CASE d # c
    <3>1. d \notin broken /\ (WorkedOn(d) \/ Orphan(d))
      BY <1>12, <2>2 DEF SessionInv, TxHasHandler
    <3>2. WorkedOn(d) => WorkedOn(d)'
      BY <1>1, <1>4, <2>2 DEF WorkedOn
    <3> QED
      BY <1>1, <1>2, <3>1, <3>2
  <2> QED
    BY <2>1, <2>2
<1>6. PendingIsOwn'
  <2> SUFFICES ASSUME NEW d \in Addr, NEW u \in pending'[d]
               PROVE  tx'[d] = "open" /\ (held[u] = d \/ Orphan(d))
    BY <1>1, <1>2 DEF PendingIsOwn
  <2>1. CASE d = c
    BY <1>12, <1>13, <2>1
  <2>2. CASE d # c
    BY <1>12, <2>2 DEF SessionInv, PendingIsOwn
  <2> QED
    BY <2>1, <2>2
<1>7. StoredByCommit'
  <2>1. CASE Commit(t)
    <3>1. CASE step[t] = "commit"
      BY <1>1, <1>4, <2>1, <3>1
         DEF SessionInv, HandlerTypes, StoredByCommit, Commit, GoTo
    <3>2. CASE step[t] = "refuse"
      <4>1. c \notin broken /\ answer[t] = "none"
        BY <2>1, <3>2 DEF Commit, Answering, Conn, SessionInv, AnswerEnds
      <4>2. stored[t] => raced[t]
        BY <3>2, <4>1 DEF SessionInv, StoredByCommit
      <4>3. t \in pending[c] => raced[t]
        BY <1>1, <3>2 DEF SessionInv, PendingIsWritten
      <4>4. stored'[t] => raced[t]
        BY <2>1, <4>2, <4>3 DEF Commit, Store, Conn
      <4> QED
        BY <1>1, <1>4, <4>4 DEF SessionInv, StoredByCommit
    <3> QED
      BY <2>1, <3>1, <3>2 DEF Commit
  <2>2. CASE ~Commit(t)
    <3>1. stored' = stored
      BY <2>2
         DEF Begin, Execute, StatementFails, FailureIsDropped, Refuse,
             RefuseByCommit, Finish, Rollback
    <3>2. step[t] \notin {"commit", "refuse"}
      BY <2>2
         DEF Begin, Execute, StatementFails, FailureIsDropped, Refuse,
             RefuseByCommit, Finish, Rollback, FailStatement
    <3>3. stored[t] => raced[t]
      BY <1>1, <3>2 DEF SessionInv, StoredByCommit, AnswerEnds
    <3> QED
      BY <1>1, <1>4, <3>1, <3>3 DEF SessionInv, StoredByCommit
  <2> QED
    BY <2>1, <2>2
<1>8. WrittenIsPending'
  <2>1. ASSUME NEW u \in Threads, u # t,
               step[u] \in {"work", "commit"}, held[u] \notin broken
        PROVE  u \in pending[held[u]] => u \in pending'[held[u]]
    <3>1. held[u] \in Addr /\ held[u] # c
      BY <1>2, <2>1 DEF SessionInv, StepIffHeld, PoolInv, TypeOK
    <3> QED
      BY <1>12, <3>1
  <2>2. wrote'[t] /\ ~dropped'[t] /\ ~raced[t] =>
          /\ step'[t] # "begin"
          /\ step'[t] \in {"work", "commit"} /\ c \notin broken => t \in pending'[c]
    BY <1>1
       DEF SessionInv, HandlerTypes, WrittenIsPending, Begin, Execute,
           StatementFails, FailureIsDropped, Refuse, RefuseByCommit, Finish,
           Commit, Rollback, GoTo, EndTx, Conn, Answering
  <2> QED
    BY <1>1, <1>4, <2>1, <2>2 DEF SessionInv, WrittenIsPending
<1>14. PendingIsWritten'
  <2> SUFFICES ASSUME NEW u \in Threads, held[u] # NONE,
                      u \in pending'[held[u]], ~raced[u]
               PROVE  wrote'[u] /\ step'[u] # "refuse"
    BY <1>1 DEF PendingIsWritten
  <2>1. CASE u # t
    <3>1. held[u] # c /\ held[u] \in Addr
      BY <1>2, <2>1 DEF PoolInv, TypeOK
    <3> QED
      BY <1>4, <1>12, <2>1, <3>1 DEF SessionInv, PendingIsWritten
  <2>2. CASE u = t
    BY <1>1, <2>2
       DEF SessionInv, HandlerTypes, PendingIsOwn, PendingIsWritten, Begin,
           Execute, StatementFails, FailureIsDropped, Refuse, RefuseByCommit,
           Finish, Commit, Rollback, FailStatement, GoTo, EndTx, Conn, Answering
  <2> QED
    BY <2>1, <2>2
<1>9. SuccessIsStored'
  <2>1. CASE Commit(t)
    BY <1>1, <1>4, <2>1
       DEF SessionInv, HandlerTypes, SuccessIsStored, WrittenIsPending, Commit,
           GoTo, Store, Conn, Answering
  <2>2. CASE ~Commit(t)
    <3>1. answer'[t] # "ok"
      BY <1>1, <2>2
         DEF SessionInv, HandlerTypes, AnswerEnds, Begin, Execute,
             StatementFails, FailureIsDropped, Refuse, RefuseByCommit, Finish,
             Rollback
    <3> QED
      BY <1>1, <1>4, <3>1 DEF SessionInv, SuccessIsStored
  <2> QED
    BY <2>1, <2>2
<1> QED
  BY <1>3, <1>5, <1>6, <1>7, <1>8, <1>9, <1>10, <1>11, <1>14 DEF SessionInv

\* An idle connection carries no transaction: its slot would be the one of the
\* handler that holds it, or of one that has forgotten it.
LEMMA CleanWhenIdle ==
  ASSUME PoolInv, TxHasHandler, phase = "run", NEW s \in Slots, Usable(s)
  PROVE  conns[s] \in Addr /\ tx[conns[s]] = "none"
<1>1. conns[s] \in Addr /\ avail[s] = AVAILABLE
  BY DEF PoolInv, FilledHasAddress, Filled, Usable
<1>2. SUFFICES ASSUME tx[conns[s]] # "none"
               PROVE  FALSE
  BY <1>1
<1>3. PICK r \in Slots : conns[r] = conns[s] /\ avail[r] \in Threads
  BY <1>1, <1>2, PoolAssumption
     DEF TxHasHandler, WorkedOn, Orphan, PoolInv, OwnsASlot
<1>4. r = s
  BY <1>1, <1>3, NoLiveAlias, PoolAssumption
<1> QED
  BY <1>1, <1>3, <1>4, PoolAssumption

\* A fresh handler: its connection is clean, its record empty.
LEMMA AcquireKeeps ==
  ASSUME PoolInv, [Next]_vars, SessionInv, NEW t \in Threads, Acquire(t)
  PROVE  SessionInv'
<1>1. PICK s \in Slots :
        /\ Usable(s)
        /\ avail' = [Condemned(s) EXCEPT ![s] = t]
        /\ held' = [held EXCEPT ![t] = conns[s]]
  BY DEF Acquire, Take
<1>2. /\ pc[t] = "scan" /\ phase = "run" /\ held[t] = NONE /\ step[t] = "none"
      /\ pc' = [pc EXCEPT ![t] = "hold"]
      /\ UNCHANGED <<phase, conns, broken, tx, pending, kept, givenUp>>
      /\ Slots' = Slots
  BY DEF Acquire, Take, PoolInv, TypeOK, Quiet, HoldsIffPc, SessionInv,
         StepIffHeld, LateIsOutside, Slots
<1>3. conns[s] \in Addr /\ tx[conns[s]] = "none" /\ conns[s] # NONE
  BY <1>1, <1>2, CleanWhenIdle, PoolAssumption DEF SessionInv
<1>14. pending[conns[s]] = {}
  BY <1>3 DEF SessionInv, HandlerTypes, PendingIsOwn
<1>4. /\ held'[t] = conns[s] /\ step'[t] = "begin" /\ ~wrote'[t] /\ ~dropped'[t]
      /\ answer'[t] = "none" /\ ~stored'[t]
  BY <1>1 DEF Acquire, GoTo, PoolInv, TypeOK, SessionInv, HandlerTypes
<1>5. \A u \in Threads : u # t =>
        /\ held'[u] = held[u] /\ step'[u] = step[u] /\ wrote'[u] = wrote[u]
        /\ dropped'[u] = dropped[u] /\ answer'[u] = answer[u]
        /\ stored'[u] = stored[u] /\ raced'[u] = raced[u] /\ pc'[u] = pc[u]
  BY <1>1, <1>2 DEF Acquire, GoTo, PoolInv, TypeOK, SessionInv, HandlerTypes
<1>6. HandlerTypes'
  BY DEF Acquire, GoTo, SessionInv, HandlerTypes, Steps
<1>7. StepIffHeld' /\ LateIsOutside' /\ AnswerEnds'
  BY <1>2, <1>3, <1>4, <1>5
     DEF SessionInv, StepIffHeld, LateIsOutside, AnswerEnds
<1>8. TxHasHandler'
  <2> SUFFICES ASSUME NEW c \in Addr, tx[c] # "none"
               PROVE  phase' # "init" /\ c \notin broken /\ (WorkedOn(c)' \/ Orphan(c)')
    BY <1>2 DEF TxHasHandler
  <2>1. phase # "init" /\ c \notin broken /\ (WorkedOn(c) \/ Orphan(c))
    BY DEF SessionInv, TxHasHandler
  <2>2. WorkedOn(c) => WorkedOn(c)'
    BY <1>2, <1>5 DEF WorkedOn
  <2> QED
    BY <1>2, <2>1, <2>2, OrphanStays
<1>9. PendingIsOwn'
  <2> SUFFICES ASSUME NEW c \in Addr, NEW u \in pending[c]
               PROVE  tx[c] = "open" /\ (held'[u] = c \/ Orphan(c)')
    BY <1>2 DEF PendingIsOwn
  <2>1. u \in Threads /\ tx[c] = "open" /\ (held[u] = c \/ Orphan(c))
    BY DEF SessionInv, PendingIsOwn, HandlerTypes
  <2>2. CASE Orphan(c)
    BY <1>2, <2>1, <2>2, OrphanStays
  <2>3. CASE held[u] = c
    BY <1>2, <1>5, <2>1, <2>3, PoolAssumption
  <2> QED
    BY <2>1, <2>2, <2>3
<1>15. PendingIsWritten'
  BY <1>2, <1>4, <1>5, <1>14 DEF SessionInv, PendingIsWritten
<1>10. StoredByCommit'
  BY <1>2, <1>4, <1>5 DEF SessionInv, StoredByCommit
<1>11. WrittenIsPending'
  BY <1>2, <1>4, <1>5 DEF SessionInv, WrittenIsPending
<1>12. SuccessIsStored'
  BY <1>4, <1>5 DEF SessionInv, SuccessIsStored
<1>13. HealthyIsHeld'
  <2> SUFFICES ASSUME NEW r \in Slots, avail'[r] \in Threads,
                      conns[r] \notin broken \cup givenUp
               PROVE  held'[avail'[r]] = conns[r]
    BY <1>2 DEF HealthyIsHeld
  <2>1. CASE r = s
    BY <1>1, <1>4, <2>1, CondemnedKeeps DEF PoolInv
  <2>2. CASE r # s
    <3>1. avail'[r] = avail[r]
      BY <1>1, <2>2, CondemnedKeeps, PoolAssumption DEF PoolInv
    <3>2. held[avail[r]] = conns[r] /\ conns[r] \in Addr
      BY <1>2, <3>1
         DEF SessionInv, HealthyIsHeld, PoolInv, FilledHasAddress, Filled
    <3> QED
      BY <1>2, <1>5, <3>1, <3>2, PoolAssumption
  <2> QED
    BY <2>1, <2>2
<1> QED
  BY <1>6, <1>7, <1>8, <1>9, <1>10, <1>11, <1>12, <1>13, <1>15 DEF SessionInv

\* A handler t lets its connection go: nothing else moves, its transaction is
\* over or its slot stays behind.
LetsGo(t) ==
  /\ held[t] \in Addr /\ held[t] # NONE
  /\ held' = [held EXCEPT ![t] = NONE]
  /\ UNCHANGED <<phase, conns, broken>>
  /\ \A u \in Threads : u # t =>
       /\ step'[u] = step[u] \/ (step[u] = "late" /\ step'[u] = "none")
       /\ wrote'[u] = wrote[u] /\ dropped'[u] = dropped[u]
       /\ raced'[u] = raced[u] /\ stored'[u] = stored[u]
  /\ \A c \in Addr : c # held[t] => tx'[c] = tx[c] /\ pending'[c] = pending[c]
  /\ \A c \in Addr : c = held[t] /\ tx'[c] # "none" =>
       phase # "init" /\ c \notin broken /\ Orphan(c)'
  /\ pending'[held[t]] # {} => tx'[held[t]] = "open"
  /\ step'[t] \in {"none", "late"}

\* The transactions of the others are not touched by it.
LEMMA LetsGoKeeps ==
  ASSUME PoolInv, [Next]_vars, SessionInv, Exclusive, HandlerTypes',
         NEW t \in Threads, LetsGo(t)
  PROVE  /\ TxHasHandler' /\ PendingIsOwn' /\ PendingIsWritten'
         /\ WrittenIsPending'
<1> DEFINE c == held[t]
<1>1. /\ c \in Addr /\ c # NONE /\ phase # "init" /\ NONE \notin Addr
      /\ held' = [held EXCEPT ![t] = NONE] /\ held \in [Threads -> Addr \cup {NONE}]
      /\ UNCHANGED <<phase, conns, broken>>
      /\ step'[t] \in {"none", "late"}
  BY PoolAssumption DEF LetsGo, PoolInv, TypeOK, Quiet, HoldsIffPc
<1>2. \A u \in Threads : u # t =>
        /\ held'[u] = held[u] /\ held[u] # c
        /\ step'[u] = step[u] \/ (step[u] = "late" /\ step'[u] = "none")
        /\ wrote'[u] = wrote[u] /\ dropped'[u] = dropped[u]
        /\ raced'[u] = raced[u]
  BY <1>1 DEF LetsGo, Exclusive
<1>3. \A d \in Addr : d # c => tx'[d] = tx[d] /\ pending'[d] = pending[d]
  BY DEF LetsGo
<1>4. ASSUME NEW d \in Addr
      PROVE  Orphan(d) => Orphan(d)'
  BY <1>1, OrphanStays
<1>5. TxHasHandler'
  <2> SUFFICES ASSUME NEW d \in Addr, tx'[d] # "none"
               PROVE  phase' # "init" /\ d \notin broken' /\ (WorkedOn(d)' \/ Orphan(d)')
    BY DEF TxHasHandler
  <2>1. CASE d = c
    BY <1>1, <2>1 DEF LetsGo
  <2>2. CASE d # c
    <3>1. d \notin broken /\ (WorkedOn(d) \/ Orphan(d))
      BY <1>3, <2>2 DEF SessionInv, TxHasHandler
    <3>2. WorkedOn(d) => WorkedOn(d)'
      BY <1>2, <2>2 DEF WorkedOn
    <3> QED
      BY <1>1, <1>4, <3>1, <3>2
  <2> QED
    BY <2>1, <2>2
<1>6. PendingIsOwn'
  <2> SUFFICES ASSUME NEW d \in Addr, NEW u \in pending'[d]
               PROVE  tx'[d] = "open" /\ (held'[u] = d \/ Orphan(d)')
    BY DEF PendingIsOwn
  <2>1. CASE d = c
    BY <2>1 DEF LetsGo
  <2>2. CASE d # c
    <3>1. u \in Threads /\ tx[d] = "open" /\ (held[u] = d \/ Orphan(d))
      BY <1>3, <2>2 DEF SessionInv, PendingIsOwn, HandlerTypes
    <3> QED
      BY <1>2, <1>3, <1>4, <2>2, <3>1
  <2> QED
    BY <2>1, <2>2
<1>7. PendingIsWritten'
  <2> SUFFICES ASSUME NEW u \in Threads, held'[u] # NONE,
                      u \in pending'[held'[u]], ~raced'[u]
               PROVE  wrote'[u] /\ step'[u] # "refuse"
    BY DEF PendingIsWritten
  <2>1. u # t
    BY <1>1
  <2>2. held'[u] = held[u] /\ held[u] \in Addr /\ held[u] # c
    BY <1>1, <1>2, <2>1
  <2> QED
    BY <1>2, <1>3, <2>1, <2>2 DEF SessionInv, PendingIsWritten
<1>8. WrittenIsPending'
  <2> SUFFICES ASSUME NEW u \in Threads, wrote'[u], ~dropped'[u], ~raced'[u]
               PROVE  /\ step'[u] # "begin"
                      /\ step'[u] \in {"work", "commit"} /\ held'[u] \notin broken
                           => u \in pending'[held'[u]]
    BY <1>1 DEF WrittenIsPending
  <2>1. CASE u = t
    BY <1>1, <2>1
  <2>2. CASE u # t
    <3>1. /\ step[u] # "begin"
          /\ step[u] \in {"work", "commit"} /\ held[u] \notin broken
               => u \in pending[held[u]] /\ held[u] \in Addr
      BY <1>1, <1>2, <2>2 DEF SessionInv, WrittenIsPending, StepIffHeld
    <3> QED
      BY <1>2, <1>3, <2>2, <3>1
  <2> QED
    BY <2>1, <2>2
<1> QED
  BY <1>5, <1>6, <1>7, <1>8

\* A handler that returns early does so with a connection that is broken: the
\* slot it never releases is no loss.
LEMMA EarlyReturnKeeps ==
  ASSUME PoolInv, [Next]_vars, SessionInv, Exclusive,
         NEW t \in Threads, ReturnHoldingSlot(t)
  PROVE  SessionInv'
<1>1. /\ held[t] \in Addr /\ held[t] # NONE
      /\ UNCHANGED <<phase, conns, avail, broken>>
      /\ UNCHANGED <<tx, pending, wrote, dropped, stored, kept, raced, givenUp>>
      /\ Slots' = Slots
      /\ step[t] \in {"begin", "commit", "refuse", "rollback"}
      /\ held' = [held EXCEPT ![t] = NONE]
      /\ pc' = [pc EXCEPT ![t] = "idle"]
      /\ step' = [step EXCEPT ![t] = "none"]
      /\ answer' = [answer EXCEPT ![t] = "lost"]
  BY PoolAssumption
     DEF ReturnHoldingSlot, Abandon, GoTo, PoolInv, TypeOK, HoldsIffPc, Slots,
         lateVars
<1>2. held[t] \in broken /\ tx[held[t]] = "none"
  <2>1. CASE held[t] \in broken
    BY <1>1, <2>1 DEF SessionInv, TxHasHandler
  <2>2. CASE held[t] \notin broken
    <3>1. step[t] = "begin" /\ tx[held[t]] = "aborted"
      BY <2>2 DEF ReturnHoldingSlot, Answering, Conn
    <3>2. PICK u \in Threads :
            /\ held[u] = held[t]
            /\ step[u] \in {"work", "commit", "refuse", "rollback"}
      BY <1>1, <3>1, HolderIsAlone DEF SessionInv, TxHasHandler, WorkedOn
    <3> QED
      BY <1>1, <3>1, <3>2 DEF Exclusive
  <2> QED
    BY <2>1, <2>2
<1>3. HandlerTypes'
  BY <1>1 DEF SessionInv, HandlerTypes, Steps
<1>4. StepIffHeld' /\ LateIsOutside' /\ AnswerEnds'
  BY <1>1
     DEF SessionInv, StepIffHeld, LateIsOutside, AnswerEnds, HandlerTypes,
         PoolInv, TypeOK
<1>5. LetsGo(t)
  BY <1>1, <1>2 DEF LetsGo, SessionInv, HandlerTypes, PendingIsOwn
<1>6. TxHasHandler' /\ PendingIsOwn' /\ PendingIsWritten' /\ WrittenIsPending'
  BY <1>3, <1>5, LetsGoKeeps
<1>7. StoredByCommit' /\ SuccessIsStored'
  BY <1>1
     DEF SessionInv, StoredByCommit, SuccessIsStored, HandlerTypes, PoolInv, TypeOK
<1>10. HealthyIsHeld'
  BY <1>1, <1>2 DEF SessionInv, HealthyIsHeld, PoolInv, TypeOK
<1> QED
  BY <1>3, <1>4, <1>6, <1>7, <1>10 DEF SessionInv

\* A handler that releases its connection has ended its transaction; the
\* pointer it may keep is not its lease.
LEMMA ReleaseKeeps ==
  ASSUME PoolInv, [Next]_vars, SessionInv, Exclusive,
         NEW t \in Threads, ReleaseConn(t) \/ ReleaseAndKeep(t)
  PROVE  SessionInv'
<1> DEFINE k == LastSlotOf(held[t])
<1>1. /\ pc[t] = "hold" /\ held[t] \in Addr /\ held[t] # NONE /\ phase = "run"
      /\ step[t] = "release" /\ Release(t)
  BY PoolAssumption
     DEF ReleaseConn, ReleaseAndKeep, Release, PoolInv, TypeOK, HoldsIffPc, Quiet
<1>2. SlotsOf(held[t]) # {} /\ k \in Slots /\ conns[k] = held[t] /\ avail[k] = t
  BY <1>1, OwnSlotIsLast
<1>3. /\ avail' = [avail EXCEPT ![k] = AVAILABLE]
      /\ held' = [held EXCEPT ![t] = NONE]
      /\ pc' = [pc EXCEPT ![t] = "signal"]
      /\ UNCHANGED <<phase, conns, broken>>
      /\ UNCHANGED <<tx, pending, wrote, dropped, answer, stored, raced, givenUp>>
      /\ Slots' = Slots
      /\ \/ step' = [step EXCEPT ![t] = "none"] /\ kept' = kept
         \/ /\ step' = [step EXCEPT ![t] = "late"]
            /\ kept' = [kept EXCEPT ![t] = held[t]]
  BY <1>1, <1>2 DEF ReleaseConn, ReleaseAndKeep, Release, GoTo, lateVars, Slots
<1> HIDE DEF k
<1>4. tx[held[t]] = "none"
  <2> SUFFICES ASSUME tx[held[t]] # "none"
               PROVE  FALSE
    OBVIOUS
  <2>1. PICK u \in Threads :
          /\ held[u] = held[t]
          /\ step[u] \in {"work", "commit", "refuse", "rollback"}
    BY <1>1, HolderIsAlone DEF SessionInv, TxHasHandler, WorkedOn
  <2> QED
    BY <1>1, <2>1 DEF Exclusive
<1>5. HandlerTypes'
  BY <1>1, <1>3 DEF SessionInv, HandlerTypes, Steps
<1>6. StepIffHeld' /\ LateIsOutside' /\ AnswerEnds'
  BY <1>1, <1>3
     DEF SessionInv, HandlerTypes, StepIffHeld, LateIsOutside, AnswerEnds,
         PoolInv, TypeOK
<1>7. LetsGo(t)
  <2>1. pending[held[t]] = {}
    BY <1>1, <1>4 DEF SessionInv, HandlerTypes, PendingIsOwn
  <2> QED
    BY <1>1, <1>3, <1>4, <2>1 DEF LetsGo, SessionInv, HandlerTypes
<1>8. TxHasHandler' /\ PendingIsOwn' /\ PendingIsWritten' /\ WrittenIsPending'
  BY <1>5, <1>7, LetsGoKeeps
<1>9. StoredByCommit' /\ SuccessIsStored'
  BY <1>1, <1>3
     DEF SessionInv, StoredByCommit, SuccessIsStored, HandlerTypes, PoolInv, TypeOK
<1>10. HealthyIsHeld'
  <2> SUFFICES ASSUME NEW r \in Slots, avail'[r] \in Threads,
                      conns[r] \notin broken \cup givenUp
               PROVE  held'[avail'[r]] = conns[r]
    BY <1>3 DEF HealthyIsHeld
  <2>1. r # k /\ avail'[r] = avail[r] /\ held[avail[r]] = conns[r]
    BY <1>2, <1>3, PoolAssumption DEF SessionInv, HealthyIsHeld, PoolInv, TypeOK
  <2>2. avail[r] # t
    BY <1>1, <1>2, <2>1, NoLiveAlias, PoolAssumption
  <2> QED
    BY <1>3, <2>1, <2>2 DEF PoolInv, TypeOK
<1> QED
  BY <1>5, <1>6, <1>8, <1>9, <1>10 DEF SessionInv

\* COMMIT on connection c stores the changes of the handler t that holds it.
LEMMA StoresOwn ==
  ASSUME SessionInv, Exclusive, NEW t \in Threads, held[t] \in Addr, held[t] # NONE,
         Store(pending[held[t]]) \/ UNCHANGED stored
  PROVE  /\ stored' \in [Threads -> BOOLEAN]
         /\ \A u \in Threads : u # t => (stored'[u] <=> stored[u])
         /\ stored[t] => stored'[t]
<1>1. stored \in [Threads -> BOOLEAN]
  BY DEF SessionInv, HandlerTypes
<1>2. CASE UNCHANGED stored
  BY <1>1, <1>2
<1>3. CASE Store(pending[held[t]])
  <2>1. \A u \in Threads : u # t => u \notin pending[held[t]]
    BY HolderIsAlone DEF SessionInv, HandlerTypes, PendingIsOwn
  <2>2. stored' = [u \in Threads |-> stored[u] \/ u \in pending[held[t]]]
    BY <1>3 DEF Store
  <2>3. \A u \in Threads : stored'[u] = (stored[u] \/ u \in pending[held[t]])
    BY <2>2
  <2>4. stored' \in [Threads -> BOOLEAN]
    BY <2>2
  <2>5. \A u \in Threads : u # t => (stored'[u] <=> stored[u])
    BY <2>1, <2>3
  <2> QED
    BY <2>3, <2>4, <2>5, Zenon
<1> QED
  BY <1>2, <1>3

\* A connection that is lost, in a handler's hands or in a late query, takes
\* its transaction with it.
LEMMA LossKeepsTx ==
  ASSUME PoolInv, [Next]_vars, SessionInv, NEW c \in Addr,
         broken' = broken \cup {c},
         tx' = [tx EXCEPT ![c] = "none"],
         pending' = [pending EXCEPT ![c] = {}],
         UNCHANGED <<phase, held, conns, avail, wrote, dropped, raced, givenUp>>,
         \A u \in Threads : held[u] # NONE => step'[u] = step[u],
         \A u \in Threads : held[u] = NONE => step'[u] \in {"none", "late"}
  PROVE  /\ TxHasHandler' /\ PendingIsOwn' /\ PendingIsWritten'
         /\ WrittenIsPending' /\ HealthyIsHeld'
<1>1. \A d \in Addr : Orphan(d)' <=> Orphan(d)
  BY DEF Orphan, Slots
<1>2. TxHasHandler'
  <2> SUFFICES ASSUME NEW d \in Addr, tx'[d] # "none"
               PROVE  phase' # "init" /\ d \notin broken' /\ (WorkedOn(d)' \/ Orphan(d)')
    BY DEF TxHasHandler
  <2>1. d # c /\ tx[d] # "none"
    BY DEF SessionInv, HandlerTypes
  <2>2. WorkedOn(d) => WorkedOn(d)'
    BY PoolAssumption DEF WorkedOn
  <2> QED
    BY <1>1, <2>1, <2>2 DEF SessionInv, TxHasHandler
<1>3. PendingIsOwn'
  BY <1>1 DEF SessionInv, HandlerTypes, PendingIsOwn
<1>4. PendingIsWritten'
  BY DEF SessionInv, HandlerTypes, PendingIsWritten
<1>5. WrittenIsPending'
  <2> SUFFICES ASSUME NEW u \in Threads, wrote[u], ~dropped[u], ~raced[u]
               PROVE  /\ step'[u] # "begin"
                      /\ step'[u] \in {"work", "commit"} /\ held[u] \notin broken'
                           => u \in pending'[held[u]]
    BY DEF WrittenIsPending
  <2>1. CASE held[u] = NONE
    BY <2>1
  <2>2. CASE held[u] # NONE
    <3>1. step'[u] = step[u] /\ held[u] \in Addr
      BY <2>2 DEF PoolInv, TypeOK
    <3> QED
      BY <3>1 DEF SessionInv, WrittenIsPending, HandlerTypes
  <2> QED
    BY <2>1, <2>2
<1>6. HealthyIsHeld'
  BY DEF SessionInv, HealthyIsHeld, Slots
<1> QED
  BY <1>2, <1>3, <1>4, <1>5, <1>6

\* The server goes away, after COMMIT was carried out or before.
LEMMA LossKeeps ==
  ASSUME PoolInv, [Next]_vars, SessionInv, Exclusive,
         NEW t \in Threads, ConnectionLost(t)
  PROVE  SessionInv'
<1> DEFINE c == held[t]
<1>1. /\ c \in Addr /\ c # NONE /\ c \notin broken
      /\ step[t] \in {"begin", "work", "commit", "refuse", "rollback"}
      /\ broken' = broken \cup {c}
      /\ tx' = [tx EXCEPT ![c] = "none"]
      /\ pending' = [pending EXCEPT ![c] = {}]
      /\ UNCHANGED <<phase, pc, held, conns, avail>>
      /\ UNCHANGED <<step, wrote, dropped, answer, kept, raced, givenUp>>
      /\ Slots' = Slots
  BY PoolAssumption
     DEF ConnectionLost, Break, EndTx, Answering, Conn, PoolInv, TypeOK,
         HoldsIffPc, Slots, lateVars
<1>2. Store(pending[c]) \/ UNCHANGED stored
  BY DEF ConnectionLost, Conn
<1>3. /\ stored' \in [Threads -> BOOLEAN]
      /\ \A u \in Threads : u # t => (stored'[u] <=> stored[u])
      /\ stored[t] => stored'[t]
  BY <1>1, <1>2, StoresOwn
<1>7. stored'[t] => stored[t] \/ step[t] \in {"commit", "refuse"}
  BY <1>1 DEF ConnectionLost
<1>4. HandlerTypes' /\ StepIffHeld' /\ LateIsOutside' /\ AnswerEnds'
  BY <1>1, <1>3
     DEF SessionInv, HandlerTypes, StepIffHeld, LateIsOutside, AnswerEnds
<1>5. /\ TxHasHandler' /\ PendingIsOwn' /\ PendingIsWritten'
      /\ WrittenIsPending' /\ HealthyIsHeld'
  <2>1. \A u \in Threads : held[u] = NONE => step'[u] \in {"none", "late"}
    BY <1>1 DEF SessionInv, StepIffHeld
  <2> QED
    BY <1>1, <2>1, LossKeepsTx
<1>6. StoredByCommit'
  BY <1>1, <1>3, <1>7 DEF SessionInv, StoredByCommit
<1>8. SuccessIsStored'
  BY <1>1, <1>3 DEF SessionInv, SuccessIsStored
<1> QED
  BY <1>4, <1>5, <1>6, <1>8 DEF SessionInv

-------------------------------------------------------------------------------
\* A late query begins with the handler over and ends with the pointer gone.
LEMMA LateStarts ==
  ASSUME PoolInv, SessionInv, NEW t \in Threads, LateQuery(t)
  PROVE  /\ step[t] = "late" /\ pc[t] = "idle" /\ held[t] = NONE
         /\ kept[t] \in Addr /\ kept[t] # NONE
         /\ kept' = [kept EXCEPT ![t] = NONE]
BY PoolAssumption
   DEF LateQuery, SessionInv, StepIffHeld, HandlerTypes

\* It ends harmlessly, or with the transaction of the holder aborted.
LEMMA LateEndsKeeps ==
  ASSUME PoolInv, SessionInv, Exclusive,
         NEW t \in Threads, LateIsHarmless(t) \/ LateAborts(t)
  PROVE  SessionInv'
<1> DEFINE c == kept[t]
<1>1. /\ step[t] = "late" /\ pc[t] = "idle" /\ held[t] = NONE
      /\ c \in Addr /\ c # NONE
      /\ kept' = [kept EXCEPT ![t] = NONE]
      /\ step' = [step EXCEPT ![t] = "none"]
      /\ UNCHANGED <<phase, pc, held, conns, avail, broken>>
      /\ UNCHANGED <<wrote, dropped, answer, stored, givenUp>>
      /\ Slots' = Slots
  <2>1. LateQuery(t)
    BY DEF LateIsHarmless, LateAborts
  <2> QED
    BY <2>1, LateStarts DEF LateIsHarmless, LateAborts, GoTo, vars, Slots
<1>2. /\ raced' \in [Threads -> BOOLEAN]
      /\ \A u \in Threads : raced[u] => raced'[u]
      /\ tx' \in [Addr -> {"none", "open", "aborted"}]
      /\ pending' \in [Addr -> SUBSET Threads]
      /\ \A d \in Addr : d # c => tx'[d] = tx[d] /\ pending'[d] = pending[d]
      /\ \/ tx'[c] = tx[c] /\ pending'[c] = pending[c]
         \/ /\ tx[c] = "open" /\ tx'[c] = "aborted" /\ pending'[c] = {}
            /\ \A u \in Threads : held[u] = c => raced'[u]
  <2>1. CASE LateIsHarmless(t)
    BY <2>1 DEF LateIsHarmless, SessionInv, HandlerTypes
  <2>2. CASE LateAborts(t)
    <3>1. /\ raced' = [u \in Threads |-> raced[u] \/ held[u] = c]
          /\ tx[c] = "open"
          /\ tx' = [tx EXCEPT ![c] = "aborted"]
          /\ pending' = [pending EXCEPT ![c] = {}]
      BY <2>2 DEF LateAborts
    <3>2. \A u \in Threads : raced'[u] = (raced[u] \/ held[u] = c)
      BY <3>1
    <3>3. raced' \in [Threads -> BOOLEAN]
      BY <3>1
    <3>4. /\ \A u \in Threads : raced[u] => raced'[u]
          /\ \A u \in Threads : held[u] = c => raced'[u]
      BY <3>2, Zenon
    <3> QED
      BY <1>1, <3>1, <3>3, <3>4 DEF SessionInv, HandlerTypes
  <2> QED
    BY <2>1, <2>2
<1>3. HandlerTypes'
  BY <1>1, <1>2 DEF SessionInv, HandlerTypes, Steps
<1>4. /\ StepIffHeld' /\ LateIsOutside' /\ AnswerEnds' /\ HealthyIsHeld'
      /\ StoredByCommit' /\ SuccessIsStored'
  BY <1>1, <1>2
     DEF SessionInv, HandlerTypes, StepIffHeld, LateIsOutside, AnswerEnds,
         HealthyIsHeld, StoredByCommit, SuccessIsStored
<1>5. \A d \in Addr : (Orphan(d)' <=> Orphan(d)) /\ (WorkedOn(d) => WorkedOn(d)')
  BY <1>1 DEF Orphan, WorkedOn, SessionInv, HandlerTypes
<1>6. TxHasHandler'
  <2> SUFFICES ASSUME NEW d \in Addr, tx'[d] # "none"
               PROVE  phase' # "init" /\ d \notin broken' /\ (WorkedOn(d)' \/ Orphan(d)')
    BY DEF TxHasHandler
  <2>1. tx[d] # "none"
    BY <1>2
  <2> QED
    BY <1>1, <1>5, <2>1 DEF SessionInv, TxHasHandler
<1>7. PendingIsOwn'
  <2> SUFFICES ASSUME NEW d \in Addr, NEW u \in pending'[d]
               PROVE  tx'[d] = "open" /\ (held[u] = d \/ Orphan(d))
    BY <1>1, <1>5 DEF PendingIsOwn
  <2>1. tx'[d] = tx[d] /\ u \in pending[d]
    BY <1>2
  <2> QED
    BY <2>1 DEF SessionInv, PendingIsOwn
<1>8. PendingIsWritten'
  <2> SUFFICES ASSUME NEW u \in Threads, held[u] # NONE, u \in pending'[held[u]],
                      ~raced'[u]
               PROVE  wrote[u] /\ step'[u] # "refuse"
    BY <1>1 DEF PendingIsWritten
  <2>1. held[u] \in Addr /\ u # t
    BY <1>1 DEF PoolInv, TypeOK
  <2>2. u \in pending[held[u]] /\ ~raced[u] /\ step'[u] = step[u]
    BY <1>1, <1>2, <2>1 DEF SessionInv, HandlerTypes
  <2> QED
    BY <2>2 DEF SessionInv, PendingIsWritten
<1>9. WrittenIsPending'
  <2> SUFFICES ASSUME NEW u \in Threads, wrote[u], ~dropped[u], ~raced'[u]
               PROVE  /\ step'[u] # "begin"
                      /\ step'[u] \in {"work", "commit"} /\ held[u] \notin broken
                           => u \in pending'[held[u]]
    BY <1>1 DEF WrittenIsPending
  <2>1. CASE u = t
    BY <1>1, <2>1 DEF SessionInv, HandlerTypes
  <2>2. CASE u # t
    <3>1. step'[u] = step[u] /\ ~raced[u]
      BY <1>1, <1>2, <2>2 DEF SessionInv, HandlerTypes
    <3>2. step[u] \in {"work", "commit"} => held[u] \in Addr
      BY DEF SessionInv, StepIffHeld, PoolInv, TypeOK
    <3>3. held[u] \in Addr => pending'[held[u]] = pending[held[u]]
      BY <1>2
    <3> QED
      BY <3>1, <3>2, <3>3 DEF SessionInv, WrittenIsPending
  <2> QED
    BY <2>1, <2>2
<1> QED
  BY <1>3, <1>4, <1>6, <1>7, <1>8, <1>9 DEF SessionInv

\* It finds the server gone.
LEMMA LateBreaksKeeps ==
  ASSUME PoolInv, [Next]_vars, SessionInv, Exclusive,
         NEW t \in Threads, LateBreaks(t)
  PROVE  SessionInv'
<1> DEFINE c == kept[t]
<1>1. /\ step[t] = "late" /\ pc[t] = "idle" /\ held[t] = NONE
      /\ c \in Addr /\ c # NONE
      /\ kept' = [kept EXCEPT ![t] = NONE]
      /\ step' = [step EXCEPT ![t] = "none"]
      /\ broken' = broken \cup {c}
      /\ tx' = [tx EXCEPT ![c] = "none"]
      /\ pending' = [pending EXCEPT ![c] = {}]
      /\ UNCHANGED <<phase, pc, held, conns, avail>>
      /\ UNCHANGED <<wrote, dropped, answer, stored, raced, givenUp>>
      /\ Slots' = Slots
  <2>1. LateQuery(t)
    BY DEF LateBreaks
  <2> QED
    BY <2>1, LateStarts DEF LateBreaks, BreakLate, EndTx, GoTo, Slots
<1>2. /\ HandlerTypes' /\ StepIffHeld' /\ LateIsOutside' /\ AnswerEnds'
      /\ StoredByCommit' /\ SuccessIsStored'
  <2>1. HandlerTypes'
    BY <1>1 DEF SessionInv, HandlerTypes, Steps
  <2> QED
    BY <1>1, <2>1
       DEF SessionInv, HandlerTypes, StepIffHeld, LateIsOutside, AnswerEnds,
           StoredByCommit, SuccessIsStored
<1>3. /\ \A u \in Threads : held[u] # NONE => step'[u] = step[u]
      /\ \A u \in Threads : held[u] = NONE => step'[u] \in {"none", "late"}
  BY <1>1 DEF SessionInv, HandlerTypes, StepIffHeld
<1>4. /\ TxHasHandler' /\ PendingIsOwn' /\ PendingIsWritten'
      /\ WrittenIsPending' /\ HealthyIsHeld'
  BY <1>1, <1>3, LossKeepsTx
<1> QED
  BY <1>2, <1>4 DEF SessionInv

\* It takes the answer of a statement of the handler that holds the connection.
LEMMA LateSpoilsKeeps ==
  ASSUME PoolInv, SessionInv, Exclusive,
         NEW t \in Threads, NEW u \in Threads, LateSpoils(t, u)
  PROVE  SessionInv'
<1> DEFINE c == held[u]
<1>1. /\ step[t] = "late" /\ pc[t] = "idle" /\ held[t] = NONE
      /\ c = kept[t] /\ c \in Addr /\ c # NONE /\ c \notin broken
      /\ step[u] = "work" /\ t # u
      /\ kept' = [kept EXCEPT ![t] = NONE]
      /\ raced' = [raced EXCEPT ![u] = TRUE]
      /\ UNCHANGED <<phase, pc, held, conns, avail, broken>>
      /\ UNCHANGED <<tx, wrote, dropped, answer, stored, givenUp>>
      /\ Slots' = Slots
  <2>1. LateQuery(t)
    BY DEF LateSpoils, Collision
  <2> QED
    BY <2>1, LateStarts DEF LateSpoils, Collision, Answering, Conn, vars, Slots
<1>2. PICK s \in {"work", "rollback"} : step' = [step EXCEPT ![t] = "none", ![u] = s]
  BY DEF LateSpoils
<1>3. /\ step'[t] = "none" /\ step'[u] = s /\ raced'[u]
      /\ \A v \in Threads : v # t /\ v # u =>
           step'[v] = step[v] /\ raced'[v] = raced[v]
      /\ \A v \in Threads : raced[v] => raced'[v]
  BY <1>1, <1>2 DEF SessionInv, HandlerTypes
<1>4. /\ pending' \in [Addr -> SUBSET Threads]
      /\ \A d \in Addr : d # c => pending'[d] = pending[d]
      /\ \/ pending'[c] = pending[c]
         \/ tx[c] = "open" /\ pending'[c] = pending[c] \cup {u}
  BY <1>1 DEF LateSpoils, Conn, SessionInv, HandlerTypes
<1>5. HandlerTypes'
  BY <1>1, <1>2, <1>4 DEF SessionInv, HandlerTypes, Steps
<1>6. /\ StepIffHeld' /\ LateIsOutside' /\ AnswerEnds' /\ HealthyIsHeld'
      /\ StoredByCommit' /\ SuccessIsStored'
  <2>1. answer[u] = "none"
    BY <1>1 DEF SessionInv, AnswerEnds
  <2> QED
    BY <1>1, <1>3, <2>1
       DEF SessionInv, HandlerTypes, StepIffHeld, LateIsOutside, AnswerEnds,
           HealthyIsHeld, StoredByCommit, SuccessIsStored
<1>7. \A d \in Addr : (Orphan(d)' <=> Orphan(d)) /\ (WorkedOn(d) => WorkedOn(d)')
  BY <1>1, <1>3 DEF Orphan, WorkedOn
<1>8. TxHasHandler'
  BY <1>1, <1>7 DEF SessionInv, TxHasHandler
<1>9. PendingIsOwn'
  <2> SUFFICES ASSUME NEW d \in Addr, NEW v \in pending'[d]
               PROVE  tx[d] = "open" /\ (held[v] = d \/ Orphan(d))
    BY <1>1, <1>7 DEF PendingIsOwn
  <2>1. v \in pending[d] \/ (d = c /\ v = u /\ tx[c] = "open")
    BY <1>4
  <2> QED
    BY <2>1 DEF SessionInv, PendingIsOwn
<1>10. PendingIsWritten'
  <2> SUFFICES ASSUME NEW v \in Threads, held[v] # NONE, v \in pending'[held[v]],
                      ~raced'[v]
               PROVE  wrote[v] /\ step'[v] # "refuse"
    BY <1>1 DEF PendingIsWritten
  <2>1. v # u /\ v # t /\ held[v] \in Addr /\ held[v] # c
    BY <1>1, <1>3 DEF Exclusive, PoolInv, TypeOK
  <2> QED
    BY <1>3, <1>4, <2>1 DEF SessionInv, PendingIsWritten
<1>11. WrittenIsPending'
  <2> SUFFICES ASSUME NEW v \in Threads, wrote[v], ~dropped[v], ~raced'[v]
               PROVE  /\ step'[v] # "begin"
                      /\ step'[v] \in {"work", "commit"} /\ held[v] \notin broken
                           => v \in pending'[held[v]]
    BY <1>1 DEF WrittenIsPending
  <2>1. v # u
    BY <1>3
  <2>2. CASE v = t
    BY <1>3, <2>2
  <2>3. CASE v # t
    <3>1. step'[v] = step[v] /\ ~raced[v]
      BY <1>3, <2>1, <2>3
    <3>2. step[v] \in {"work", "commit"} => held[v] \in Addr /\ held[v] # c
      BY <1>1, <2>1 DEF Exclusive, SessionInv, StepIffHeld, PoolInv, TypeOK
    <3> QED
      BY <1>4, <3>1, <3>2 DEF SessionInv, WrittenIsPending
  <2> QED
    BY <2>2, <2>3
<1> QED
  BY <1>5, <1>6, <1>8, <1>9, <1>10, <1>11 DEF SessionInv

\* It takes the answer of BEGIN, COMMIT or ROLLBACK: the holder returns without
\* RELEASE, and the slot is an orphan.
LEMMA LateCollidesKeeps ==
  ASSUME PoolInv, [Next]_vars, SessionInv, Exclusive,
         NEW t \in Threads, NEW u \in Threads, LateCollides(t, u)
  PROVE  SessionInv'
<1> DEFINE c == held[u]
<1>1. /\ step[t] = "late" /\ pc[t] = "idle" /\ held[t] = NONE
      /\ c = kept[t] /\ c \in Addr /\ c # NONE /\ c \notin broken
      /\ step[u] \in {"begin", "commit", "refuse", "rollback"} /\ t # u
      /\ kept' = [kept EXCEPT ![t] = NONE]
      /\ step' = [step EXCEPT ![t] = "none", ![u] = "none"]
      /\ answer' = [answer EXCEPT ![u] = "lost"]
      /\ givenUp' = givenUp \cup {c}
      /\ held' = [held EXCEPT ![u] = NONE]
      /\ pc' = [pc EXCEPT ![u] = "idle"]
      /\ UNCHANGED <<phase, conns, avail, broken, wrote, dropped, raced>>
      /\ Slots' = Slots
  <2>1. LateQuery(t)
    BY DEF LateCollides, Collision
  <2> QED
    BY <2>1, LateStarts
       DEF LateCollides, Collision, Answering, Conn, Abandon, Slots
<1>2. /\ step'[t] = "none" /\ step'[u] = "none" /\ answer'[u] = "lost"
      /\ held'[u] = NONE /\ pc'[u] = "idle" /\ kept'[t] = NONE
      /\ \A v \in Threads : v # u =>
           answer'[v] = answer[v] /\ held'[v] = held[v] /\ pc'[v] = pc[v]
      /\ \A v \in Threads : v # t => kept'[v] = kept[v]
      /\ \A v \in Threads : v # t /\ v # u => step'[v] = step[v]
  BY <1>1 DEF SessionInv, HandlerTypes, PoolInv, TypeOK
<1>3. Store(pending[c]) \/ UNCHANGED stored
  BY DEF LateCollides, CarriedOut, Conn
<1>4. /\ stored' \in [Threads -> BOOLEAN]
      /\ \A v \in Threads : v # u => (stored'[v] <=> stored[v])
      /\ stored[u] => stored'[u]
  BY <1>1, <1>3, StoresOwn
<1>5. /\ tx' \in [Addr -> {"none", "open", "aborted"}]
      /\ pending' \in [Addr -> SUBSET Threads]
      /\ \A d \in Addr : d # c => tx'[d] = tx[d] /\ pending'[d] = pending[d]
      /\ pending'[c] # {} => tx'[c] = "open"
  <2>1. pending[c] # {} => tx[c] = "open"
    BY <1>1 DEF SessionInv, PendingIsOwn, HandlerTypes
  <2> QED
    BY <1>1, <2>1
       DEF LateCollides, CarriedOut, EndTx, Conn, SessionInv, HandlerTypes
<1>6. HandlerTypes'
  BY <1>1, <1>4, <1>5 DEF SessionInv, HandlerTypes, Steps
<1>7. StepIffHeld' /\ LateIsOutside' /\ AnswerEnds'
  <2>1. kept[u] = NONE /\ kept'[u] = NONE
    BY <1>1, <1>2 DEF SessionInv, StepIffHeld
  <2> SUFFICES ASSUME NEW v \in Threads
               PROVE  /\ step'[v] \in {"none", "late"} <=> held'[v] = NONE
                      /\ step'[v] = "late" <=> kept'[v] # NONE
                      /\ step'[v] = "late" => pc'[v] \in {"idle", "signal"}
                      /\ answer'[v] # "none" => step'[v] \in {"none", "release", "late"}
    BY DEF StepIffHeld, LateIsOutside, AnswerEnds
  <2>2. CASE v = t
    BY <1>1, <1>2, <2>2
  <2>3. CASE v = u
    BY <1>2, <2>1, <2>3
  <2>4. CASE v # t /\ v # u
    BY <1>2, <2>4 DEF SessionInv, StepIffHeld, LateIsOutside, AnswerEnds
  <2> QED
    BY <2>2, <2>3, <2>4
<1>8. ASSUME NEW d \in Addr, d = c
      PROVE  Orphan(d)'
  <2>1. PICK s \in Slots : conns[s] = d /\ avail[s] = u
    BY <1>1, <1>8 DEF PoolInv, OwnsASlot
  <2>2. \A v \in Threads : held'[v] # d
    BY <1>1, <1>2, <1>8, PoolAssumption DEF Exclusive
  <2> QED
    BY <1>1, <2>1, <2>2 DEF Orphan
<1>9. LetsGo(u)
  <2>1. phase # "init"
    BY <1>1 DEF PoolInv, Quiet, HoldsIffPc
  <2>2. \A v \in Threads : v # u =>
          step'[v] = step[v] \/ (step[v] = "late" /\ step'[v] = "none")
    BY <1>1, <1>2
  <2>3. \A v \in Threads : v # u => stored'[v] = stored[v]
    BY <1>4 DEF SessionInv, HandlerTypes
  <2> QED
    BY <1>1, <1>2, <1>5, <1>8, <2>1, <2>2, <2>3 DEF LetsGo
<1>10. TxHasHandler' /\ PendingIsOwn' /\ PendingIsWritten' /\ WrittenIsPending'
  BY <1>6, <1>9, LetsGoKeeps
<1>13. StoredByCommit'
  <2> SUFFICES ASSUME NEW v \in Threads, stored'[v]
               PROVE  \/ answer'[v] \in {"ok", "lost"}
                      \/ step'[v] \in {"commit", "refuse"} /\ held'[v] \in broken'
                      \/ raced'[v]
    BY DEF StoredByCommit
  <2>1. CASE v = u
    BY <1>2, <2>1
  <2>2. CASE v # u
    <3>1. stored[v]
      BY <1>4, <2>2
    <3>2. \/ answer[v] \in {"ok", "lost"}
          \/ step[v] \in {"commit", "refuse"} /\ held[v] \in broken
          \/ raced[v]
      BY <3>1 DEF SessionInv, StoredByCommit
    <3>3. CASE v = t
      BY <1>1, <1>2, <2>2, <3>2, <3>3
    <3>4. CASE v # t
      <4>1. /\ answer'[v] = answer[v] /\ step'[v] = step[v] /\ held'[v] = held[v]
            /\ raced' = raced /\ broken' = broken
        BY <1>1, <1>2, <2>2, <3>4
      <4> QED
        BY <3>2, <4>1
    <3> QED
      BY <3>3, <3>4
  <2> QED
    BY <2>1, <2>2
<1>11. SuccessIsStored'
  <2> SUFFICES ASSUME NEW v \in Threads,
                      answer'[v] = "ok", wrote'[v], ~dropped'[v], ~raced'[v]
               PROVE  stored'[v]
    BY DEF SuccessIsStored
  <2>1. v # u /\ answer[v] = "ok" /\ wrote[v] /\ ~dropped[v] /\ ~raced[v]
    BY <1>1, <1>2
  <2>2. stored[v]
    BY <2>1 DEF SessionInv, SuccessIsStored
  <2> QED
    BY <1>4, <2>1, <2>2
<1>12. HealthyIsHeld'
  <2> SUFFICES ASSUME NEW r \in Slots, avail[r] \in Threads,
                      conns[r] \notin broken \cup givenUp \cup {c}
               PROVE  held'[avail[r]] = conns[r]
    BY <1>1 DEF HealthyIsHeld
  <2>1. held[avail[r]] = conns[r]
    BY DEF SessionInv, HealthyIsHeld
  <2> QED
    BY <1>2, <2>1
<1> QED
  BY <1>6, <1>7, <1>10, <1>11, <1>12, <1>13 DEF SessionInv

\* SessionInv is inductive, given what the pool guarantees.
LEMMA SessionInvNext ==
  PoolInv /\ Exclusive /\ SessionInv /\ [SessionNext]_sessionVars => SessionInv'
<1> SUFFICES ASSUME PoolInv, Exclusive, SessionInv, [SessionNext]_sessionVars
             PROVE  SessionInv'
  OBVIOUS
<1>0. [Next]_vars
  BY SessionStepIsPoolStep
<1>1. CASE (Lifecycle /\ UNCHANGED handlerVars) \/ UNCHANGED sessionVars
  BY <1>0, <1>1, PoolStepKeeps DEF sessionVars
<1>2. ASSUME NEW t \in Threads, Acquire(t)
      PROVE  SessionInv'
  BY <1>0, <1>2, AcquireKeeps
<1>3. ASSUME NEW t \in Threads, Command(t)
      PROVE  SessionInv'
  BY <1>0, <1>3, CommandKeeps, EarlyReturnKeeps, ReleaseKeeps DEF Command
<1>4. ASSUME NEW t \in Threads, ConnectionLost(t)
      PROVE  SessionInv'
  BY <1>0, <1>4, LossKeeps
<1>5. ASSUME NEW t \in Threads, PoolOnly(t), UNCHANGED handlerVars
      PROVE  SessionInv'
  BY <1>0, <1>5, PoolStepKeeps
<1>6. ASSUME NEW t \in Threads, Late(t)
      PROVE  SessionInv'
  BY <1>0, <1>6, LateEndsKeeps, LateBreaksKeeps, LateSpoilsKeeps, LateCollidesKeeps
     DEF Late
<1> QED
  BY <1>1, <1>2, <1>3, <1>4, <1>5, <1>6 DEF SessionNext, Handle
-------------------------------------------------------------------------------
\* The strengthened invariant of handlers and pool together: whose a
\* transaction is, whose changes it holds, and where an answer comes from.
THEOREM SessionInductive == SessionSpec => [](PoolInv /\ SessionInv)
<1>1. SessionSpec => [](PoolInv /\ Exclusive)
  BY UsesThePool, Inductive, ExclusiveUse, PTL
<1> QED
  BY <1>1, InitHolds, SessionInvNext, PTL DEF SessionSpec

\* Handlers keep their types, and their steps go with what they hold.
THEOREM SessionTypeCorrect == SessionSpec => []SessionTypeOK
<1>1. SessionInv => SessionTypeOK
  BY DEF SessionInv, HandlerTypes, StepIffHeld, PendingIsOwn, SessionTypeOK
<1> QED
  BY <1>1, SessionInductive, PTL

\* No handler is given a connection with another handler's transaction on it,
\* late queries or not.
THEOREM NoTransactionLeaks == SessionSpec => []IdleIsClean
<1>1. PoolInv /\ SessionInv => IdleIsClean
  BY CleanWhenIdle DEF SessionInv, IdleIsClean
<1> QED
  BY <1>1, SessionInductive, PTL

\* An answer of success means the changes are committed, unless the handler
\* dropped the result of a statement that failed or a late query came between.
THEOREM SuccessMeansStored == SessionSpec => []SuccessIsStored
<1>1. SessionInv => SuccessIsStored
  BY DEF SessionInv
<1> QED
  BY <1>1, SessionInductive, PTL

\* What was refused is not stored, not even by a later handler's COMMIT or by
\* the COMMIT of pgfuse_rename itself.
THEOREM RefusalStoresNothing == SessionSpec => []RefusedStoresNothing
<1>1. SessionInv => RefusedStoresNothing
  BY DEF SessionInv, StoredByCommit, AnswerEnds, RefusedStoresNothing
<1> QED
  BY <1>1, SessionInductive, PTL

\* No early return leaks a connection that works, but for one over a late query.
THEOREM HealthyNeverLeaks == SessionSpec => []HealthyIsNotLeaked
<1>1. SessionInv => HealthyIsNotLeaked
  BY DEF SessionInv, HealthyIsHeld, HealthyIsNotLeaked
<1> QED
  BY <1>1, SessionInductive, PTL
===============================================================================
