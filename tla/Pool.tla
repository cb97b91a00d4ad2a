--------------------------------- MODULE Pool ---------------------------------
(***************************************************************************)
(* The monitor of database connections shared by the threads of the FUSE   *)
(* loop (pool.c): psql_pool_init fills the slots, psql_pool_acquire hands  *)
(* a connection out or blocks on a condition variable, psql_pool_release   *)
(* takes it back and signals, psql_pool_destroy closes what is left.       *)
(*                                                                         *)
(* A critical section of the monitor is one step: it reads and writes only *)
(* the slots, under pool->lock, and the status of idle connections.  That  *)
(* status can change under a scan when a handler still runs a query on a   *)
(* connection it has released, but only from good to bad, and a scan ends  *)
(* at the first good one: it acts on a state it could have read at once.   *)
(* The signal is sent after the unlock and is a step of its own.           *)
(* Returning from pthread_cond_wait, unlocking and going round the loop    *)
(* reads nothing, so a woken thread is a scanning one.                     *)
(***************************************************************************)
EXTENDS Integers, FiniteSets

CONSTANTS
  Threads,    \* threads of the FUSE loop
  Size,       \* pool->size, MAX_DB_CONNECTIONS in the program
  Addr,       \* addresses malloc may give a PGconn
  AVAILABLE,  \* marks of a slot that is lent to no thread
  ERROR,
  NONE        \* no connection

ASSUME PoolAssumption ==
  /\ IsFiniteSet(Threads)
  /\ Size \in Nat \ {0}
  /\ AVAILABLE # ERROR
  /\ {AVAILABLE, ERROR} \cap Threads = {}
  /\ NONE \notin Addr

VARIABLES
  phase,   \* "init", "run", "destroy", "done", or "dead" in a double free
  pos,     \* i of the loops of psql_pool_init and psql_pool_destroy
  conns,   \* pool->conns: conns[s] is an address, dangling once freed
  avail,   \* pool->avail: AVAILABLE, ERROR or the thread using the slot
  live,    \* addresses of PGconn objects that PQfinish has not freed
  broken,  \* connections whose PQstatus is not CONNECTION_OK
  pc,      \* pc[t]: where thread t is with respect to the pool
  held     \* held[t]: the PGconn* leased to the handler of thread t, from
           \* psql_pool_acquire to psql_pool_release or its early return

vars == <<phase, pos, conns, avail, live, broken, pc, held>>

Slots == 0 .. (Size - 1)
Marks == Threads \cup {AVAILABLE, ERROR}

\* Slots hold addresses and marks; a thread is somewhere in pool.c or outside.
TypeOK ==
  /\ phase \in {"init", "run", "destroy", "done", "dead"}
  /\ pos \in 0 .. Size
  /\ conns \in [Slots -> Addr \cup {NONE}]
  /\ avail \in [Slots -> Marks]
  /\ live \subseteq Addr
  /\ broken \subseteq Addr
  /\ pc \in [Threads -> {"idle", "scan", "wait", "hold", "signal"}]
  /\ held \in [Threads -> Addr \cup {NONE}]

Init ==
  /\ phase = "init"
  /\ pos = 0
  /\ conns = [s \in Slots |-> NONE]
  /\ avail = [s \in Slots |-> ERROR]
  /\ live = {}
  /\ broken = {}
  /\ pc = [t \in Threads |-> "idle"]
  /\ held = [t \in Threads |-> NONE]

-------------------------------------------------------------------------------
(* psql_pool_init, before the threads exist.  PQconnectdb allocates, so it   *)
(* may return the address of a connection a failed turn has just freed; the  *)
(* pointer of the failed turn stays in its slot.                             *)

Connect(c) ==
  /\ phase = "init"
  /\ pos < Size
  /\ c \notin live
  /\ conns' = [conns EXCEPT ![pos] = c]
  /\ pos' = pos + 1
  /\ phase' = IF pos' = Size THEN "run" ELSE "init"
  /\ UNCHANGED <<broken, pc, held>>

ConnectOk(c) ==
  /\ Connect(c)
  /\ avail' = [avail EXCEPT ![pos] = AVAILABLE]
  /\ live' = live \cup {c}

\* PQstatus is bad: PQfinish the object, keep the slot as ERROR.
ConnectFails(c) ==
  /\ Connect(c)
  /\ avail' = [avail EXCEPT ![pos] = ERROR]
  /\ live' = live

-------------------------------------------------------------------------------
(* psql_pool_acquire.                                                        *)

\* Mutants: the scan looks at PQstatus only; the scan does not look at it.
UsableByStatusOnly(s) == avail[s] \notin Threads /\ conns[s] \notin broken
UsableByMarkOnly(s) == avail[s] = AVAILABLE

Usable(s) == avail[s] = AVAILABLE /\ conns[s] \notin broken

\* The scan marks every idle slot it passes over, all of them broken, ERROR.
Condemned(upTo) ==
  [s \in Slots |-> IF s < upTo /\ avail[s] = AVAILABLE THEN ERROR ELSE avail[s]]

Enter(t) ==
  /\ phase = "run"
  /\ pc[t] = "idle"
  /\ pc' = [pc EXCEPT ![t] = "scan"]
  /\ UNCHANGED <<phase, pos, conns, avail, live, broken, held>>

\* Mutant: the index of the slot is returned for the connection in it.
TakeIndex(t) ==
  /\ pc[t] = "scan"
  /\ \E s \in Slots :
       /\ Usable(s)
       /\ \A r \in Slots : r < s => ~Usable(r)
       /\ avail' = [Condemned(s) EXCEPT ![s] = t]
       /\ held' = [held EXCEPT ![t] = s]
  /\ pc' = [pc EXCEPT ![t] = "hold"]
  /\ UNCHANGED <<phase, pos, conns, live, broken>>

Take(t) ==
  /\ pc[t] = "scan"
  /\ \E s \in Slots :
       /\ Usable(s)
       /\ \A r \in Slots : r < s => ~Usable(r)
       /\ avail' = [Condemned(s) EXCEPT ![s] = t]
       /\ held' = [held EXCEPT ![t] = conns[s]]
  /\ pc' = [pc EXCEPT ![t] = "hold"]
  /\ UNCHANGED <<phase, pos, conns, live, broken>>

Block(t) ==
  /\ pc[t] = "scan"
  /\ \A s \in Slots : ~Usable(s)
  /\ avail' = Condemned(Size)
  /\ pc' = [pc EXCEPT ![t] = "wait"]
  /\ UNCHANGED <<phase, pos, conns, live, broken, held>>

\* pthread_cond_wait may return without a signal.
SpuriousWakeup(t) ==
  /\ pc[t] = "wait"
  /\ pc' = [pc EXCEPT ![t] = "scan"]
  /\ UNCHANGED <<phase, pos, conns, avail, live, broken, held>>

-------------------------------------------------------------------------------
(* psql_pool_release: the last slot that holds the pointer is the one freed. *)

SlotsOf(c) == {s \in Slots : conns[s] = c}
\* Mutant: the search runs upwards, as in psql_pool_acquire.
FirstSlotOf(c) == CHOOSE s \in SlotsOf(c) : \A r \in SlotsOf(c) : s <= r
LastSlotOf(c) == CHOOSE s \in SlotsOf(c) : \A r \in SlotsOf(c) : r <= s

\* Mutant: the slot is marked, nobody is signalled.
ReleaseSilently(t) ==
  /\ pc[t] = "hold"
  /\ avail' = [avail EXCEPT ![LastSlotOf(held[t])] = AVAILABLE]
  /\ pc' = [pc EXCEPT ![t] = "idle"]
  /\ held' = [held EXCEPT ![t] = NONE]
  /\ UNCHANGED <<phase, pos, conns, live, broken>>

\* When no slot holds the pointer the answer is -EINVAL and nobody is
\* signalled.  Either way the lease ends here; the pointer is the caller's
\* variable and stays valid (Session has the handler that goes on using it).
Release(t) ==
  /\ pc[t] = "hold"
  /\ LET found == SlotsOf(held[t]) # {} IN
       /\ avail' = IF found
                   THEN [avail EXCEPT ![LastSlotOf(held[t])] = AVAILABLE]
                   ELSE avail
       /\ pc' = [pc EXCEPT ![t] = IF found THEN "signal" ELSE "idle"]
  /\ held' = [held EXCEPT ![t] = NONE]
  /\ UNCHANGED <<phase, pos, conns, live, broken>>

Waiting == {t \in Threads : pc[t] = "wait"}

Signal(t) ==
  /\ pc[t] = "signal"
  /\ \/ /\ Waiting = {}
        /\ pc' = [pc EXCEPT ![t] = "idle"]
     \/ \E w \in Waiting : pc' = [pc EXCEPT ![t] = "idle", ![w] = "scan"]
  /\ UNCHANGED <<phase, pos, conns, avail, live, broken, held>>

-------------------------------------------------------------------------------
(* What the handlers do with a connection they hold: libpq notices that the  *)
(* server is gone during a command, and a handler whose BEGIN, COMMIT or     *)
(* ROLLBACK fails returns without releasing.                                 *)

Break(t) ==
  /\ pc[t] = "hold"
  /\ broken' = broken \cup {held[t]}
  /\ UNCHANGED <<phase, pos, conns, avail, live, pc, held>>

Abandon(t) ==
  /\ pc[t] = "hold"
  /\ held' = [held EXCEPT ![t] = NONE]
  /\ pc' = [pc EXCEPT ![t] = "idle"]
  /\ UNCHANGED <<phase, pos, conns, avail, live, broken>>

\* A query of a handler that has released its connection finds the server
\* gone, whoever the connection is leased to now.
BreakLate(c) ==
  /\ phase = "run"
  /\ c \in live
  /\ broken' = broken \cup {c}
  /\ UNCHANGED <<phase, pos, conns, avail, live, pc, held>>

-------------------------------------------------------------------------------
(* psql_pool_destroy, once the FUSE loop has joined its threads.             *)

\* Mutant: the threads are not joined first.
BeginDestroyAtOnce ==
  /\ phase = "run"
  /\ phase' = "destroy"
  /\ pos' = 0
  /\ UNCHANGED <<conns, avail, live, broken, pc, held>>

BeginDestroy ==
  /\ phase = "run"
  /\ \A t \in Threads : pc[t] = "idle"
  /\ phase' = "destroy"
  /\ pos' = 0
  /\ UNCHANGED <<conns, avail, live, broken, pc, held>>

\* pthread_t is an unsigned long, so avail[i] > 0 holds of every mark that is
\* not AVAILABLE, ERROR included.
LeftInUse(mark) == mark # AVAILABLE

\* Mutant: a signed pthread_t, for which ERROR > 0 is false.
FinishesSigned(s) == avail[s] = AVAILABLE \/ avail[s] \in Threads

Finishes(s) == avail[s] = AVAILABLE \/ LeftInUse(avail[s])

\* The slot's pointer is passed to PQfinish although the object is gone.
FinishedTwice(s) == Finishes(s) /\ conns[s] \notin live

\* PQfinish of an object that is already freed is undefined: the process is
\* killed in it, or gets away with it.
DestroySlot ==
  /\ phase = "destroy"
  /\ pos < Size
  /\ phase' \in {"destroy"} \cup (IF FinishedTwice(pos) THEN {"dead"} ELSE {})
  /\ live' = IF Finishes(pos) THEN live \ {conns[pos]} ELSE live
  /\ pos' = pos + 1
  /\ UNCHANGED <<conns, avail, broken, pc, held>>

EndDestroy ==
  /\ phase = "destroy"
  /\ pos = Size
  /\ phase' = "done"
  /\ UNCHANGED <<pos, conns, avail, live, broken, pc, held>>

-------------------------------------------------------------------------------
Acquiring(t) == Take(t) \/ Block(t)

Lifecycle ==
  \/ \E c \in Addr : ConnectOk(c) \/ ConnectFails(c)
  \/ BeginDestroy
  \/ DestroySlot
  \/ EndDestroy

Use(t) ==
  \/ Enter(t)
  \/ Acquiring(t)
  \/ SpuriousWakeup(t)
  \/ Release(t)
  \/ Signal(t)
  \/ Break(t)
  \/ Abandon(t)

Next ==
  \/ Lifecycle
  \/ \E t \in Threads : Use(t)
  \/ \E c \in Addr : BreakLate(c)

Spec == Init /\ [][Next]_vars

(* A thread runs until it blocks, and a handler comes to its end: every      *)
(* operation of a handler returns.                                           *)
Fairness ==
  \A t \in Threads :
    /\ WF_vars(Acquiring(t))
    /\ WF_vars(Release(t) \/ Abandon(t))
    /\ WF_vars(Signal(t))

FairSpec == Spec /\ Fairness
-------------------------------------------------------------------------------
(***************************************************************************)
(* What the monitor guarantees.                                            *)
(***************************************************************************)

\* A connection is never leased to two threads, although a slot that failed in
\* psql_pool_init keeps a pointer malloc may have handed out again.  What a
\* handler does with the pointer after its lease is Session's subject.
Exclusive ==
  \A t, u \in Threads : held[t] # NONE /\ held[t] = held[u] => t = u

\* The slot psql_pool_release frees, the last one with the pointer, is the slot
\* the thread was given: with -EINVAL never the answer, no other slot changes.
ReleaseFreesOwnSlot ==
  \A t \in Threads :
    held[t] # NONE =>
      /\ SlotsOf(held[t]) # {}
      /\ avail[LastSlotOf(held[t])] = t

\* A connection is not freed while it is leased, nor a slot ever offered whose
\* connection is gone.
NoDanglingUse ==
  /\ \A t \in Threads : held[t] # NONE => held[t] \in live
  /\ phase = "run" => \A s \in Slots : avail[s] = AVAILABLE => conns[s] \in live

\* No wakeup is lost: while a thread waits, every idle slot is matched by a
\* thread about to signal or about to scan.  The signal after the unlock and
\* the scan that condemns several broken slots at once keep the balance.
IdleSlots == {s \in Slots : avail[s] = AVAILABLE}
Movers == {t \in Threads : pc[t] \in {"scan", "signal"}}
NoLostWakeup ==
  phase = "run" /\ Waiting # {} => Cardinality(IdleSlots) <= Cardinality(Movers)

\* A slot once ERROR is never lent again: there is no reconnection, and a
\* release through an aliased pointer does not revive it.
ErrorIsForever ==
  [][phase = "run" =>
       \A s \in Slots : avail[s] = ERROR => avail'[s] = ERROR]_vars

\* When psql_pool_destroy returns every connection is closed, those of slots
\* that handlers never released and those given up as ERROR included; and while
\* it runs, a slot that was good is finished on an object already freed only if
\* a failed slot below it has the same address.
NothingLeftOpen ==
  /\ phase = "done" => live = {}
  /\ phase = "destroy" /\ pos < Size /\ avail[pos] # ERROR =>
       \/ conns[pos] \in live
       \/ \E r \in Slots : r < pos /\ avail[r] = ERROR /\ conns[r] = conns[pos]

\* A waiting thread does not sleep beside a usable connection: the thread or
\* another one takes it.
UsableSlotIsTaken ==
  (Waiting # {} /\ \E s \in Slots : Usable(s))
     ~> (Waiting = {} \/ \A s \in Slots : ~Usable(s))

\* The monitor implements exclusive leases of open connections.
Lease == INSTANCE ConnLease WITH
           Conns <- Addr, lease <- held, usable <- live \ broken
ImplementsLease == Lease!Spec
===============================================================================
