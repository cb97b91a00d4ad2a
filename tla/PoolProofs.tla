------------------------------ MODULE PoolProofs ------------------------------
(***************************************************************************)
(* Proofs about the connection pool, for any number of threads and slots.  *)
(***************************************************************************)
EXTENDS Pool, FiniteSetTheorems, TLAPS

\* The slots psql_pool_init has been through.
Filled == IF phase = "init" THEN 0 .. (pos - 1) ELSE Slots

\* Before the loop starts and after it ends no thread is in a handler.
Quiet ==
  /\ phase # "run" => \A t \in Threads : pc[t] = "idle"
  /\ phase = "init" => broken = {} /\ pos < Size

HoldsIffPc == \A t \in Threads : pc[t] = "hold" <=> held[t] # NONE

FilledHasAddress == \A s \in Filled : conns[s] \in Addr

\* An address occurs twice only if the earlier slot failed: PQfinish freed the
\* object there and a later PQconnectdb was given the same memory.
AliasIsError ==
  \A r, s \in Filled : r < s /\ conns[r] = conns[s] => avail[r] = ERROR

LentIsLive ==
  phase \in {"init", "run"} =>
    \A s \in Filled : avail[s] # ERROR => conns[s] \in live

OwnsASlot ==
  \A t \in Threads :
    held[t] # NONE => \E s \in Slots : conns[s] = held[t] /\ avail[s] = t

\* Every open connection is still ahead of psql_pool_destroy.
LiveIsReachable ==
  /\ phase = "destroy" =>
       \A c \in live : \E s \in Slots : s >= pos /\ conns[s] = c
  /\ phase # "destroy" =>
       \A c \in live : \E s \in Filled : conns[s] = c
  /\ phase = "done" => live = {}

\* A slot still ahead of psql_pool_destroy is open unless it failed, or unless
\* a failed slot below it took its connection along.
AheadIsLive ==
  phase = "destroy" =>
    \A s \in Slots : s >= pos /\ avail[s] # ERROR =>
      \/ conns[s] \in live
      \/ \E r \in Slots : r < pos /\ avail[r] = ERROR /\ conns[r] = conns[s]

PoolInv ==
  /\ TypeOK
  /\ Quiet
  /\ HoldsIffPc
  /\ FilledHasAddress
  /\ AliasIsError
  /\ LentIsLive
  /\ OwnsASlot
  /\ LiveIsReachable
  /\ AheadIsLive
-------------------------------------------------------------------------------
\* The slot psql_pool_release finds for a pointer is the slot the thread owns:
\* every later slot with the same pointer would make this one ERROR.
LEMMA OwnSlotIsLast ==
  ASSUME PoolInv, phase # "init", NEW t \in Threads, held[t] # NONE
  PROVE  /\ SlotsOf(held[t]) # {}
         /\ LastSlotOf(held[t]) \in Slots
         /\ conns[LastSlotOf(held[t])] = held[t]
         /\ avail[LastSlotOf(held[t])] = t
<1>1. PICK s \in Slots : conns[s] = held[t] /\ avail[s] = t
  BY DEF PoolInv, OwnsASlot
<1>2. s \in SlotsOf(held[t])
  BY <1>1 DEF SlotsOf
<1>3. \A r \in SlotsOf(held[t]) : r <= s
  <2> SUFFICES ASSUME NEW r \in SlotsOf(held[t]), ~(r <= s)
               PROVE  FALSE
    OBVIOUS
  <2>1. r \in Slots /\ conns[r] = conns[s] /\ s < r
    BY <1>1 DEF SlotsOf, Slots
  <2>2. avail[s] = ERROR
    BY <1>1, <2>1 DEF PoolInv, AliasIsError, Filled
  <2> QED
    BY <1>1, <2>2, PoolAssumption
<1>4. \A r \in SlotsOf(held[t]) :
        (\A q \in SlotsOf(held[t]) : q <= r) => r = s
  BY <1>2, <1>3 DEF SlotsOf, Slots
<1>5. LastSlotOf(held[t]) = s
  BY <1>2, <1>3, <1>4 DEF LastSlotOf
<1> QED
  BY <1>1, <1>2, <1>5

\* Two slots that are lent or idle hold different pointers.
LEMMA NoLiveAlias ==
  ASSUME PoolInv, phase # "init",
         NEW r \in Slots, NEW s \in Slots,
         avail[r] # ERROR, avail[s] # ERROR, conns[r] = conns[s]
  PROVE  r = s
<1>1. CASE r < s
  BY <1>1 DEF PoolInv, AliasIsError, Filled
<1>2. CASE s < r
  BY <1>2 DEF PoolInv, AliasIsError, Filled
<1> QED
  BY <1>1, <1>2 DEF Slots

\* Before psql_pool_init runs no slot is filled and nobody holds anything.
LEMMA InvInit == Init => PoolInv
<1> SUFFICES ASSUME Init PROVE PoolInv
  OBVIOUS
<1>1. TypeOK
  BY PoolAssumption DEF Init, TypeOK, Slots, Marks
<1>2. Filled = {}
  BY DEF Init, Filled
<1> QED
  BY <1>1, <1>2, PoolAssumption
     DEF PoolInv, Init, Quiet, HoldsIffPc, FilledHasAddress, AliasIsError,
         LentIsLive, OwnsASlot, LiveIsReachable, AheadIsLive

\* psql_pool_init fills the slots from below: a slot that failed may alias the
\* address of one above it only.
LEMMA ConnectKeepsInv ==
  ASSUME PoolInv, NEW c \in Addr, ConnectOk(c) \/ ConnectFails(c)
  PROVE  PoolInv'
<1> USE PoolAssumption DEF PoolInv
<1>1. /\ Connect(c) /\ phase = "init" /\ pos \in Slots /\ pos' = pos + 1
      /\ pos' \in 0 .. Size /\ (phase' = "init" => pos' < Size)
      /\ phase' \in {"init", "run"}
  BY DEF ConnectOk, ConnectFails, Connect, Slots, TypeOK
<1>2. Filled' = Filled \cup {pos} /\ Filled = 0 .. (pos - 1)
  <2>1. CASE phase' = "init"
    BY <1>1, <2>1 DEF Filled, Slots
  <2>2. CASE phase' = "run"
    BY <1>1, <2>2 DEF Filled, Slots, Connect
  <2> QED
    BY <1>1, <2>1, <2>2
<1>3. /\ conns' = [conns EXCEPT ![pos] = c]
      /\ avail' \in [Slots -> Marks]
      /\ \A s \in Slots : s # pos => avail'[s] = avail[s]
      /\ avail'[pos] \in {AVAILABLE, ERROR}
      /\ avail'[pos] # ERROR => c \in live'
      /\ live \subseteq live' /\ live' \subseteq live \cup {c}
      /\ c \in live' => avail'[pos] # ERROR
  BY <1>1 DEF ConnectOk, ConnectFails, Connect, TypeOK, Marks
<1>4. TypeOK'
  BY <1>1, <1>3 DEF TypeOK, Connect
<1>5. \A s \in Filled : s \in Slots /\ s < pos /\ s # pos
  BY <1>1, <1>2 DEF Slots
<1>6. \A s \in Filled : conns'[s] = conns[s] /\ avail'[s] = avail[s]
  BY <1>3, <1>5 DEF TypeOK
<1>7. conns'[pos] = c
  BY <1>1, <1>3 DEF TypeOK
<1>8. FilledHasAddress'
  BY <1>2, <1>6, <1>7 DEF FilledHasAddress
<1>9. AliasIsError'
  <2> SUFFICES ASSUME NEW r \in Filled', NEW s \in Filled',
                      r < s, conns'[r] = conns'[s]
               PROVE  avail'[r] = ERROR
    BY DEF AliasIsError
  <2>1. r \in Filled
    BY <1>1, <1>2, <1>5 DEF Slots
  <2>2. CASE s \in Filled
    BY <1>6, <2>1, <2>2 DEF AliasIsError
  <2>3. CASE s = pos
    <3>1. conns[r] \notin live
      BY <1>1, <1>6, <1>7, <2>1, <2>3 DEF Connect
    <3> QED
      BY <1>1, <1>6, <2>1, <3>1 DEF LentIsLive
  <2> QED
    BY <1>2, <2>2, <2>3
<1>10. LentIsLive'
  BY <1>1, <1>2, <1>3, <1>6, <1>7 DEF LentIsLive
<1>11. Quiet' /\ HoldsIffPc'
  BY <1>1 DEF Quiet, HoldsIffPc, Connect
<1>12. OwnsASlot'
  BY <1>1 DEF OwnsASlot, Connect, Quiet, HoldsIffPc
<1>13. LiveIsReachable'
  BY <1>1, <1>2, <1>3, <1>6, <1>7 DEF LiveIsReachable
<1>14. AheadIsLive'
  BY <1>1 DEF AheadIsLive
<1> QED
  BY <1>4, <1>8, <1>9, <1>10, <1>11, <1>12, <1>13, <1>14

\* A step of the running pool that moves no connection and lends none leaves
\* the invariant: Enter, Signal and a wakeup only change pc.
LEMMA PcStepKeepsInv ==
  ASSUME PoolInv, NEW t \in Threads,
         Enter(t) \/ SpuriousWakeup(t) \/ Signal(t)
  PROVE  PoolInv'
<1> USE PoolAssumption DEF PoolInv
<1>1. UNCHANGED <<phase, pos, conns, avail, live, broken, held>>
  BY DEF Enter, SpuriousWakeup, Signal
<1>2. pc' \in [Threads -> {"idle", "scan", "wait", "hold", "signal"}]
  BY DEF Enter, SpuriousWakeup, Signal, TypeOK, Waiting
<1>3. \A u \in Threads : pc'[u] = "hold" <=> pc[u] = "hold"
  BY DEF Enter, SpuriousWakeup, Signal, TypeOK, Waiting
<1>4. phase = "run"
  BY DEF Enter, SpuriousWakeup, Signal, TypeOK, Quiet
<1>5. Filled' = Filled
  BY <1>1 DEF Filled, Slots
<1>6. TypeOK'
  BY <1>1, <1>2 DEF TypeOK, Slots, Marks
<1>7. Quiet' /\ HoldsIffPc'
  BY <1>1, <1>3, <1>4 DEF Quiet, HoldsIffPc
<1>8. /\ FilledHasAddress' /\ AliasIsError' /\ LentIsLive'
      /\ OwnsASlot' /\ LiveIsReachable' /\ AheadIsLive'
  BY <1>1, <1>4, <1>5
     DEF FilledHasAddress, AliasIsError, LentIsLive, OwnsASlot,
         LiveIsReachable, AheadIsLive, Slots
<1> QED
  BY <1>6, <1>7, <1>8

\* A scan condemns idle slots only.
LEMMA CondemnedKeeps ==
  ASSUME TypeOK, NEW n
  PROVE  /\ Condemned(n) \in [Slots -> Marks]
         /\ \A s \in Slots :
              Condemned(n)[s] = avail[s]
                \/ (avail[s] = AVAILABLE /\ Condemned(n)[s] = ERROR)
BY DEF Condemned, TypeOK, Marks

\* psql_pool_acquire lends the slot it found: it was idle, so nobody holds it.
LEMMA TakeKeepsInv ==
  ASSUME PoolInv, NEW t \in Threads, Take(t)
  PROVE  PoolInv'
<1> USE PoolAssumption DEF PoolInv
<1>1. PICK s \in Slots :
        /\ Usable(s)
        /\ avail' = [Condemned(s) EXCEPT ![s] = t]
        /\ held' = [held EXCEPT ![t] = conns[s]]
  BY DEF Take
<1>2. /\ pc[t] = "scan" /\ pc' = [pc EXCEPT ![t] = "hold"]
      /\ UNCHANGED <<phase, pos, conns, live, broken>>
  BY DEF Take
<1>3. phase = "run"
  BY <1>2 DEF Quiet, TypeOK
<1>4. Filled = Slots /\ Filled' = Slots /\ Slots' = Slots
  BY <1>2, <1>3 DEF Filled, Slots
<1>5. /\ avail' \in [Slots -> Marks]
      /\ avail'[s] = t
      /\ \A r \in Slots : r # s =>
           avail'[r] = avail[r] \/ (avail[r] = AVAILABLE /\ avail'[r] = ERROR)
  BY <1>1, CondemnedKeeps DEF Marks
<1>6. avail[s] = AVAILABLE /\ conns[s] \in Addr
  BY <1>1, <1>4 DEF Usable, FilledHasAddress
<1>7. held' \in [Threads -> Addr \cup {NONE}]
  BY <1>1, <1>6 DEF TypeOK
<1>8. TypeOK'
  BY <1>2, <1>4, <1>5, <1>7 DEF TypeOK, Marks
<1>9. Quiet' /\ HoldsIffPc'
  BY <1>1, <1>2, <1>3, <1>6 DEF Quiet, HoldsIffPc, TypeOK
<1>10. FilledHasAddress' /\ LiveIsReachable' /\ AheadIsLive'
  BY <1>2, <1>3, <1>4 DEF FilledHasAddress, LiveIsReachable, AheadIsLive
<1>11. AliasIsError'
  BY <1>2, <1>4, <1>5, <1>6 DEF AliasIsError
<1>12. LentIsLive'
  BY <1>2, <1>4, <1>5, <1>6 DEF LentIsLive
<1>13. OwnsASlot'
  <2> SUFFICES ASSUME NEW u \in Threads, held'[u] # NONE
               PROVE  \E r \in Slots : conns'[r] = held'[u] /\ avail'[r] = u
    BY <1>4 DEF OwnsASlot
  <2>1. CASE u = t
    BY <1>1, <1>2, <1>5, <2>1 DEF TypeOK
  <2>2. CASE u # t
    <3>1. held'[u] = held[u]
      BY <1>1, <2>2 DEF TypeOK
    <3>2. PICK r \in Slots : conns[r] = held[u] /\ avail[r] = u
      BY <3>1 DEF OwnsASlot
    <3>3. avail'[r] = u
      BY <1>5, <1>6, <3>2
    <3> QED
      BY <1>2, <3>1, <3>2, <3>3
  <2> QED
    BY <2>1, <2>2
<1> QED
  BY <1>8, <1>9, <1>10, <1>11, <1>12, <1>13

\* psql_pool_acquire that finds no slot only condemns idle ones.
LEMMA BlockKeepsInv ==
  ASSUME PoolInv, NEW t \in Threads, Block(t)
  PROVE  PoolInv'
<1> USE PoolAssumption DEF PoolInv
<1>1. /\ pc[t] = "scan" /\ pc' = [pc EXCEPT ![t] = "wait"]
      /\ avail' = Condemned(Size)
      /\ UNCHANGED <<phase, pos, conns, live, broken, held>>
  BY DEF Block
<1>2. phase = "run"
  BY <1>1 DEF Quiet, TypeOK
<1>3. Filled = Slots /\ Filled' = Slots /\ Slots' = Slots
  BY <1>1, <1>2 DEF Filled, Slots
<1>4. /\ avail' \in [Slots -> Marks]
      /\ \A r \in Slots :
           avail'[r] = avail[r] \/ (avail[r] = AVAILABLE /\ avail'[r] = ERROR)
  BY <1>1, CondemnedKeeps
<1>5. TypeOK'
  BY <1>1, <1>3, <1>4 DEF TypeOK, Marks
<1>6. Quiet' /\ HoldsIffPc'
  BY <1>1, <1>2 DEF Quiet, HoldsIffPc, TypeOK
<1>7. FilledHasAddress' /\ LiveIsReachable' /\ AheadIsLive'
  BY <1>1, <1>2, <1>3 DEF FilledHasAddress, LiveIsReachable, AheadIsLive
<1>8. AliasIsError' /\ LentIsLive'
  BY <1>1, <1>3, <1>4 DEF AliasIsError, LentIsLive
<1>9. OwnsASlot'
  BY <1>1, <1>3, <1>4 DEF OwnsASlot
<1> QED
  BY <1>5, <1>6, <1>7, <1>8, <1>9

\* psql_pool_release frees the slot of its caller, by OwnSlotIsLast, alone.
LEMMA ReleaseKeepsInv ==
  ASSUME PoolInv, NEW t \in Threads, Release(t)
  PROVE  PoolInv'
<1> USE PoolAssumption DEF PoolInv
<1> DEFINE k == LastSlotOf(held[t])
<1>1. pc[t] = "hold" /\ held[t] # NONE /\ phase = "run"
  BY DEF Release, HoldsIffPc, Quiet, TypeOK
<1>2. /\ SlotsOf(held[t]) # {} /\ k \in Slots
      /\ conns[k] = held[t] /\ avail[k] = t
  BY <1>1, OwnSlotIsLast
<1>3. /\ avail' = [avail EXCEPT ![k] = AVAILABLE]
      /\ pc' = [pc EXCEPT ![t] = "signal"]
      /\ held' = [held EXCEPT ![t] = NONE]
      /\ UNCHANGED <<phase, pos, conns, live, broken>>
  BY <1>2 DEF Release
<1> HIDE DEF k
<1>4. Filled = Slots /\ Filled' = Slots /\ Slots' = Slots
  BY <1>1, <1>3 DEF Filled, Slots
<1>5. TypeOK'
  BY <1>2, <1>3, <1>4 DEF TypeOK, Marks
<1>6. Quiet' /\ HoldsIffPc'
  BY <1>1, <1>3 DEF Quiet, HoldsIffPc, TypeOK
<1>7. FilledHasAddress' /\ LiveIsReachable' /\ AheadIsLive'
  BY <1>1, <1>3, <1>4 DEF FilledHasAddress, LiveIsReachable, AheadIsLive
<1>8. AliasIsError' /\ LentIsLive'
  BY <1>2, <1>3, <1>4 DEF AliasIsError, LentIsLive, TypeOK
<1>9. OwnsASlot'
  <2> SUFFICES ASSUME NEW u \in Threads, held'[u] # NONE
               PROVE  \E r \in Slots : conns'[r] = held'[u] /\ avail'[r] = u
    BY <1>4 DEF OwnsASlot
  <2>1. u # t /\ held'[u] = held[u]
    BY <1>3 DEF TypeOK
  <2>2. PICK r \in Slots : conns[r] = held[u] /\ avail[r] = u
    BY <2>1 DEF OwnsASlot
  <2>3. r # k
    BY <1>2, <2>1, <2>2
  <2> QED
    BY <1>3, <2>1, <2>2, <2>3 DEF TypeOK
<1> QED
  BY <1>5, <1>6, <1>7, <1>8, <1>9

\* A connection that breaks, or that a handler forgets, stays its slot's.
LEMMA HandlerKeepsInv ==
  ASSUME PoolInv, NEW t \in Threads, Break(t) \/ Abandon(t)
  PROVE  PoolInv'
<1> USE PoolAssumption DEF PoolInv
<1>1. /\ pc[t] = "hold" /\ held[t] \in Addr /\ phase = "run"
      /\ UNCHANGED <<phase, pos, conns, avail, live>>
      /\ pc' \in [Threads -> {"idle", "scan", "wait", "hold", "signal"}]
      /\ held' \in [Threads -> Addr \cup {NONE}]
      /\ broken' \subseteq Addr
      /\ \A u \in Threads : held'[u] = held[u] \/ held'[u] = NONE
      /\ \A u \in Threads : pc'[u] = "hold" <=> held'[u] # NONE
  BY DEF Break, Abandon, HoldsIffPc, Quiet, TypeOK
<1>2. Filled' = Filled
  BY <1>1 DEF Filled, Slots
<1>3. TypeOK' /\ Quiet' /\ HoldsIffPc'
  BY <1>1 DEF TypeOK, Slots, Marks, Quiet, HoldsIffPc
<1>4. /\ FilledHasAddress' /\ AliasIsError' /\ LentIsLive'
      /\ OwnsASlot' /\ LiveIsReachable' /\ AheadIsLive'
  BY <1>1, <1>2
     DEF FilledHasAddress, AliasIsError, LentIsLive, OwnsASlot,
         LiveIsReachable, AheadIsLive, Slots
<1> QED
  BY <1>3, <1>4

\* A connection found broken after its release stays where it is.
LEMMA BreakLateKeepsInv ==
  ASSUME PoolInv, NEW c \in Addr, BreakLate(c)
  PROVE  PoolInv'
<1>1. /\ phase = "run" /\ broken' = broken \cup {c}
      /\ UNCHANGED <<phase, pos, conns, avail, live, pc, held>>
  BY DEF BreakLate
<1>2. Filled' = Filled
  BY <1>1 DEF Filled, Slots
<1>3. TypeOK' /\ Quiet' /\ HoldsIffPc'
  BY <1>1 DEF PoolInv, TypeOK, Slots, Marks, Quiet, HoldsIffPc
<1>4. /\ FilledHasAddress' /\ AliasIsError' /\ LentIsLive'
      /\ OwnsASlot' /\ LiveIsReachable' /\ AheadIsLive'
  BY <1>1, <1>2
     DEF PoolInv, FilledHasAddress, AliasIsError, LentIsLive, OwnsASlot,
         LiveIsReachable, AheadIsLive, Slots
<1> QED
  BY <1>3, <1>4 DEF PoolInv

\* psql_pool_destroy closes each slot after all threads have gone.
LEMMA DestroyKeepsInv ==
  ASSUME PoolInv, BeginDestroy \/ DestroySlot \/ EndDestroy
  PROVE  PoolInv'
<1> USE PoolAssumption DEF PoolInv
<1>1. /\ phase # "init" /\ phase' \in {"destroy", "done", "dead"}
      /\ \A t \in Threads : pc[t] = "idle" /\ held[t] = NONE
      /\ UNCHANGED <<conns, avail, broken, pc, held>>
  BY DEF BeginDestroy, DestroySlot, EndDestroy, Quiet, HoldsIffPc
<1>2. Filled = Slots /\ Filled' = Slots /\ Slots' = Slots
  BY <1>1 DEF Filled, Slots
<1>3. TypeOK'
  BY <1>1, <1>2
     DEF BeginDestroy, DestroySlot, EndDestroy, TypeOK, Slots, Marks
<1>4. /\ Quiet' /\ HoldsIffPc' /\ FilledHasAddress' /\ AliasIsError'
      /\ LentIsLive' /\ OwnsASlot'
  BY <1>1, <1>2
     DEF Quiet, HoldsIffPc, FilledHasAddress, AliasIsError, LentIsLive, OwnsASlot
<1>5. LiveIsReachable'
  <2>1. CASE BeginDestroy
    BY <1>2, <2>1 DEF BeginDestroy, LiveIsReachable, Slots
  <2>2. CASE DestroySlot
    <3>1. /\ phase' \in {"destroy", "dead"} /\ pos \in Slots /\ pos' = pos + 1
          /\ live' = live \ {conns[pos]} /\ UNCHANGED conns
      BY <2>2 DEF DestroySlot, Finishes, LeftInUse, TypeOK, Slots
    <3>2. SUFFICES ASSUME NEW c \in live'
                   PROVE  \E s \in Slots : s >= pos' /\ conns[s] = c
      BY <1>2, <3>1 DEF LiveIsReachable
    <3>3. PICK s \in Slots : s >= pos /\ conns[s] = c
      BY <2>2, <3>1, <3>2 DEF LiveIsReachable, DestroySlot
    <3>4. s # pos
      BY <3>1, <3>2, <3>3
    <3> QED
      BY <3>1, <3>3, <3>4 DEF Slots
  <2>3. CASE EndDestroy
    <3>1. live = {}
      BY <2>3 DEF EndDestroy, LiveIsReachable, Slots
    <3> QED
      BY <2>3, <3>1 DEF EndDestroy, LiveIsReachable
  <2> QED
    BY <2>1, <2>2, <2>3
<1>6. AheadIsLive'
  <2>1. CASE BeginDestroy
    BY <1>1, <1>2, <2>1, PoolAssumption
       DEF BeginDestroy, AheadIsLive, LentIsLive
  <2>2. CASE DestroySlot
    <3>1. /\ phase = "destroy" /\ pos \in Slots /\ pos' = pos + 1
          /\ live' = live \ {conns[pos]} /\ UNCHANGED <<conns, avail>>
      BY <2>2 DEF DestroySlot, Finishes, LeftInUse, TypeOK, Slots
    <3>2. SUFFICES ASSUME NEW s \in Slots, s >= pos + 1, avail[s] # ERROR
                   PROVE  \/ conns[s] \in live'
                          \/ \E r \in Slots : /\ r < pos + 1
                                               /\ avail[r] = ERROR
                                               /\ conns[r] = conns[s]
      BY <1>2, <3>1 DEF AheadIsLive
    <3>3. CASE conns[s] = conns[pos]
      <4>1. pos < s
        BY <3>1, <3>2 DEF Slots
      <4>2. avail[pos] = ERROR
        BY <1>2, <3>1, <3>3, <4>1 DEF AliasIsError
      <4> QED
        BY <3>1, <3>3, <4>2 DEF Slots
    <3>4. CASE conns[s] # conns[pos]
      <4>1. \/ conns[s] \in live
            \/ \E r \in Slots : r < pos /\ avail[r] = ERROR /\ conns[r] = conns[s]
        BY <3>1, <3>2 DEF AheadIsLive, Slots
      <4> QED
        BY <3>1, <3>4, <4>1 DEF Slots
    <3> QED
      BY <3>3, <3>4
  <2>3. CASE EndDestroy
    BY <2>3 DEF EndDestroy, AheadIsLive
  <2> QED
    BY <2>1, <2>2, <2>3
<1> QED
  BY <1>3, <1>4, <1>5, <1>6

\* PoolInv is inductive, one lemma for each kind of step.
LEMMA InvNext == PoolInv /\ [Next]_vars => PoolInv'
<1> SUFFICES ASSUME PoolInv, [Next]_vars
             PROVE  PoolInv'
  OBVIOUS
<1>1. ASSUME NEW c \in Addr, ConnectOk(c) \/ ConnectFails(c)
      PROVE  PoolInv'
  BY <1>1, ConnectKeepsInv
<1>2. CASE BeginDestroy \/ DestroySlot \/ EndDestroy
  BY <1>2, DestroyKeepsInv
<1>3. ASSUME NEW t \in Threads, Enter(t) \/ SpuriousWakeup(t) \/ Signal(t)
      PROVE  PoolInv'
  BY <1>3, PcStepKeepsInv
<1>4. ASSUME NEW t \in Threads, Take(t)
      PROVE  PoolInv'
  BY <1>4, TakeKeepsInv
<1>5. ASSUME NEW t \in Threads, Block(t)
      PROVE  PoolInv'
  BY <1>5, BlockKeepsInv
<1>6. ASSUME NEW t \in Threads, Release(t)
      PROVE  PoolInv'
  BY <1>6, ReleaseKeepsInv
<1>7. ASSUME NEW t \in Threads, Break(t) \/ Abandon(t)
      PROVE  PoolInv'
  BY <1>7, HandlerKeepsInv
<1>8. CASE UNCHANGED vars
  BY <1>8
     DEF vars, PoolInv, TypeOK, Slots, Marks, Quiet, HoldsIffPc, Filled,
         FilledHasAddress, AliasIsError, LentIsLive, OwnsASlot,
         LiveIsReachable, AheadIsLive
<1>9. ASSUME NEW c \in Addr, BreakLate(c)
      PROVE  PoolInv'
  BY <1>9, BreakLateKeepsInv
<1> QED
  BY <1>1, <1>2, <1>3, <1>4, <1>5, <1>6, <1>7, <1>8, <1>9
     DEF Next, Lifecycle, Use, Acquiring

\* The strengthened invariant of the monitor: which slot a pointer belongs to
\* stays decidable although psql_pool_init leaves dangling pointers in slots.
THEOREM Inductive == Spec => []PoolInv
<1>1. Init => PoolInv
  BY InvInit
<1>2. PoolInv /\ [Next]_vars => PoolInv'
  BY InvNext
<1> QED
  BY <1>1, <1>2, PTL DEF Spec

\* Every variable keeps its type.
THEOREM TypeCorrect == Spec => []TypeOK
<1>1. PoolInv => TypeOK
  BY DEF PoolInv
<1> QED
  BY <1>1, Inductive, PTL

\* No PGconn is ever leased to two threads.
THEOREM ExclusiveUse == Spec => []Exclusive
<1>1. PoolInv => Exclusive
  <2> SUFFICES ASSUME PoolInv, NEW t \in Threads, NEW u \in Threads,
                      held[t] # NONE, held[t] = held[u]
               PROVE  t = u
    BY DEF Exclusive
  <2>1. PICK r \in Slots : conns[r] = held[t] /\ avail[r] = t
    BY DEF PoolInv, OwnsASlot
  <2>2. PICK s \in Slots : conns[s] = held[u] /\ avail[s] = u
    BY DEF PoolInv, OwnsASlot
  <2>3. phase # "init"
    BY DEF PoolInv, Quiet, HoldsIffPc
  <2>4. r = s
    BY <2>1, <2>2, <2>3, NoLiveAlias, PoolAssumption
  <2> QED
    BY <2>1, <2>2, <2>4
<1> QED
  BY <1>1, Inductive, PTL

\* psql_pool_release always finds the caller's own slot and never another one.
THEOREM ReleaseIsExact == Spec => []ReleaseFreesOwnSlot
<1>1. PoolInv => ReleaseFreesOwnSlot
  <2>1. ASSUME PoolInv, NEW t \in Threads, held[t] # NONE
        PROVE  phase # "init"
    BY <2>1 DEF PoolInv, Quiet, HoldsIffPc
  <2> QED
    BY <2>1, OwnSlotIsLast DEF ReleaseFreesOwnSlot
<1> QED
  BY <1>1, Inductive, PTL

\* No leased connection is a freed one, and no freed one is offered.
THEOREM NeverDangling == Spec => []NoDanglingUse
<1>1. PoolInv => NoDanglingUse
  <2> SUFFICES ASSUME PoolInv
               PROVE  NoDanglingUse
    OBVIOUS
  <2>1. \A t \in Threads : held[t] # NONE => phase = "run"
    BY DEF PoolInv, Quiet, HoldsIffPc, TypeOK
  <2>2. phase = "run" => \A s \in Slots : avail[s] # ERROR => conns[s] \in live
    BY DEF PoolInv, LentIsLive, Filled
  <2> QED
    BY <2>1, <2>2, PoolAssumption DEF NoDanglingUse, PoolInv, OwnsASlot
<1> QED
  BY <1>1, Inductive, PTL

\* psql_pool_destroy, where it returns, leaves no connection open; on the way
\* only a failed slot, or one that a failed slot below aliases, is finished on
\* an object that is already freed.
THEOREM DestroyClosesAll == Spec => []NothingLeftOpen
<1>1. PoolInv => NothingLeftOpen
  <2>1. ASSUME PoolInv, phase = "destroy", pos < Size
        PROVE  pos \in Slots
    BY <2>1, PoolAssumption DEF PoolInv, TypeOK, Slots
  <2> QED
    BY <2>1 DEF PoolInv, LiveIsReachable, AheadIsLive, NothingLeftOpen, Slots
<1> QED
  BY <1>1, Inductive, PTL

\* A slot given up is given up for the life of the file system.
THEOREM ErrorSlotsStay == Spec => ErrorIsForever
<1>1. PoolInv /\ [Next]_vars =>
        [phase = "run" =>
           \A s \in Slots : avail[s] = ERROR => avail'[s] = ERROR]_vars
  <2> SUFFICES ASSUME PoolInv, [Next]_vars, phase = "run",
                      NEW s \in Slots, avail[s] = ERROR
               PROVE  avail'[s] = ERROR
    OBVIOUS
  <2>1. ASSUME NEW t \in Threads, Take(t)
        PROVE  avail'[s] = ERROR
    <3>1. PICK r \in Slots : Usable(r) /\ avail' = [Condemned(r) EXCEPT ![r] = t]
      BY <2>1 DEF Take
    <3> QED
      BY <3>1, CondemnedKeeps, PoolAssumption DEF Usable, PoolInv
  <2>2. ASSUME NEW t \in Threads, Block(t)
        PROVE  avail'[s] = ERROR
    BY <2>2, CondemnedKeeps, PoolAssumption DEF Block, PoolInv
  <2>3. ASSUME NEW t \in Threads, Release(t)
        PROVE  avail'[s] = ERROR
    <3>1. held[t] # NONE
      BY <2>3 DEF Release, PoolInv, HoldsIffPc
    <3>2. SlotsOf(held[t]) # {} /\ avail[LastSlotOf(held[t])] = t
      BY <3>1, OwnSlotIsLast
    <3> QED
      BY <2>3, <3>2, PoolAssumption DEF Release, PoolInv, TypeOK
  <2> QED
    BY <2>1, <2>2, <2>3
       DEF Next, Lifecycle, Use, Acquiring, ConnectOk, ConnectFails, Connect,
           BeginDestroy, DestroySlot, EndDestroy, Enter, SpuriousWakeup,
           Signal, Break, Abandon, BreakLate, vars
<1> QED
  BY <1>1, Inductive, PTL DEF Spec, ErrorIsForever

-------------------------------------------------------------------------------
\* The monitor implements exclusive leases: a take is a grant of a connection
\* that is open, answering and leased to nobody; a release or an abandoned
\* handler is a return; a query after the release that breaks the connection
\* loses or closes it; everything else opens, loses, closes or stutters.
THEOREM RefinesLease == Spec => ImplementsLease
<1> USE DEF Lease!Leased, Lease!leaseVars
<1>1. Init => Lease!Init
  BY DEF Init, Lease!Init
<1>2. PoolInv /\ [Next]_vars => [Lease!Next]_Lease!leaseVars
  <2> SUFFICES ASSUME PoolInv, [Next]_vars
               PROVE  [Lease!Next]_Lease!leaseVars
    OBVIOUS
  <2> USE PoolAssumption DEF PoolInv
  <2>1. ASSUME NEW c \in Addr, ConnectOk(c)
        PROVE  Lease!Open(c)
    <3>1. \A t \in Threads : held[t] = NONE
      BY <2>1 DEF ConnectOk, Connect, Quiet, HoldsIffPc
    <3> QED
      BY <2>1, <3>1 DEF ConnectOk, Connect, Quiet, Lease!Open
  <2>2. ASSUME NEW c \in Addr, ConnectFails(c)
        PROVE  UNCHANGED Lease!leaseVars
    BY <2>2 DEF ConnectFails, Connect
  <2>3. ASSUME NEW t \in Threads, Take(t)
        PROVE  Lease!Next
    <3>1. PICK s \in Slots : Usable(s) /\ held' = [held EXCEPT ![t] = conns[s]]
      BY <2>3 DEF Take
    <3>2. /\ phase = "run" /\ held[t] = NONE
          /\ conns[s] \in Addr /\ conns[s] \in live \ broken
      BY <2>3, <3>1
         DEF Take, Quiet, HoldsIffPc, TypeOK, FilledHasAddress, LentIsLive,
             Filled, Usable
    <3>3. ASSUME NEW u \in Threads, held[u] = conns[s]
          PROVE  FALSE
      <4>1. PICK r \in Slots : conns[r] = conns[s] /\ avail[r] = u
        BY <3>2, <3>3 DEF OwnsASlot
      <4>2. r = s
        BY <3>1, <3>2, <4>1, NoLiveAlias DEF Usable
      <4> QED
        BY <3>1, <4>1, <4>2 DEF Usable
    <3>4. Lease!Grant(t, conns[s])
      BY <2>3, <3>1, <3>2, <3>3 DEF Take, Lease!Grant
    <3> QED
      BY <3>2, <3>4 DEF Lease!Next
  <2>4. ASSUME NEW t \in Threads, Release(t) \/ Abandon(t)
        PROVE  Lease!Return(t)
    BY <2>4 DEF Release, Abandon, HoldsIffPc, Lease!Return
  <2>5. ASSUME NEW t \in Threads, Break(t)
        PROVE  Lease!Next
    <3>1. held[t] \in Addr
      BY <2>5 DEF Break, HoldsIffPc, TypeOK
    <3>2. Lease!Lose(held[t])
      BY <2>5, <3>1 DEF Break, Lease!Lose
    <3> QED
      BY <3>1, <3>2 DEF Lease!Next
  <2>6. CASE DestroySlot
    <3>1. /\ conns[pos] \in Addr
          /\ live' = live \ {conns[pos]} /\ UNCHANGED <<held, broken>>
      BY <2>6
         DEF DestroySlot, Finishes, LeftInUse, TypeOK, Slots, FilledHasAddress,
             Filled
    <3>2. \A t \in Threads : held[t] = NONE
      BY <2>6 DEF DestroySlot, Quiet, HoldsIffPc
    <3>3. Lease!Close(conns[pos])
      BY <3>1, <3>2 DEF Lease!Close
    <3> QED
      BY <3>1, <3>3 DEF Lease!Next
  <2>7. ASSUME NEW t \in Threads,
               Enter(t) \/ Block(t) \/ SpuriousWakeup(t) \/ Signal(t)
        PROVE  UNCHANGED Lease!leaseVars
    BY <2>7 DEF Enter, Block, SpuriousWakeup, Signal
  <2>8. CASE BeginDestroy \/ EndDestroy \/ UNCHANGED vars
    BY <2>8 DEF BeginDestroy, EndDestroy, vars
  <2>9. ASSUME NEW c \in Addr, BreakLate(c)
        PROVE  Lease!Lose(c) \/ Lease!Close(c)
    BY <2>9 DEF BreakLate, Lease!Lose, Lease!Close
  <2> QED
    BY <2>1, <2>2, <2>3, <2>4, <2>5, <2>6, <2>7, <2>8, <2>9
       DEF Next, Lifecycle, Use, Acquiring, Lease!Next
<1> QED
  BY <1>1, <1>2, Inductive, PTL DEF Spec, ImplementsLease, Lease!Spec

-------------------------------------------------------------------------------
\* Slots and threads are finite, so idle slots and movers can be counted.
LEMMA FiniteCounts ==
  /\ IsFiniteSet(IdleSlots) /\ Cardinality(IdleSlots) \in Nat
  /\ IsFiniteSet(Movers) /\ Cardinality(Movers) \in Nat
<1>1. IsFiniteSet(Slots)
  <2>1. 0 \in Int /\ Size - 1 \in Int
    BY PoolAssumption
  <2> QED
    BY <2>1, FS_Interval DEF Slots
<1>2. IdleSlots \in SUBSET Slots /\ Movers \in SUBSET Threads
  BY DEF IdleSlots, Movers
<1>3. IsFiniteSet(IdleSlots) /\ IsFiniteSet(Movers)
  BY <1>1, <1>2, FS_Subset, PoolAssumption
<1> QED
  BY <1>3, FS_CardinalityType

\* Counting one element more, or one less.
LEMMA OneMore ==
  ASSUME NEW S, NEW T, NEW x, IsFiniteSet(S), T = S \cup {x}
  PROVE  /\ Cardinality(S) \in Nat
         /\ Cardinality(T) \in Nat
         /\ Cardinality(T) <= Cardinality(S) + 1
         /\ x \notin S => Cardinality(T) = Cardinality(S) + 1
<1>1. /\ IsFiniteSet(S \cup {x})
      /\ Cardinality(S \cup {x}) =
           IF x \in S THEN Cardinality(S) ELSE Cardinality(S) + 1
  BY FS_AddElement
<1>2. Cardinality(S) \in Nat
  BY FS_CardinalityType
<1> QED
  BY <1>1, <1>2

\* Counting one element less.
LEMMA OneLess ==
  ASSUME NEW S, NEW T, NEW x, IsFiniteSet(S), x \in S, T \subseteq S \ {x}
  PROVE  /\ Cardinality(S) \in Nat
         /\ Cardinality(T) \in Nat
         /\ Cardinality(T) <= Cardinality(S) - 1
         /\ T = S \ {x} => Cardinality(T) = Cardinality(S) - 1
<1>1. IsFiniteSet(S \ {x}) /\ Cardinality(S \ {x}) = Cardinality(S) - 1
  BY FS_RemoveElement
<1>2. T \in SUBSET (S \ {x})
  OBVIOUS
<1>3. IsFiniteSet(T) /\ Cardinality(T) <= Cardinality(S \ {x})
  BY <1>1, <1>2, FS_Subset
<1>4. Cardinality(S) \in Nat /\ Cardinality(T) \in Nat
  BY <1>3, FS_CardinalityType
<1> QED
  BY <1>1, <1>3, <1>4

\* Every step keeps the count of idle slots within that of the threads about
\* to scan or to signal, as long as somebody waits.
LEMMA WakeupNext ==
  ASSUME PoolInv, NoLostWakeup, [Next]_vars
  PROVE  NoLostWakeup'
<1> USE PoolAssumption DEF PoolInv
<1> SUFFICES ASSUME phase' = "run", Waiting' # {}
             PROVE  Cardinality(IdleSlots') <= Cardinality(Movers')
  BY DEF NoLostWakeup
<1>1. ASSUME NEW t \in Threads, Enter(t)
      PROVE  Cardinality(IdleSlots') <= Cardinality(Movers')
  <2>1. IdleSlots' = IdleSlots /\ Movers' = Movers \cup {t} /\ t \notin Movers
    BY <1>1 DEF Enter, IdleSlots, Movers, TypeOK, Slots
  <2>2. Waiting # {} /\ phase = "run"
    BY <1>1 DEF Enter, Waiting, TypeOK
  <2>3. /\ Cardinality(Movers) \in Nat
        /\ Cardinality(Movers') = Cardinality(Movers) + 1
    BY <2>1, FiniteCounts, OneMore
  <2>4. Cardinality(IdleSlots) <= Cardinality(Movers)
    BY <2>2 DEF NoLostWakeup
  <2> QED
    BY <2>1, <2>3, <2>4, FiniteCounts
<1>2. ASSUME NEW t \in Threads, Take(t)
      PROVE  Cardinality(IdleSlots') <= Cardinality(Movers')
  <2>1. PICK s \in Slots : Usable(s) /\ avail' = [Condemned(s) EXCEPT ![s] = t]
    BY <1>2 DEF Take
  <2>2. IdleSlots' \subseteq IdleSlots \ {s} /\ s \in IdleSlots
    BY <2>1, CondemnedKeeps DEF IdleSlots, Usable, Slots
  <2>3. /\ Cardinality(IdleSlots) \in Nat /\ Cardinality(IdleSlots') \in Nat
        /\ Cardinality(IdleSlots') <= Cardinality(IdleSlots) - 1
    BY <2>2, FiniteCounts, OneLess
  <2>4. t \in Movers /\ Movers' = Movers \ {t}
    BY <1>2 DEF Take, Movers, TypeOK
  <2>5. /\ Cardinality(Movers) \in Nat
        /\ Cardinality(Movers') = Cardinality(Movers) - 1
    BY <2>4, FiniteCounts, OneLess
  <2>6. Cardinality(IdleSlots) <= Cardinality(Movers)
    BY <1>2 DEF Take, Waiting, TypeOK, NoLostWakeup
  <2> QED
    BY <2>3, <2>5, <2>6
<1>3. ASSUME NEW t \in Threads, Block(t)
      PROVE  Cardinality(IdleSlots') <= Cardinality(Movers')
  <2>1. \A s \in Slots : avail'[s] # AVAILABLE
    BY <1>3 DEF Block, Condemned, Slots, TypeOK
  <2>2. IdleSlots' = {}
    BY <2>1 DEF IdleSlots, Slots
  <2>3. Movers' \in SUBSET Threads
    BY DEF Movers
  <2>4. Cardinality(IdleSlots') = 0 /\ Cardinality(Movers') \in Nat
    BY <2>2, <2>3, FS_EmptySet, FS_Subset, FS_CardinalityType
  <2> QED
    BY <2>4
<1>4. ASSUME NEW t \in Threads, SpuriousWakeup(t)
      PROVE  Cardinality(IdleSlots') <= Cardinality(Movers')
  <2>1. IdleSlots' = IdleSlots /\ Movers' = Movers \cup {t} /\ t \notin Movers
    BY <1>4 DEF SpuriousWakeup, IdleSlots, Movers, TypeOK, Slots
  <2>2. Waiting # {} /\ phase = "run"
    BY <1>4 DEF SpuriousWakeup, Waiting, TypeOK
  <2>3. /\ Cardinality(Movers) \in Nat
        /\ Cardinality(Movers') = Cardinality(Movers) + 1
    BY <2>1, FiniteCounts, OneMore
  <2>4. Cardinality(IdleSlots) <= Cardinality(Movers)
    BY <2>2 DEF NoLostWakeup
  <2> QED
    BY <2>1, <2>3, <2>4, FiniteCounts
<1>5. ASSUME NEW t \in Threads, Release(t)
      PROVE  Cardinality(IdleSlots') <= Cardinality(Movers')
  <2>1. held[t] # NONE /\ phase # "init"
    BY <1>5 DEF Release, HoldsIffPc, Quiet
  <2>2. LastSlotOf(held[t]) \in Slots /\ SlotsOf(held[t]) # {}
    BY <2>1, OwnSlotIsLast
  <2>3. IdleSlots' = IdleSlots \cup {LastSlotOf(held[t])}
    BY <1>5, <2>2 DEF Release, IdleSlots, Slots, TypeOK
  <2>4. /\ Cardinality(IdleSlots) \in Nat /\ Cardinality(IdleSlots') \in Nat
        /\ Cardinality(IdleSlots') <= Cardinality(IdleSlots) + 1
    BY <2>3, FiniteCounts, OneMore
  <2>5. t \notin Movers /\ Movers' = Movers \cup {t}
    BY <1>5, <2>2 DEF Release, Movers, TypeOK
  <2>6. /\ Cardinality(Movers) \in Nat
        /\ Cardinality(Movers') = Cardinality(Movers) + 1
    BY <2>5, FiniteCounts, OneMore
  <2>7. Cardinality(IdleSlots) <= Cardinality(Movers)
    BY <1>5, <2>2 DEF Release, Waiting, TypeOK, NoLostWakeup
  <2> QED
    BY <2>4, <2>6, <2>7
<1>6. ASSUME NEW t \in Threads, Signal(t)
      PROVE  Cardinality(IdleSlots') <= Cardinality(Movers')
  <2>1. IdleSlots' = IdleSlots /\ phase = "run" /\ t \in Movers
    BY <1>6 DEF Signal, IdleSlots, Slots, Movers, TypeOK
  <2>2. CASE Waiting = {}
    BY <1>6, <2>2 DEF Signal, Waiting, TypeOK
  <2>3. CASE Waiting # {}
    <3>1. PICK w \in Waiting : pc' = [pc EXCEPT ![t] = "idle", ![w] = "scan"]
      BY <1>6, <2>3 DEF Signal
    <3>2. /\ w \in Threads /\ w # t /\ w \notin Movers \ {t}
          /\ Movers' = (Movers \ {t}) \cup {w}
      BY <1>6, <3>1 DEF Signal, Waiting, Movers, TypeOK
    <3>3. /\ IsFiniteSet(Movers \ {t}) /\ Cardinality(Movers) \in Nat
          /\ Cardinality(Movers \ {t}) = Cardinality(Movers) - 1
      BY <2>1, FiniteCounts, FS_RemoveElement
    <3>4. Cardinality(Movers') = Cardinality(Movers \ {t}) + 1
      BY <3>2, <3>3, OneMore
    <3>5. Cardinality(Movers') = Cardinality(Movers)
      BY <3>3, <3>4
    <3> QED
      BY <2>1, <2>3, <3>5 DEF NoLostWakeup
  <2> QED
    BY <2>2, <2>3
<1>7. ASSUME NEW t \in Threads, Break(t) \/ Abandon(t)
      PROVE  Cardinality(IdleSlots') <= Cardinality(Movers')
  <2>1. IdleSlots' = IdleSlots /\ Movers' = Movers /\ phase = "run"
    BY <1>7 DEF Break, Abandon, IdleSlots, Movers, Slots, TypeOK
  <2>2. Waiting # {}
    BY <1>7 DEF Break, Abandon, Waiting, TypeOK
  <2> QED
    BY <2>1, <2>2 DEF NoLostWakeup
<1>8. CASE Lifecycle
  BY <1>8
     DEF Lifecycle, ConnectOk, ConnectFails, Connect, BeginDestroy,
         DestroySlot, EndDestroy, Waiting, Quiet
<1>9. CASE UNCHANGED vars \/ \E c \in Addr : BreakLate(c)
  <2>1. UNCHANGED <<phase, avail, pc>>
    BY <1>9 DEF vars, BreakLate
  <2> QED
    BY <2>1 DEF IdleSlots, Movers, Waiting, Slots, NoLostWakeup
<1> QED
  BY <1>1, <1>2, <1>3, <1>4, <1>5, <1>6, <1>7, <1>8, <1>9
     DEF Next, Use, Acquiring

\* No wakeup is lost, although psql_pool_release signals after the unlock.
THEOREM WakeupsSuffice == Spec => []NoLostWakeup
<1>1. Init => NoLostWakeup
  BY DEF Init, NoLostWakeup
<1>2. PoolInv /\ NoLostWakeup /\ [Next]_vars => NoLostWakeup'
  BY WakeupNext
<1> QED
  BY <1>1, <1>2, Inductive, PTL DEF Spec
===============================================================================
