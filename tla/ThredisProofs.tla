---------------------------- MODULE ThredisProofs ----------------------------
(***************************************************************************)
(* Proofs about the multiplexed Redis connection, for any number of        *)
(* threads: replies find their commands, and no wait record is forgotten   *)
(* or outlives its thread's stack frame.                                   *)
(***************************************************************************)
EXTENDS Thredis, SequenceTheorems, TLAPS

\* The reader holds the mutex from the time it has read until it polls again or
\* exits; a record it has popped is signalled in between.
ReaderOwns ==
  /\ mutex = READER <=> rd \in {"parse", "drain"}
  /\ target # NONE => rd \in {"parse", "drain"}

\* A reader that has exited has told the commands to come, or was cancelled by
\* thredis_close when there were none to come.
ExitIsTold ==
  /\ rd = "exit" => redis = "gone" \/ closing # "no"
  /\ closing = "join" => mutex = CLOSER
  /\ closing # "no" => \A t \in Threads : pc[t] = "idle"

\* The i-th reply to come is that of the i-th record in the queue.
InStep ==
  rd \notin {"drain", "exit"} =>
    /\ Len(Outstanding) <= Len(waiters)
    /\ \A i \in 1 .. Len(Outstanding) : Outstanding[i] = asked[waiters[i]]
    /\ link = "up" => Len(Outstanding) = Len(waiters)

\* What a record is given is the reply to its thread's last command, or NULL.
PoppedIsOwn ==
  \A t \in Threads : pc[t] = "idle" \/ t = target => got[t] \in {asked[t], NULL}

\* Every command names its thread.
AskedIsOwn == \A t \in Threads : asked[t][1] = t

ThredisInv ==
  /\ TypeOK
  /\ ReaderOwns
  /\ ExitIsTold
  /\ SleepersAreQueued
  /\ AskedIsOwn
  /\ InStep
  /\ PoppedIsOwn
-------------------------------------------------------------------------------
(* The queue.                                                                *)

\* A record appended to the queue is in it once, after the others.
LEMMA Pushed ==
  ASSUME NEW S, NEW q \in Seq(S), NEW t \in S,
         IsInjective(q), t \notin ToSet(q)
  PROVE  /\ Append(q, t) \in Seq(S)
         /\ Len(Append(q, t)) = Len(q) + 1
         /\ \A i \in 1 .. Len(q) : Append(q, t)[i] = q[i]
         /\ Append(q, t)[Len(q) + 1] = t
         /\ IsInjective(Append(q, t))
         /\ ToSet(Append(q, t)) = ToSet(q) \cup {t}
<1>1. /\ Append(q, t) \in Seq(S)
      /\ Len(Append(q, t)) = Len(q) + 1
      /\ DOMAIN Append(q, t) = 1 .. Len(q) + 1
      /\ DOMAIN q = 1 .. Len(q)
      /\ Len(q) \in Nat
      /\ \A i \in 1 .. Len(q) : Append(q, t)[i] = q[i]
      /\ Append(q, t)[Len(q) + 1] = t
  OBVIOUS
<1>2. \A i \in 1 .. Len(q) : q[i] # t
  BY <1>1 DEF ToSet
<1>3. IsInjective(Append(q, t))
  BY <1>1, <1>2 DEF IsInjective
<1>4. ToSet(Append(q, t)) = ToSet(q) \cup {t}
  BY <1>1 DEF ToSet
<1> QED
  BY <1>1, <1>3, <1>4

\* The record at the head of the queue leaves it altogether.
LEMMA Popped ==
  ASSUME NEW S, NEW q \in Seq(S), q # <<>>, IsInjective(q)
  PROVE  /\ Head(q) \in S
         /\ Head(q) = q[1]
         /\ Len(q) \in Nat \ {0}
         /\ Tail(q) \in Seq(S)
         /\ Len(Tail(q)) = Len(q) - 1
         /\ \A i \in 1 .. Len(q) - 1 : Tail(q)[i] = q[i + 1]
         /\ IsInjective(Tail(q))
         /\ Head(q) \notin ToSet(Tail(q))
         /\ ToSet(q) = ToSet(Tail(q)) \cup {Head(q)}
<1>1. /\ Head(q) \in S
      /\ Head(q) = q[1]
      /\ Tail(q) \in Seq(S)
      /\ Len(Tail(q)) = Len(q) - 1
      /\ Len(q) \in Nat \ {0}
      /\ \A i \in 1 .. Len(q) - 1 : Tail(q)[i] = q[i + 1]
      /\ DOMAIN q = 1 .. Len(q)
      /\ DOMAIN Tail(q) = 1 .. Len(q) - 1
  BY HeadTailProperties, EmptySeq
<1>2. IsInjective(Tail(q))
  BY <1>1 DEF IsInjective
<1>3. Head(q) \notin ToSet(Tail(q))
  BY <1>1 DEF IsInjective, ToSet
<1>4. ToSet(q) = ToSet(Tail(q)) \cup {Head(q)}
  <2>1. \A i \in 1 .. Len(q) : i = 1 \/ (i - 1 \in 1 .. Len(q) - 1 /\ q[i] = Tail(q)[i - 1])
    BY <1>1
  <2>2. \A i \in 1 .. Len(q) - 1 : i + 1 \in 1 .. Len(q)
    BY <1>1
  <2>3. ASSUME NEW x \in ToSet(q)
        PROVE  x \in ToSet(Tail(q)) \cup {Head(q)}
    <3>1. PICK i \in 1 .. Len(q) : x = q[i]
      BY <1>1, <2>3 DEF ToSet
    <3>2. CASE i = 1
      BY <1>1, <3>1, <3>2
    <3>3. CASE i # 1
      <4>1. i - 1 \in 1 .. Len(q) - 1 /\ x = Tail(q)[i - 1]
        BY <2>1, <3>1, <3>3
      <4> QED
        BY <1>1, <4>1 DEF ToSet
    <3> QED
      BY <3>2, <3>3
  <2>4. ASSUME NEW x \in ToSet(Tail(q)) \cup {Head(q)}
        PROVE  x \in ToSet(q)
    <3>1. CASE x = Head(q)
      BY <1>1, <3>1 DEF ToSet
    <3>2. CASE x \in ToSet(Tail(q))
      BY <1>1, <2>2, <3>2 DEF ToSet
    <3> QED
      BY <2>4, <3>1, <3>2
  <2> QED
    BY <2>3, <2>4
<1> QED
  BY <1>1, <1>2, <1>3, <1>4

(* The replies that are under way.                                           *)

\* They are three sequences, one behind the other.
LEMMA OutstandingParts ==
  ASSUME NEW b \in Seq(Commands), NEW i \in Seq(Commands), NEW w \in Seq(Commands)
  PROVE  /\ b \o i \o w \in Seq(Commands)
         /\ Len(b \o i \o w) = Len(b) + Len(i) + Len(w)
         /\ \A n \in 1 .. Len(b) : (b \o i \o w)[n] = b[n]
         /\ \A n \in 1 .. Len(i) : (b \o i \o w)[Len(b) + n] = i[n]
         /\ \A n \in 1 .. Len(w) : (b \o i \o w)[Len(b) + Len(i) + n] = w[n]
<1>1. b \o i \in Seq(Commands) /\ Len(b \o i) = Len(b) + Len(i)
  BY ConcatProperties
<1>2. /\ Len(b) \in Nat /\ Len(i) \in Nat /\ Len(w) \in Nat
  OBVIOUS
<1>3. b \o i \o w \in Seq(Commands) /\ Len(b \o i \o w) = Len(b) + Len(i) + Len(w)
  BY <1>1, ConcatProperties
<1>4. \A n \in 1 .. Len(b) + Len(i) : (b \o i \o w)[n] = (b \o i)[n]
  BY <1>1, <1>2, ConcatProperties
<1>5. \A n \in 1 .. Len(b) + Len(i) :
        (b \o i)[n] = IF n <= Len(b) THEN b[n] ELSE i[n - Len(b)]
  BY ConcatProperties
<1>6. \A n \in 1 .. Len(w) : (b \o i \o w)[Len(b) + Len(i) + n] = w[n]
  <2> TAKE n \in 1 .. Len(w)
  <2> DEFINE m == Len(b) + Len(i) + n
  <2>1. m \in 1 .. Len(b \o i) + Len(w) /\ ~(m <= Len(b \o i)) /\ m - Len(b \o i) = n
    BY <1>1, <1>2
  <2> HIDE DEF m
  <2>2. (b \o i \o w)[m] = w[n]
    BY <1>1, <2>1, ConcatProperties
  <2> QED
    BY <2>2 DEF m
<1>7. \A n \in 1 .. Len(b) : (b \o i \o w)[n] = b[n]
  BY <1>2, <1>4, <1>5
<1>8. \A n \in 1 .. Len(i) : (b \o i \o w)[Len(b) + n] = i[n]
  <2> TAKE n \in 1 .. Len(i)
  <2>1. Len(b) + n \in 1 .. Len(b) + Len(i) /\ ~(Len(b) + n <= Len(b)) /\ (Len(b) + n) - Len(b) = n
    BY <1>2
  <2> QED
    BY <1>4, <1>5, <2>1
<1> QED
  BY <1>3, <1>6, <1>7, <1>8

\* A read takes replies from the socket into the buffer, in order.
LEMMA ReadKeepsOrder ==
  ASSUME NEW b \in Seq(Commands), NEW i \in Seq(Commands), NEW w \in Seq(Commands),
         NEW n \in 0 .. Len(i)
  PROVE  /\ b \o SubSeq(i, 1, n) \in Seq(Commands)
         /\ SubSeq(i, n + 1, Len(i)) \in Seq(Commands)
         /\ (b \o SubSeq(i, 1, n)) \o SubSeq(i, n + 1, Len(i)) \o w = b \o i \o w
<1>1. SubSeq(i, 1, n) \in Seq(Commands) /\ SubSeq(i, n + 1, Len(i)) \in Seq(Commands)
  BY SubSeqProperties
<1>2. SubSeq(i, 1, n) \o SubSeq(i, n + 1, Len(i)) = i
  <2>1. /\ 1 \in 1 .. Len(i) + 1
        /\ n \in 1 - 1 .. Len(i)
        /\ Len(i) \in n .. Len(i)
    OBVIOUS
  <2> QED
    BY <2>1, ConcatAdjacentSubSeq, SubSeqFull
<1>3. (b \o SubSeq(i, 1, n)) \o SubSeq(i, n + 1, Len(i)) = b \o i
  <2> DEFINE s == SubSeq(i, 1, n)
             r == SubSeq(i, n + 1, Len(i))
  <2>1. s \in Seq(Commands) /\ r \in Seq(Commands) /\ s \o r = i
    BY <1>1, <1>2
  <2> HIDE DEF s, r
  <2>2. (b \o s) \o r = b \o (s \o r)
    <3>1. \A x, y, z \in Seq(Commands) : (x \o y) \o z = x \o (y \o z)
      BY SMTT(30), ConcatAssociative
    <3> QED
      BY ZenonT(60), <2>1, <3>1
  <2>3. (b \o s) \o r = b \o i
    BY <2>1, <2>2
  <2> QED
    BY <2>3 DEF s, r
<1> QED
  BY <1>1, <1>3, ConcatProperties

\* The server answers its first command.
LEMMA ServeKeepsOrder ==
  ASSUME NEW b \in Seq(Commands), NEW i \in Seq(Commands), NEW w \in Seq(Commands),
         w # <<>>
  PROVE  b \o Append(i, Head(w)) \o Tail(w) = b \o i \o w
<1>1. /\ Head(w) \in Commands /\ Tail(w) \in Seq(Commands)
      /\ Append(i, Head(w)) \in Seq(Commands)
      /\ <<Head(w)>> \in Seq(Commands)
  BY HeadTailProperties
<1>2. Append(i, Head(w)) = i \o <<Head(w)>>
  BY <1>1, AppendIsConcat
<1>3. <<Head(w)>> \o Tail(w) = w
  <2>1. 1 \in 1 .. Len(w) /\ Len(w) \in 1 .. Len(w) /\ Head(w) = w[1]
    BY EmptySeq
  <2>2. SubSeq(w, 1, Len(w)) = <<w[1]>> \o SubSeq(w, 1 + 1, Len(w))
    BY <2>1, SubSeqRecursiveFirst
  <2> QED
    BY <2>1, <2>2, SubSeqFull, TailIsSubSeq
<1>4. i \o <<Head(w)>> \in Seq(Commands) /\ b \o i \in Seq(Commands)
  BY <1>1, ConcatProperties
<1>5. b \o (i \o <<Head(w)>>) = (b \o i) \o <<Head(w)>>
  BY <1>1, ConcatAssociative
<1>6. ((b \o i) \o <<Head(w)>>) \o Tail(w) = (b \o i) \o (<<Head(w)>> \o Tail(w))
  BY SMTT(30), <1>1, <1>4, ConcatAssociative
<1> QED
  BY <1>1, <1>2, <1>3, <1>5, <1>6

\* The first reply in the buffer is the first under way.
LEMMA DeliverTakesFirst ==
  ASSUME NEW b \in Seq(Commands), NEW i \in Seq(Commands), NEW w \in Seq(Commands),
         b # <<>>
  PROVE  /\ Head(b) \in Commands
         /\ Tail(b) \in Seq(Commands)
         /\ Head(b) = (b \o i \o w)[1]
         /\ b \o i \o w # <<>>
         /\ Tail(b) \o i \o w = Tail(b \o i \o w)
<1>1. /\ Head(b) \in Commands /\ Tail(b) \in Seq(Commands)
      /\ <<Head(b)>> \in Seq(Commands)
      /\ Len(b) \in Nat \ {0}
      /\ Head(b) = b[1]
      /\ Len(i) \in Nat /\ Len(w) \in Nat
  BY HeadTailProperties, EmptySeq
<1> DEFINE o == b \o i \o w
<1>2. /\ o \in Seq(Commands) /\ Len(o) = Len(b) + Len(i) + Len(w)
      /\ o[1] = b[1]
  BY <1>1, OutstandingParts
<1>3. o # <<>>
  BY <1>1, <1>2, EmptySeq
<1> DEFINE o2 == Tail(b) \o i \o w
<1>4. /\ o2 \in Seq(Commands) /\ Len(o2) = Len(Tail(b)) + Len(i) + Len(w)
      /\ Len(Tail(b)) = Len(b) - 1
  BY <1>1, OutstandingParts, HeadTailProperties
<1>5. /\ Tail(o) \in Seq(Commands) /\ Len(Tail(o)) = Len(o) - 1
      /\ \A n \in 1 .. Len(o) - 1 : Tail(o)[n] = o[n + 1]
  BY <1>2, <1>3, HeadTailProperties
<1>6. /\ \A n \in 1 .. Len(b) - 1 : o2[n] = b[n + 1] /\ o[n + 1] = b[n + 1]
      /\ \A n \in 1 .. Len(i) : o2[Len(b) - 1 + n] = i[n] /\ o[Len(b) + n] = i[n]
      /\ \A n \in 1 .. Len(w) : /\ o2[Len(b) - 1 + Len(i) + n] = w[n]
                                /\ o[Len(b) + Len(i) + n] = w[n]
  <2>1. /\ \A n \in 1 .. Len(b) : o[n] = b[n]
        /\ \A n \in 1 .. Len(i) : o[Len(b) + n] = i[n]
        /\ \A n \in 1 .. Len(w) : o[Len(b) + Len(i) + n] = w[n]
    BY OutstandingParts
  <2>2. /\ \A n \in 1 .. Len(Tail(b)) : o2[n] = Tail(b)[n]
        /\ \A n \in 1 .. Len(i) : o2[Len(Tail(b)) + n] = i[n]
        /\ \A n \in 1 .. Len(w) : o2[Len(Tail(b)) + Len(i) + n] = w[n]
    BY <1>1, OutstandingParts
  <2>3. \A n \in 1 .. Len(b) - 1 : Tail(b)[n] = b[n + 1]
    BY HeadTailProperties
  <2> HIDE DEF o, o2
  <2> QED
    BY <1>1, <1>4, <2>1, <2>2, <2>3
<1>7. \A n \in 1 .. Len(o) - 1 : o2[n] = o[n + 1]
  <2> TAKE n \in 1 .. Len(o) - 1
  <2>1. CASE n \in 1 .. Len(b) - 1
    BY <1>6, <2>1
  <2>2. CASE n \in Len(b) .. Len(b) - 1 + Len(i)
    <3>1. /\ n - Len(b) + 1 \in 1 .. Len(i)
          /\ Len(b) - 1 + (n - Len(b) + 1) = n /\ Len(b) + (n - Len(b) + 1) = n + 1
      BY <1>1, <2>2
    <3> QED
      BY <1>6, <3>1
  <2>3. CASE n \in Len(b) + Len(i) .. Len(o) - 1
    <3>1. /\ n - Len(b) - Len(i) + 1 \in 1 .. Len(w)
          /\ Len(b) - 1 + Len(i) + (n - Len(b) - Len(i) + 1) = n
          /\ Len(b) + Len(i) + (n - Len(b) - Len(i) + 1) = n + 1
      BY <1>1, <1>2, <2>3
    <3> QED
      BY <1>6, <3>1
  <2> QED
    BY <1>1, <1>2, <2>1, <2>2, <2>3
<1>8. o2 = Tail(o)
  BY SMTT(30), <1>2, <1>4, <1>5, <1>7, SeqEqual
<1> QED
  BY <1>1, <1>2, <1>3, <1>8

\* A command that is written goes behind the others.
LEMMA SendGoesLast ==
  ASSUME NEW b \in Seq(Commands), NEW i \in Seq(Commands), NEW w \in Seq(Commands),
         NEW c \in Commands
  PROVE  b \o i \o Append(w, c) = Append(b \o i \o w, c)
<1>1. /\ b \o i \in Seq(Commands) /\ b \o i \o w \in Seq(Commands)
      /\ <<c>> \in Seq(Commands)
  BY ConcatProperties
<1>2. Append(w, c) = w \o <<c>> /\ Append(b \o i \o w, c) = (b \o i \o w) \o <<c>>
  BY <1>1, AppendIsConcat
<1> QED
  BY <1>1, <1>2, ConcatAssociative
-------------------------------------------------------------------------------
LEMMA InitHolds == Init => ThredisInv
<1> SUFFICES ASSUME Init
             PROVE  ThredisInv
  OBVIOUS
<1>1. TypeOK
  BY EmptySeq DEF Init, TypeOK, Commands
<1>2. ReaderOwns /\ ExitIsTold /\ AskedIsOwn
  BY ThredisAssumption DEF Init, ReaderOwns, ExitIsTold, AskedIsOwn
<1>3. SleepersAreQueued
  BY ThredisAssumption DEF Init, SleepersAreQueued, IsInjective, ToSet
<1>4. InStep
  <2>1. <<>> \in Seq(Commands) /\ Len(<<>>) = 0
    BY EmptySeq
  <2>2. Len(Outstanding) = 0
    BY <2>1, OutstandingParts DEF Init, Outstanding
  <2> QED
    BY <2>1, <2>2 DEF Init, InStep
<1>5. PoppedIsOwn
  BY DEF Init, PoppedIsOwn
<1> QED
  BY <1>1, <1>2, <1>3, <1>4, <1>5 DEF ThredisInv

\* A thread outside thredis_command is not in the queue.
LEMMA IdleIsOutside ==
  ASSUME ThredisInv, NEW t \in Threads, pc[t] = "idle"
  PROVE  /\ t \notin ToSet(waiters) /\ t # target
         /\ \A i \in 1 .. Len(waiters) : waiters[i] \in Threads /\ waiters[i] # t
<1>1. t \notin ToSet(waiters) /\ t # target
  BY ThredisAssumption DEF ThredisInv, SleepersAreQueued
<1>2. \A i \in 1 .. Len(waiters) : waiters[i] \in Threads /\ waiters[i] \in ToSet(waiters)
  BY DEF ThredisInv, TypeOK, ToSet
<1> QED
  BY <1>1, <1>2

\* A thread that gets NULL at once leaves the queue alone, and finds no
\* connection that others could still be answered by after a failed write.
LEMMA ReturnNullKeeps ==
  ASSUME ThredisInv, NEW t \in Threads, NoRedis(t) \/ AppendFails(t) \/ FlushFails(t)
  PROVE  ThredisInv'
<1>1. /\ pc[t] = "idle" /\ mutex = NONE /\ closing = "no"
      /\ asked' = [asked EXCEPT ![t] = NextOf(t)]
      /\ got' = [got EXCEPT ![t] = NULL]
      /\ redis' \in {"failed", "gone"} /\ (redis' = redis \/ redis # "gone")
      /\ redis = "gone" => redis' = "gone"
      /\ UNCHANGED <<mutex, waiters, rd, target, pc, link, wire, inbox, buf, closing>>
  BY DEF NoRedis, AppendFails, FlushFails, ReturnNull, MayCommand
<1>2. NextOf(t) \in Commands /\ NextOf(t)[1] = t
  BY DEF ThredisInv, TypeOK, NextOf, Commands
<1>3. TypeOK'
  BY <1>1, <1>2 DEF ThredisInv, TypeOK
<1>4. ReaderOwns' /\ ExitIsTold' /\ SleepersAreQueued'
  BY <1>1 DEF ThredisInv, ReaderOwns, ExitIsTold, SleepersAreQueued
<1>5. AskedIsOwn'
  BY <1>1, <1>2 DEF ThredisInv, TypeOK, AskedIsOwn
<1>6. InStep'
  <2> SUFFICES ASSUME rd \notin {"drain", "exit"}
               PROVE  InStep'
    BY <1>1 DEF InStep
  <2>1. Outstanding' = Outstanding
    BY <1>1 DEF Outstanding
  <2>2. Len(Outstanding) \in Nat /\ Len(waiters) \in Nat
    BY OutstandingParts DEF ThredisInv, TypeOK, Outstanding
  <2>3. \A i \in 1 .. Len(Outstanding) :
          i \in 1 .. Len(waiters) /\ Outstanding[i] = asked[waiters[i]]
    BY <2>2 DEF ThredisInv, InStep
  <2>4. \A i \in 1 .. Len(waiters) : asked'[waiters[i]] = asked[waiters[i]]
    BY <1>1, IdleIsOutside DEF ThredisInv, TypeOK
  <2> QED
    BY <1>1, <2>1, <2>3, <2>4 DEF ThredisInv, InStep
<1>7. PoppedIsOwn'
  BY <1>1, IdleIsOutside DEF ThredisInv, PoppedIsOwn, TypeOK
<1> QED
  BY <1>3, <1>4, <1>5, <1>6, <1>7 DEF ThredisInv

\* Command and record are queued together, behind all others.
LEMMA SendKeeps ==
  ASSUME ThredisInv, NEW t \in Threads, Send(t)
  PROVE  ThredisInv'
<1>1. /\ pc[t] = "idle" /\ mutex = NONE /\ closing = "no" /\ redis = "open"
      /\ asked' = [asked EXCEPT ![t] = NextOf(t)]
      /\ wire' = IF link = "up" THEN Append(wire, NextOf(t)) ELSE wire
      /\ waiters' = Append(waiters, t)
      /\ pc' = [pc EXCEPT ![t] = "unlocked"]
      /\ UNCHANGED <<redis, mutex, rd, target, got, link, inbox, buf, closing>>
  BY DEF Send, MayCommand, push_waiter
<1>2. NextOf(t) \in Commands /\ NextOf(t)[1] = t
  BY DEF ThredisInv, TypeOK, NextOf, Commands
<1>3. t \notin ToSet(waiters) /\ t # target
  BY <1>1, IdleIsOutside
<1>4. /\ waiters' \in Seq(Threads)
      /\ Len(waiters') = Len(waiters) + 1
      /\ \A i \in 1 .. Len(waiters) : waiters'[i] = waiters[i]
      /\ waiters'[Len(waiters) + 1] = t
      /\ IsInjective(waiters')
      /\ ToSet(waiters') = ToSet(waiters) \cup {t}
      /\ Len(waiters) \in Nat
  BY <1>1, <1>3, Pushed DEF ThredisInv, TypeOK, SleepersAreQueued
<1>5. TypeOK'
  BY <1>1, <1>2, <1>4, AppendProperties DEF ThredisInv, TypeOK
<1>6. rd # "exit"
  BY <1>1 DEF ThredisInv, ExitIsTold
<1>7. ReaderOwns' /\ ExitIsTold'
  BY <1>1, <1>6 DEF ThredisInv, ReaderOwns, ExitIsTold
<1>8. SleepersAreQueued'
  <2>1. {u \in Threads : pc'[u] # "idle"} = {u \in Threads : pc[u] # "idle"} \cup {t}
    BY <1>1 DEF ThredisInv, TypeOK
  <2> QED
    BY <1>1, <1>3, <1>4, <1>6, <2>1 DEF ThredisInv, SleepersAreQueued
<1>9. AskedIsOwn'
  BY <1>1, <1>2 DEF ThredisInv, TypeOK, AskedIsOwn
<1>10. InStep'
  <2> SUFFICES ASSUME rd \notin {"drain", "exit"}
               PROVE  InStep'
    BY <1>1 DEF InStep
  <2>1. Outstanding \in Seq(Commands) /\ Len(Outstanding) \in Nat
    BY OutstandingParts DEF ThredisInv, TypeOK, Outstanding
  <2>2. \A i \in 1 .. Len(waiters) : asked'[waiters[i]] = asked[waiters[i]]
    BY <1>1, IdleIsOutside DEF ThredisInv, TypeOK
  <2>3. /\ Len(Outstanding) <= Len(waiters)
        /\ \A i \in 1 .. Len(Outstanding) :
             Outstanding[i] = asked'[waiters[i]] /\ i \in 1 .. Len(waiters)
        /\ link = "up" => Len(Outstanding) = Len(waiters)
    BY <1>4, <2>1, <2>2 DEF ThredisInv, InStep
  <2>4. CASE link # "up"
    <3>1. Outstanding' = Outstanding
      BY <1>1, <2>4 DEF Outstanding
    <3> QED
      BY <1>1, <1>4, <2>1, <2>3, <2>4, <3>1 DEF InStep
  <2>5. CASE link = "up"
    <3>1. Outstanding' = Append(Outstanding, NextOf(t))
      BY <1>1, <1>2, <2>5, SendGoesLast DEF ThredisInv, TypeOK, Outstanding
    <3>2. /\ Len(Outstanding') = Len(Outstanding) + 1
          /\ \A i \in 1 .. Len(Outstanding) : Outstanding'[i] = Outstanding[i]
          /\ Outstanding'[Len(Outstanding) + 1] = NextOf(t)
      BY <1>2, <2>1, <3>1, AppendProperties
    <3>3. asked'[t] = NextOf(t)
      BY <1>1 DEF ThredisInv, TypeOK
    <3>4. \A i \in 1 .. Len(Outstanding) + 1 : Outstanding'[i] = asked'[waiters'[i]]
      <4> TAKE i \in 1 .. Len(Outstanding) + 1
      <4>1. CASE i \in 1 .. Len(Outstanding)
        BY <1>4, <2>3, <3>2, <4>1
      <4>2. CASE i = Len(Outstanding) + 1
        BY <1>4, <2>3, <2>5, <3>2, <3>3, <4>2
      <4> QED
        BY <2>1, <4>1, <4>2
    <3> QED
      BY <1>1, <1>4, <2>1, <2>3, <2>5, <3>2, <3>4 DEF InStep
  <2> QED
    BY <2>4, <2>5
<1>11. PoppedIsOwn'
  BY <1>1, <1>3 DEF ThredisInv, PoppedIsOwn, TypeOK
<1> QED
  BY <1>5, <1>7, <1>8, <1>9, <1>10, <1>11 DEF ThredisInv

\* Steps that leave records, commands and replies as they are.
LEMMA QuietStepKeeps ==
  ASSUME ThredisInv,
         UNCHANGED <<waiters, target, clientVars, buf, inbox, wire>>,
         link' = link,
         TypeOK', ReaderOwns', ExitIsTold',
         rd' = "exit" => waiters = <<>>,
         rd \in {"drain", "exit"} => rd' \in {"drain", "exit"}
  PROVE  ThredisInv'
<1>1. Outstanding' = Outstanding
  BY DEF Outstanding
<1>2. SleepersAreQueued' /\ AskedIsOwn' /\ PoppedIsOwn'
  BY DEF ThredisInv, SleepersAreQueued, AskedIsOwn, PoppedIsOwn, clientVars
<1>3. InStep'
  BY <1>1 DEF ThredisInv, InStep, clientVars
<1> QED
  BY <1>2, <1>3 DEF ThredisInv

\* What the reader does to the mutex and to itself between two records.
LEMMA ReaderMovesKeep ==
  ASSUME ThredisInv,
         \/ PollReturns \/ LockForError \/ BufferReadFails \/ ParseFails
         \/ Unlock \/ ReaderExits
  PROVE  ThredisInv'
<1>1. CASE PollReturns
  <2>1. TypeOK' /\ ReaderOwns' /\ ExitIsTold'
    BY <1>1 DEF ThredisInv, TypeOK, ReaderOwns, ExitIsTold, PollReturns, clientVars, linkVars
  <2> QED
    BY <1>1, <2>1, QuietStepKeeps DEF PollReturns, linkVars
<1>2. CASE LockForError
  <2>1. TypeOK' /\ ReaderOwns' /\ ExitIsTold'
    BY <1>2, ThredisAssumption
       DEF ThredisInv, TypeOK, ReaderOwns, ExitIsTold, LockForError, clientVars, linkVars
  <2> QED
    BY <1>2, <2>1, QuietStepKeeps DEF LockForError, linkVars
<1>3. CASE BufferReadFails
  <2>1. TypeOK' /\ ReaderOwns' /\ ExitIsTold'
    BY <1>3, ThredisAssumption
       DEF ThredisInv, TypeOK, ReaderOwns, ExitIsTold, BufferReadFails, clientVars, linkVars
  <2> QED
    BY <1>3, <2>1, QuietStepKeeps DEF BufferReadFails, linkVars
<1>4. CASE ParseFails
  <2>1. TypeOK' /\ ReaderOwns' /\ ExitIsTold'
    BY <1>4 DEF ThredisInv, TypeOK, ReaderOwns, ExitIsTold, ParseFails, clientVars, linkVars
  <2> QED
    BY <1>4, <2>1, QuietStepKeeps DEF ParseFails, linkVars
<1>5. CASE Unlock
  <2>1. TypeOK' /\ ReaderOwns' /\ ExitIsTold'
    BY <1>5, ThredisAssumption
       DEF ThredisInv, TypeOK, ReaderOwns, ExitIsTold, Unlock, clientVars, linkVars
  <2> QED
    BY <1>5, <2>1, QuietStepKeeps DEF Unlock, linkVars
<1>6. CASE ReaderExits
  <2>1. TypeOK' /\ ReaderOwns' /\ ExitIsTold'
    BY <1>6, ThredisAssumption
       DEF ThredisInv, TypeOK, ReaderOwns, ExitIsTold, ReaderExits, clientVars, linkVars
  <2> QED
    BY <1>6, <2>1, QuietStepKeeps DEF ReaderExits, linkVars
<1> QED
  BY <1>1, <1>2, <1>3, <1>4, <1>5, <1>6

\* thredis_close comes when all commands have returned.
LEMMA ClosingKeeps ==
  ASSUME ThredisInv, Closing
  PROVE  ThredisInv'
<1>1. CASE Close
  <2>1. TypeOK' /\ ReaderOwns' /\ ExitIsTold'
    BY <1>1, ThredisAssumption
       DEF ThredisInv, TypeOK, ReaderOwns, ExitIsTold, Close, clientVars, linkVars
  <2>2. rd = "exit" => waiters = <<>>
    BY DEF ThredisInv, SleepersAreQueued
  <2> QED
    BY <1>1, <2>1, <2>2, QuietStepKeeps DEF Close, linkVars
<1>2. CASE Cancelled
  <2>1. TypeOK' /\ ReaderOwns' /\ ExitIsTold'
    BY <1>2 DEF ThredisInv, TypeOK, ReaderOwns, ExitIsTold, Cancelled, clientVars, linkVars
  <2>2. ToSet(waiters) = {}
    BY <1>2 DEF ThredisInv, ExitIsTold, SleepersAreQueued, Cancelled
  <2>3. waiters = <<>>
    <3> SUFFICES ASSUME waiters # <<>>
                 PROVE  FALSE
      OBVIOUS
    <3>1. 1 \in DOMAIN waiters
      BY EmptySeq DEF ThredisInv, TypeOK
    <3> QED
      BY <2>2, <3>1 DEF ToSet
  <2> QED
    BY <1>2, <2>1, <2>3, QuietStepKeeps DEF Cancelled, linkVars
<1>3. CASE Joined
  <2>1. TypeOK' /\ ReaderOwns' /\ ExitIsTold'
    BY <1>3, ThredisAssumption
       DEF ThredisInv, TypeOK, ReaderOwns, ExitIsTold, Joined, clientVars, linkVars
  <2>2. rd = "exit" => waiters = <<>>
    BY DEF ThredisInv, SleepersAreQueued
  <2> QED
    BY <1>3, <2>1, <2>2, QuietStepKeeps DEF Joined, linkVars
<1> QED
  BY <1>1, <1>2, <1>3 DEF Closing

\* A thread that goes to sleep is inside its command before and after.
LEMMA SleepKeeps ==
  ASSUME ThredisInv, NEW t \in Threads, Sleep(t)
  PROVE  ThredisInv'
<1>1. /\ pc' = [pc EXCEPT ![t] = "asleep"] /\ pc[t] = "unlocked"
      /\ UNCHANGED <<redis, mutex, waiters, rd, target, asked, got, link, wire,
                     inbox, buf, closing>>
  BY DEF Sleep, linkVars
<1>2. TypeOK' /\ ReaderOwns' /\ ExitIsTold' /\ AskedIsOwn'
  BY <1>1 DEF ThredisInv, TypeOK, ReaderOwns, ExitIsTold, AskedIsOwn
<1>3. \A u \in Threads : pc'[u] = "idle" <=> pc[u] = "idle"
  BY <1>1 DEF ThredisInv, TypeOK
<1>4. SleepersAreQueued' /\ PoppedIsOwn'
  BY <1>1, <1>3 DEF ThredisInv, SleepersAreQueued, PoppedIsOwn
<1>5. Outstanding' = Outstanding
  BY <1>1 DEF Outstanding
<1>6. InStep'
  BY <1>1, <1>5 DEF ThredisInv, InStep
<1> QED
  BY <1>2, <1>4, <1>6 DEF ThredisInv

\* A record is signalled once its thread sleeps, and is gone when it wakes.
LEMMA SignalKeeps ==
  ASSUME ThredisInv, Signal
  PROVE  ThredisInv'
<1>1. /\ target \in Threads /\ pc[target] = "asleep"
      /\ pc' = [pc EXCEPT ![target] = "idle"]
      /\ target' = NONE
      /\ UNCHANGED <<redis, mutex, waiters, rd, asked, got, link, wire, inbox,
                     buf, closing>>
  BY DEF Signal, ThredisInv, TypeOK, linkVars
<1>2. TypeOK' /\ ReaderOwns' /\ ExitIsTold' /\ AskedIsOwn'
  BY <1>1 DEF ThredisInv, TypeOK, ReaderOwns, ExitIsTold, AskedIsOwn
<1>3. NONE \notin Threads
  BY ThredisAssumption
<1>4. SleepersAreQueued'
  <2>1. {u \in Threads : pc'[u] # "idle"} = {u \in Threads : pc[u] # "idle"} \ {target}
    BY <1>1 DEF ThredisInv, TypeOK
  <2>2. NONE \notin ToSet(waiters)
    BY <1>3 DEF ThredisInv, TypeOK, ToSet
  <2> QED
    BY <1>1, <1>3, <2>1, <2>2 DEF ThredisInv, SleepersAreQueued
<1>5. PoppedIsOwn'
  BY <1>1, <1>3 DEF ThredisInv, TypeOK, PoppedIsOwn
<1>6. Outstanding' = Outstanding
  BY <1>1 DEF Outstanding
<1>7. InStep'
  BY <1>1, <1>6 DEF ThredisInv, InStep
<1> QED
  BY <1>2, <1>4, <1>5, <1>7 DEF ThredisInv

\* Popping a record: what is left in the queue, and who is outside it.
LEMMA PopKeepsQueue ==
  ASSUME ThredisInv, NEW reply, reply \in Commands \cup {NULL}, Pop(reply),
         rd \in {"parse", "drain"},
         reply = NULL \/ reply = asked[Head(waiters)]
  PROVE  /\ waiters' \in Seq(Threads)
         /\ target' \in Threads
         /\ ReaderOwns' /\ ExitIsTold' /\ AskedIsOwn'
         /\ SleepersAreQueued' /\ PoppedIsOwn'
<1> DEFINE h == Head(waiters)
<1>1. /\ target = NONE /\ waiters # <<>>
      /\ waiters' = Tail(waiters) /\ target' = h
      /\ got' = [got EXCEPT ![h] = reply]
      /\ UNCHANGED <<redis, mutex, rd, pc, asked, link, wire, inbox, closing>>
  BY DEF Pop, linkVars
<1>2. /\ h \in Threads
      /\ waiters' \in Seq(Threads)
      /\ IsInjective(waiters')
      /\ h \notin ToSet(waiters')
      /\ ToSet(waiters) = ToSet(waiters') \cup {h}
  BY <1>1, Popped DEF ThredisInv, TypeOK, SleepersAreQueued
<1>3. ReaderOwns' /\ ExitIsTold' /\ AskedIsOwn'
  BY <1>1 DEF ThredisInv, ReaderOwns, ExitIsTold, AskedIsOwn
<1>4. SleepersAreQueued'
  BY <1>1, <1>2, ThredisAssumption DEF ThredisInv, SleepersAreQueued
<1>5. PoppedIsOwn'
  <2> SUFFICES ASSUME NEW t \in Threads, pc[t] = "idle" \/ t = h
               PROVE  got'[t] \in {asked[t], NULL}
    BY <1>1 DEF PoppedIsOwn
  <2> QED
    BY <1>1, <1>2 DEF ThredisInv, TypeOK, PoppedIsOwn
<1> QED
  BY <1>1, <1>2, <1>3, <1>4, <1>5

LEMMA DeliverNullKeeps ==
  ASSUME ThredisInv, DeliverNull
  PROVE  ThredisInv'
<1>1. /\ rd = "drain" /\ Pop(NULL) /\ buf' = buf
  BY DEF DeliverNull
<1>2. /\ waiters' \in Seq(Threads)
      /\ target' \in Threads
      /\ ReaderOwns' /\ ExitIsTold' /\ AskedIsOwn'
      /\ SleepersAreQueued' /\ PoppedIsOwn'
  BY <1>1, PopKeepsQueue
<1>3. got' = [got EXCEPT ![Head(waiters)] = NULL]
  BY <1>1 DEF Pop
<1>4. TypeOK'
  BY <1>1, <1>2, <1>3 DEF ThredisInv, TypeOK, Pop, linkVars
<1>5. InStep'
  BY <1>1 DEF Pop, InStep
<1> QED
  BY <1>2, <1>4, <1>5 DEF ThredisInv

\* The first reply goes to the first record: it is the answer to what the
\* thread of that record asked.
LEMMA DeliverKeeps ==
  ASSUME ThredisInv, Deliver
  PROVE  ThredisInv'
<1>1. /\ rd = "parse" /\ buf # <<>> /\ Pop(Head(buf)) /\ buf' = Tail(buf)
      /\ waiters # <<>> /\ waiters' = Tail(waiters)
      /\ UNCHANGED <<redis, mutex, rd, pc, asked, link, wire, inbox, closing>>
      /\ got' = [got EXCEPT ![Head(waiters)] = Head(buf)]
  BY DEF Deliver, Pop, linkVars
<1>2. /\ Head(buf) \in Commands
      /\ Tail(buf) \in Seq(Commands)
      /\ Head(buf) = Outstanding[1]
      /\ Outstanding # <<>>
      /\ Outstanding' = Tail(Outstanding)
  BY <1>1, DeliverTakesFirst DEF ThredisInv, TypeOK, Outstanding
<1>3. Outstanding \in Seq(Commands)
  BY OutstandingParts DEF ThredisInv, TypeOK, Outstanding
<1>4. /\ Len(Outstanding) \in Nat \ {0}
      /\ Len(Outstanding') = Len(Outstanding) - 1
      /\ \A i \in 1 .. Len(Outstanding) - 1 : Outstanding'[i] = Outstanding[i + 1]
  BY <1>2, <1>3, HeadTailProperties, EmptySeq
<1>5. /\ Head(waiters) = waiters[1]
      /\ Len(waiters) \in Nat \ {0}
      /\ Len(waiters') = Len(waiters) - 1
      /\ \A i \in 1 .. Len(waiters) - 1 : waiters'[i] = waiters[i + 1]
  BY <1>1, Popped DEF ThredisInv, TypeOK, SleepersAreQueued
<1>6. /\ Len(Outstanding) <= Len(waiters)
      /\ \A i \in 1 .. Len(Outstanding) : Outstanding[i] = asked[waiters[i]]
      /\ link = "up" => Len(Outstanding) = Len(waiters)
  BY <1>1 DEF ThredisInv, InStep
<1>7. Head(buf) = asked[Head(waiters)]
  <2>1. Outstanding[1] = asked[waiters[1]]
    BY <1>4, <1>6
  <2> QED
    BY <1>2, <1>5, <2>1
<1>8. /\ waiters' \in Seq(Threads)
      /\ target' \in Threads
      /\ ReaderOwns' /\ ExitIsTold' /\ AskedIsOwn'
      /\ SleepersAreQueued' /\ PoppedIsOwn'
  BY <1>1, <1>2, <1>7, PopKeepsQueue
<1>9. TypeOK'
  BY <1>1, <1>2, <1>8 DEF ThredisInv, TypeOK
<1>10. InStep'
  <2>1. \A i \in 1 .. Len(Outstanding') : Outstanding'[i] = asked[waiters'[i]]
    <3> TAKE i \in 1 .. Len(Outstanding')
    <3>1. i \in 1 .. Len(Outstanding) - 1 /\ i + 1 \in 1 .. Len(Outstanding)
          /\ i \in 1 .. Len(waiters) - 1
      BY <1>4, <1>5, <1>6
    <3> QED
      BY <1>4, <1>5, <1>6, <3>1
  <2>2. Len(Outstanding') <= Len(waiters')
    BY <1>4, <1>5, <1>6
  <2>3. link' = "up" => Len(Outstanding') = Len(waiters')
    BY <1>1, <1>4, <1>5, <1>6
  <2>4. asked' = asked
    BY <1>1
  <2> QED
    BY <2>1, <2>2, <2>3, <2>4 DEF InStep
<1> QED
  BY <1>8, <1>9, <1>10 DEF ThredisInv

LEMMA BufferReadKeeps ==
  ASSUME ThredisInv, NEW n \in 0 .. Len(inbox), BufferRead(n)
  PROVE  ThredisInv'
<1>1. /\ rd = "lockIn" /\ mutex = NONE /\ mutex' = READER /\ rd' = "parse"
      /\ buf' = buf \o SubSeq(inbox, 1, n)
      /\ inbox' = SubSeq(inbox, n + 1, Len(inbox))
      /\ UNCHANGED <<redis, waiters, target, pc, asked, got, link, wire, closing>>
  BY DEF BufferRead, clientVars
<1>2. /\ buf' \in Seq(Commands) /\ inbox' \in Seq(Commands)
      /\ Outstanding' = Outstanding
  BY <1>1, ReadKeepsOrder DEF ThredisInv, TypeOK, Outstanding
<1>3. TypeOK'
  BY <1>1, <1>2 DEF ThredisInv, TypeOK
<1>4. ReaderOwns' /\ ExitIsTold'
  BY <1>1, ThredisAssumption DEF ThredisInv, ReaderOwns, ExitIsTold
<1>5. SleepersAreQueued' /\ AskedIsOwn' /\ PoppedIsOwn'
  BY <1>1 DEF ThredisInv, SleepersAreQueued, AskedIsOwn, PoppedIsOwn
<1>6. InStep'
  BY <1>1, <1>2 DEF ThredisInv, InStep
<1> QED
  BY <1>3, <1>4, <1>5, <1>6 DEF ThredisInv

\* The server answers in the order of the commands, or answers no more.
LEMMA ServerKeeps ==
  ASSUME ThredisInv, Server
  PROVE  ThredisInv'
<1>1. /\ UNCHANGED <<redis, mutex, waiters, rd, target, pc, asked, got, buf, closing>>
  BY DEF Server, Serve, ServerCloses, ConnectionReset, clientVars
<1>2. ReaderOwns' /\ ExitIsTold' /\ SleepersAreQueued' /\ AskedIsOwn' /\ PoppedIsOwn'
  BY <1>1 DEF ThredisInv, ReaderOwns, ExitIsTold, SleepersAreQueued, AskedIsOwn, PoppedIsOwn
<1>3. CASE Serve
  <2>1. /\ wire' \in Seq(Commands) /\ inbox' \in Seq(Commands) /\ link' = link
        /\ Outstanding' = Outstanding
    <3>1. /\ buf \in Seq(Commands) /\ inbox \in Seq(Commands)
          /\ wire \in Seq(Commands) /\ wire # <<>>
          /\ wire' = Tail(wire) /\ inbox' = Append(inbox, Head(wire))
          /\ buf' = buf /\ link' = link
      BY <1>3 DEF Serve, ThredisInv, TypeOK
    <3>2. buf \o Append(inbox, Head(wire)) \o Tail(wire) = buf \o inbox \o wire
      BY <3>1, ServeKeepsOrder
    <3>3. inbox' \in Seq(Commands) /\ wire' \in Seq(Commands)
      BY <3>1, HeadTailProperties, AppendProperties
    <3> QED
      BY <3>1, <3>2, <3>3 DEF Outstanding
  <2>2. TypeOK'
    BY <1>1, <2>1 DEF ThredisInv, TypeOK
  <2>3. InStep'
    BY <1>1, <2>1 DEF ThredisInv, InStep
  <2> QED
    BY <1>2, <2>2, <2>3 DEF ThredisInv
<1>4. CASE ServerCloses \/ ConnectionReset
  <2>1. link' \in {"eof", "reset"} /\ wire' = <<>> /\ inbox' = inbox
    BY <1>4 DEF ServerCloses, ConnectionReset
  <2>2. TypeOK'
    BY <1>1, <2>1, EmptySeq DEF ThredisInv, TypeOK
  <2>3. /\ Len(Outstanding') \in Nat /\ Len(Outstanding) \in Nat
        /\ Len(Outstanding') <= Len(Outstanding)
        /\ \A i \in 1 .. Len(Outstanding') : Outstanding'[i] = Outstanding[i]
    <3> DEFINE b == buf
               m == inbox
    <3>1. b \in Seq(Commands) /\ m \in Seq(Commands) /\ wire \in Seq(Commands)
      BY DEF ThredisInv, TypeOK
    <3>2. b \o m \in Seq(Commands) /\ (b \o m) \o <<>> = b \o m
      BY <3>1, ConcatProperties, ConcatEmptySeq
    <3>3. Outstanding' = b \o m /\ Outstanding = (b \o m) \o wire
      BY <1>1, <2>1, <3>2 DEF Outstanding
    <3> QED
      BY <3>1, <3>2, <3>3, ConcatProperties
  <2>4. InStep'
    <3> SUFFICES ASSUME rd \notin {"drain", "exit"}
                 PROVE  InStep'
      BY <1>1 DEF InStep
    <3>1. /\ Len(Outstanding) <= Len(waiters) /\ Len(waiters) \in Nat
          /\ \A i \in 1 .. Len(Outstanding) : Outstanding[i] = asked[waiters[i]]
      BY DEF ThredisInv, TypeOK, InStep
    <3>2. \A i \in 1 .. Len(Outstanding') : i \in 1 .. Len(Outstanding)
      BY <2>3
    <3>3. \A i \in 1 .. Len(Outstanding') : Outstanding'[i] = asked[waiters[i]]
      BY <2>3, <3>1, <3>2
    <3>4. Len(Outstanding') <= Len(waiters)
      BY <2>3, <3>1
    <3>5. asked' = asked /\ waiters' = waiters /\ link' # "up"
      BY <1>1, <2>1
    <3> QED
      BY <3>3, <3>4, <3>5 DEF InStep
  <2> QED
    BY <1>2, <2>2, <2>4 DEF ThredisInv
<1> QED
  BY <1>3, <1>4 DEF Server

LEMMA ThredisInvNext == ThredisInv /\ [Next]_vars => ThredisInv'
<1> SUFFICES ASSUME ThredisInv, [Next]_vars
             PROVE  ThredisInv'
  OBVIOUS
<1>1. ASSUME NEW t \in Threads, Command(t)
      PROVE  ThredisInv'
  BY <1>1, ReturnNullKeeps, SendKeeps DEF Command
<1>2. ASSUME NEW t \in Threads, Sleep(t)
      PROVE  ThredisInv'
  BY <1>2, SleepKeeps
<1>3. CASE Reader
  <2>1. CASE ReadSome \/ ReadPart
    <3>1. PICK n \in 0 .. Len(inbox) : BufferRead(n)
      BY <2>1 DEF ReadSome, ReadPart, ThredisInv, TypeOK
    <3> QED
      BY <3>1, BufferReadKeeps
  <2> QED
    BY <1>3, <2>1, ReaderMovesKeep, DeliverKeeps, DeliverNullKeeps, SignalKeeps DEF Reader
<1>4. CASE Closing
  BY <1>4, ClosingKeeps
<1>5. CASE Server
  BY <1>5, ServerKeeps
<1>6. CASE UNCHANGED vars
  <2>1. UNCHANGED <<redis, mutex, waiters, rd, target, pc, asked, got, link, wire,
                    inbox, buf, closing>>
    BY <1>6 DEF vars, clientVars, linkVars
  <2>2. TypeOK' /\ ReaderOwns' /\ ExitIsTold'
    BY <2>1 DEF ThredisInv, TypeOK, ReaderOwns, ExitIsTold
  <2>3. rd' = "exit" => waiters = <<>>
    BY <2>1 DEF ThredisInv, SleepersAreQueued
  <2> QED
    BY <2>1, <2>2, <2>3, QuietStepKeeps DEF clientVars
<1> QED
  BY <1>1, <1>2, <1>3, <1>4, <1>5, <1>6 DEF Next
-------------------------------------------------------------------------------
\* The strengthened invariant: the replies under way are, in order, those of the
\* first records of the queue, and what a record was given is its own.
THEOREM ThredisInductive == Spec => []ThredisInv
  BY InitHolds, ThredisInvNext, PTL DEF Spec

\* Queue, socket and buffer keep their types.
THEOREM ThredisTypeCorrect == Spec => []TypeOK
<1>1. ThredisInv => TypeOK
  BY DEF ThredisInv
<1> QED
  BY <1>1, ThredisInductive, PTL

\* Every thread outside thredis_command has the reply to its own last command,
\* or NULL, although a reply does not say what it answers.
THEOREM RepliesAreOwn == Spec => []ReplyIsOwn
<1>1. ThredisInv => ReplyIsOwn
  BY DEF ThredisInv, PoppedIsOwn, ReplyIsOwn
<1> QED
  BY <1>1, ThredisInductive, PTL

\* The queue has the records of exactly the threads inside thredis_command, but
\* for the one that is about to be signalled; none is left when the reader exits.
THEOREM NobodyIsForgotten == Spec => []SleepersAreQueued
<1>1. ThredisInv => SleepersAreQueued
  BY DEF ThredisInv
<1> QED
  BY <1>1, ThredisInductive, PTL

\* While replies are handed out, those to come belong to a prefix of the queue,
\* all of it as long as the server is there; so pop_waiter never meets an empty
\* queue with a reply in its hand.
THEOREM RepliesInStep == Spec => []RepliesMatchWaiters
<1>1. ASSUME ThredisInv
      PROVE  RepliesMatchWaiters
  <2> SUFFICES ASSUME rd \notin {"drain", "exit"}
               PROVE  LET askers == [i \in DOMAIN Outstanding |-> Outstanding[i][1]] IN
                        /\ IsPrefix(askers, waiters)
                        /\ link = "up" => askers = waiters
    BY DEF RepliesMatchWaiters
  <2> DEFINE askers == [i \in DOMAIN Outstanding |-> Outstanding[i][1]]
  <2>1. /\ Outstanding \in Seq(Commands) /\ waiters \in Seq(Threads)
        /\ Len(Outstanding) \in Nat /\ Len(waiters) \in Nat
        /\ DOMAIN Outstanding = 1 .. Len(Outstanding)
    BY <1>1, OutstandingParts DEF ThredisInv, TypeOK, Outstanding
  <2>2. \A i \in 1 .. Len(Outstanding) :
          i \in 1 .. Len(waiters) /\ Outstanding[i][1] = waiters[i] /\ waiters[i] \in Threads
    BY <1>1, <2>1 DEF ThredisInv, InStep, AskedIsOwn
  <2>3. askers \in Seq(Threads) /\ Len(askers) = Len(Outstanding)
    BY <2>1, <2>2
  <2>4. \A i \in 1 .. Len(askers) : askers[i] = waiters[i]
    BY <2>1, <2>2, <2>3
  <2> HIDE DEF askers
  <2>5. Len(askers) \in Nat /\ Len(askers) <= Len(waiters)
    BY <1>1, <2>1, <2>3 DEF ThredisInv, InStep
  <2>6. SubSeq(askers, 1, Len(askers)) = SubSeq(waiters, 1, Len(askers))
    BY <2>1, <2>3, <2>4, <2>5
  <2>7. link = "up" => askers = waiters
    BY <1>1, <2>1, <2>3, <2>4, SeqEqual DEF ThredisInv, InStep
  <2> QED
    BY <2>5, <2>6, <2>7 DEF IsPrefix, askers
<1> QED
  BY <1>1, ThredisInductive, PTL
===============================================================================
