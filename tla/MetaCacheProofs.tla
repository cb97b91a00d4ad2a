---------------------------- MODULE MetaCacheProofs ----------------------------
(***************************************************************************)
(* What MetaCache promises of one file, for any sizes, permissions, users, *)
(* handles, failures and crashes, when the file system has one thread (the *)
(* option -s): with two, one undoes what the other did.                    *)
(* MInv says what the one running handler has in hand: before its HSET,    *)
(* what the answers so far allow; after it, that with the change applied.  *)
(***************************************************************************)
EXTENDS MetaCache, FiniteSetTheorems, TLAPS

Kind(w) == op[w].kind

\* Where the scripts of the kinds have their steps.
Reads(k) == ~(k = "read" /\ NoAtime)
Updates(k) == k # "getattr" /\ Reads(k)
HgetAt(k) == IF k = "release" THEN 3 ELSE IF k = "read" THEN 2 ELSE 1
HsetAt(k) ==
  IF k = "release" THEN 8 ELSE IF k \in {"open", "utimens", "chmod", "chown"} THEN 4 ELSE 5
CommitAt(k) ==
  IF k = "getattr" THEN 4 ELSE IF Updates(k) THEN HsetAt(k) + 3 ELSE 2
Last(k) == IF k \in {"read", "write"} THEN CommitAt(k) + 2 ELSE CommitAt(k)

\* A handler with attributes in hand, before its HSET and after it.
Holding(w) ==
  /\ Busy(w) /\ Reads(Kind(w))
  /\ HgetAt(Kind(w)) + 2 <= at[w]
  /\ at[w] <= (IF Updates(Kind(w)) THEN HsetAt(Kind(w)) ELSE CommitAt(Kind(w)))
Changing(w) ==
  /\ Busy(w) /\ Updates(Kind(w))
  /\ HsetAt(Kind(w)) < at[w] /\ at[w] <= CommitAt(Kind(w))
Changed(w) == Busy(w) /\ Updates(Kind(w)) /\ at[w] > CommitAt(Kind(w))
Dropped(w) == Busy(w) /\ Kind(w) = "release" /\ at[w] \in 8 .. 11

\* What a request has done to the position, the transaction and the handles.
InScript(w) ==
  /\ ~Busy(w) => at[w] = 1 /\ tx[w] = NONE
  /\ Busy(w) => at[w] <= Last(Kind(w)) + 1
  /\ tx[w] # NONE => Changing(w) /\ at[w] = CommitAt(Kind(w)) /\ tx[w] = meta[w]
  /\ Holding(w) \/ Changing(w) => meta[w] # NONE
  /\ Busy(w) /\ Reads(Kind(w)) /\ at[w] \in {HgetAt(Kind(w)) + 1, HgetAt(Kind(w)) + 2}
        => redis.meta = NONE
  /\ Busy(w) /\ Kind(w) \in OnHandle => opens > 0
  /\ Busy(w) /\ Kind(w) = "open" => opens < MaxOpens

\* Redis and the row are allowed; the row, as long as nothing keeps it behind.
Current == redis.meta = NONE \/ redis.event = 0
Fresh(S) == (redis.meta # NONE => redis.meta \in S) /\ (Current => db \in S)
After(w) == {Change(op[w], m) : m \in allowed}

Kept(w) ==
  /\ ~Changing(w) /\ ~Changed(w) /\ ~Dropped(w) => Fresh(allowed)
  /\ Holding(w) => meta[w] \in allowed
  /\ Changing(w) =>
       /\ meta[w] \in After(w)
       /\ redis.meta \in {NONE, meta[w]}
       /\ redis.event # 0 => redis.meta # NONE
       /\ ~Dropped(w) /\ Current => db \in allowed
       /\ at[w] = HsetAt(Kind(w)) + 2 => redis.event = 0
       /\ at[w] = CommitAt(Kind(w)) /\ tx[w] = NONE => redis.event # 0
  /\ Changed(w) => Fresh(After(w))
  /\ Dropped(w) => redis.event = 0

\* The event, the uid and the portal, as long as nothing failed.
Told(w) ==
  /\ redis.event # 0 => opens > 0 \/ (Busy(w) /\ Kind(w) = "release" /\ at[w] <= 7)
  /\ Busy(w) /\ Kind(w) = "read" /\ at[w] = CommitAt("read") + 2 => ev[w] = redis.event
  /\ Busy(w) /\ Kind(w) = "write" /\ at[w] >= 10 =>
       redis.event = 1 /\ (at[w] = 11 => redis.uid = op[w].uid)
  /\ ~(Busy(w) /\ Kind(w) = "write" /\ at[w] >= 10)
       /\ ~(Busy(w) /\ Kind(w) = "release" /\ at[w] \in 2 .. 7) =>
       (redis.event = 1 => redis.uid = writer) /\ (told = writer \/ redis.event = 1)
  /\ Busy(w) /\ Kind(w) = "release" =>
       /\ at[w] = 2 => (redis.event = 1 => signer[w] = writer) /\ (told = writer \/ redis.event = 1)
       /\ at[w] \in 3 .. 6 => (ev[w] = 1 => signer[w] = writer) /\ (told = writer \/ ev[w] = 1)
       /\ at[w] = 7 => told = writer
       /\ at[w] >= 8 => redis.event = 0

MInv(w) ==
  /\ TypeOK
  /\ InScript(w)
  /\ ~lost => Kept(w)
  /\ ~lost /\ failures = 0 /\ crashes = 0 => Told(w)

-------------------------------------------------------------------------------
(* Requests and scripts.                                                     *)

Kinds == {"getattr", "open", "utimens", "read", "release", "write", "truncate",
          "ftruncate", "chmod", "chown"}
Plain == {"getattr", "open", "utimens", "read", "release"}

\* What the records of requests are made of.
LEMMA RequestFacts ==
  /\ \A r \in Requests :
       /\ r.kind \in Kinds
       /\ r.kind = "write" => r.size \in 0 .. MaxSize /\ r.uid \in Uids
       /\ r.kind \in {"truncate", "ftruncate"} => r.size \in 0 .. MaxSize
       /\ r.kind \in {"chmod", "chown"} => r.perm \in Perms
       /\ r # NONE
  /\ NONE \notin Metas
<1>1. \A r \in Requests : r # NONE
  BY NoneAssumption
<1>2. NONE \notin Metas
  BY NoneAssumption
<1>3. \A r \in [kind : Plain] : r.kind \in Plain
  OBVIOUS
<1>4. \A r \in [kind : {"write"}, size : 1 .. MaxSize, uid : Uids] :
        r.kind = "write" /\ r.size \in 0 .. MaxSize /\ r.uid \in Uids
  BY MetaCacheAssumption
<1>5. \A r \in [kind : {"truncate", "ftruncate"}, size : 0 .. MaxSize] :
        r.kind \in {"truncate", "ftruncate"} /\ r.size \in 0 .. MaxSize
  OBVIOUS
<1>6. \A r \in [kind : {"chmod", "chown"}, perm : Perms] :
        r.kind \in {"chmod", "chown"} /\ r.perm \in Perms
  OBVIOUS
<1> QED BY <1>1, <1>2, <1>3, <1>4, <1>5, <1>6 DEF Requests, Kinds, Plain

\* A request turns attributes into attributes, and many change nothing.
LEMMA ChangeFacts ==
  ASSUME NEW r \in Requests, NEW m \in Metas
  PROVE  /\ Change(r, m) \in Metas
         /\ r.kind \in Plain => Change(r, m) = m
<1>1. /\ m.size \in 0 .. MaxSize /\ m.perm \in Perms
      /\ m = [size |-> m.size, perm |-> m.perm]
  BY DEF Metas
<1>2. CASE r.kind = "write"
  <2>1. Change(r, m) = [m EXCEPT !.size = IF r.size > m.size THEN r.size ELSE m.size]
    BY <1>2 DEF Change
  <2>2. r.size \in 0 .. MaxSize
    BY <1>2, RequestFacts
  <2>3. (IF r.size > m.size THEN r.size ELSE m.size) \in 0 .. MaxSize
    BY <1>1, <2>2
  <2> QED BY <1>1, <1>2, <2>1, <2>3 DEF Metas, Plain
<1>3. CASE r.kind \in {"truncate", "ftruncate"}
  <2>1. Change(r, m) = [m EXCEPT !.size = r.size]
    BY <1>3 DEF Change
  <2>2. r.size \in 0 .. MaxSize
    BY <1>3, RequestFacts
  <2> QED BY <1>1, <1>3, <2>1, <2>2 DEF Metas, Plain
<1>4. CASE r.kind \in {"chmod", "chown"}
  <2>1. Change(r, m) = [m EXCEPT !.perm = r.perm]
    BY <1>4 DEF Change
  <2>2. r.perm \in Perms
    BY <1>4, RequestFacts
  <2> QED BY <1>1, <1>4, <2>1, <2>2 DEF Metas, Plain
<1>5. CASE r.kind \in Plain
  <2>1. Change(r, m) = m
    BY <1>5 DEF Change, Plain
  <2> QED BY <2>1
<1> QED BY <1>2, <1>3, <1>4, <1>5, RequestFacts DEF Kinds, Plain

\* The n-th step of the script of a kind, and where it is found.
StepAt(k, n, s) == n <= Len(Script(k)) /\ Script(k)[n] = s

Found(k, n, s) ==
  \/ s = "hget" /\ Reads(k) /\ n = HgetAt(k)
  \/ s = "select" /\ Reads(k) /\ n = HgetAt(k) + 1
  \/ s = "fill" /\ Reads(k) /\ n = HgetAt(k) + 2
  \/ s = "data" /\ k \in {"write", "truncate", "ftruncate"} /\ n = 4
  \/ s = "data" /\ k = "read" /\ n = 1
  \/ s = "hset" /\ Updates(k) /\ n = HsetAt(k)
  \/ s = "flag" /\ Updates(k) /\ n = HsetAt(k) + 1
  \/ s = "update" /\ Updates(k) /\ n = HsetAt(k) + 2
  \/ s = "commit" /\ n = CommitAt(k)
  \/ s = "markWritten" /\ k = "write" /\ n = 9
  \/ s = "sign" /\ k = "write" /\ n = 10
  \/ s = "peek" /\ k = "release" /\ n = 2
  \/ s = "peek" /\ k = "read" /\ n = CommitAt(k) + 1
  \/ s = "markRead" /\ k = "read" /\ n = CommitAt(k) + 2
  \/ s = "signer" /\ k = "release" /\ n = 1
  \/ s = "tell" /\ k = "release" /\ n = 6
  \/ s = "del" /\ k = "release" /\ n = 7

LEMMA Positions ==
  ASSUME NEW k \in Kinds, NEW n \in 1 .. 13, NEW s
  PROVE  /\ StepAt(k, n, s) => Found(k, n, s)
         /\ Len(Script(k)) = Last(k)
<1>1. CASE k = "getattr"
  <2>1. Script(k) = Getattr
    BY <1>1 DEF Script
  <2>2. /\ Len(Script(k)) = 4
        /\ Script(k)[1] = "hget"
        /\ Script(k)[2] = "select"
        /\ Script(k)[3] = "fill"
        /\ Script(k)[4] = "commit"
    BY <1>1, <2>1 DEF Getattr, ReadMeta
  <2>3. /\ HgetAt(k) = 1 /\ CommitAt(k) = 4 /\ Last(k) = 4
        /\ Reads(k) /\ ~Updates(k)
    BY <1>1 DEF HgetAt, CommitAt, Last, Reads, Updates, HsetAt
  <2>4. ASSUME StepAt(k, n, s)
        PROVE  Found(k, n, s)
    <3>1. \/ n = 1 /\ s = "hget"
          \/ n = 2 /\ s = "select"
          \/ n = 3 /\ s = "fill"
          \/ n = 4 /\ s = "commit"
      BY <2>2, <2>4 DEF StepAt
    <3> QED BY <1>1, <2>3, <3>1 DEF Found
  <2> QED BY <2>2, <2>3, <2>4
<1>2. CASE k = "open"
  <2>1. Script(k) = Open
    BY <1>2 DEF Script
  <2>2. /\ Len(Script(k)) = 7
        /\ Script(k)[1] = "hget"
        /\ Script(k)[2] = "select"
        /\ Script(k)[3] = "fill"
        /\ Script(k)[4] = "hset"
        /\ Script(k)[5] = "flag"
        /\ Script(k)[6] = "update"
        /\ Script(k)[7] = "commit"
    BY <1>2, <2>1 DEF Open, Rewrite, ReadMeta, WriteMeta
  <2>3. /\ HgetAt(k) = 1 /\ CommitAt(k) = 7 /\ Last(k) = 7
        /\ Reads(k) /\ Updates(k) /\ HsetAt(k) = 4
    BY <1>2 DEF HgetAt, CommitAt, Last, Reads, Updates, HsetAt
  <2>4. ASSUME StepAt(k, n, s)
        PROVE  Found(k, n, s)
    <3>1. \/ n = 1 /\ s = "hget"
          \/ n = 2 /\ s = "select"
          \/ n = 3 /\ s = "fill"
          \/ n = 4 /\ s = "hset"
          \/ n = 5 /\ s = "flag"
          \/ n = 6 /\ s = "update"
          \/ n = 7 /\ s = "commit"
      BY <2>2, <2>4 DEF StepAt
    <3> QED BY <1>2, <2>3, <3>1 DEF Found
  <2> QED BY <2>2, <2>3, <2>4
<1>3. CASE k = "utimens"
  <2>1. Script(k) = Utimens
    BY <1>3 DEF Script
  <2>2. /\ Len(Script(k)) = 7
        /\ Script(k)[1] = "hget"
        /\ Script(k)[2] = "select"
        /\ Script(k)[3] = "fill"
        /\ Script(k)[4] = "hset"
        /\ Script(k)[5] = "flag"
        /\ Script(k)[6] = "update"
        /\ Script(k)[7] = "commit"
    BY <1>3, <2>1 DEF Utimens, Rewrite, ReadMeta, WriteMeta
  <2>3. /\ HgetAt(k) = 1 /\ CommitAt(k) = 7 /\ Last(k) = 7
        /\ Reads(k) /\ Updates(k) /\ HsetAt(k) = 4
    BY <1>3 DEF HgetAt, CommitAt, Last, Reads, Updates, HsetAt
  <2>4. ASSUME StepAt(k, n, s)
        PROVE  Found(k, n, s)
    <3>1. \/ n = 1 /\ s = "hget"
          \/ n = 2 /\ s = "select"
          \/ n = 3 /\ s = "fill"
          \/ n = 4 /\ s = "hset"
          \/ n = 5 /\ s = "flag"
          \/ n = 6 /\ s = "update"
          \/ n = 7 /\ s = "commit"
      BY <2>2, <2>4 DEF StepAt
    <3> QED BY <1>3, <2>3, <3>1 DEF Found
  <2> QED BY <2>2, <2>3, <2>4
<1>4. CASE k = "chmod"
  <2>1. Script(k) = Chmod
    BY <1>4 DEF Script
  <2>2. /\ Len(Script(k)) = 7
        /\ Script(k)[1] = "hget"
        /\ Script(k)[2] = "select"
        /\ Script(k)[3] = "fill"
        /\ Script(k)[4] = "hset"
        /\ Script(k)[5] = "flag"
        /\ Script(k)[6] = "update"
        /\ Script(k)[7] = "commit"
    BY <1>4, <2>1 DEF Chmod, Rewrite, ReadMeta, WriteMeta
  <2>3. /\ HgetAt(k) = 1 /\ CommitAt(k) = 7 /\ Last(k) = 7
        /\ Reads(k) /\ Updates(k) /\ HsetAt(k) = 4
    BY <1>4 DEF HgetAt, CommitAt, Last, Reads, Updates, HsetAt
  <2>4. ASSUME StepAt(k, n, s)
        PROVE  Found(k, n, s)
    <3>1. \/ n = 1 /\ s = "hget"
          \/ n = 2 /\ s = "select"
          \/ n = 3 /\ s = "fill"
          \/ n = 4 /\ s = "hset"
          \/ n = 5 /\ s = "flag"
          \/ n = 6 /\ s = "update"
          \/ n = 7 /\ s = "commit"
      BY <2>2, <2>4 DEF StepAt
    <3> QED BY <1>4, <2>3, <3>1 DEF Found
  <2> QED BY <2>2, <2>3, <2>4
<1>5. CASE k = "chown"
  <2>1. Script(k) = Chown
    BY <1>5 DEF Script
  <2>2. /\ Len(Script(k)) = 7
        /\ Script(k)[1] = "hget"
        /\ Script(k)[2] = "select"
        /\ Script(k)[3] = "fill"
        /\ Script(k)[4] = "hset"
        /\ Script(k)[5] = "flag"
        /\ Script(k)[6] = "update"
        /\ Script(k)[7] = "commit"
    BY <1>5, <2>1 DEF Chown, Rewrite, ReadMeta, WriteMeta
  <2>3. /\ HgetAt(k) = 1 /\ CommitAt(k) = 7 /\ Last(k) = 7
        /\ Reads(k) /\ Updates(k) /\ HsetAt(k) = 4
    BY <1>5 DEF HgetAt, CommitAt, Last, Reads, Updates, HsetAt
  <2>4. ASSUME StepAt(k, n, s)
        PROVE  Found(k, n, s)
    <3>1. \/ n = 1 /\ s = "hget"
          \/ n = 2 /\ s = "select"
          \/ n = 3 /\ s = "fill"
          \/ n = 4 /\ s = "hset"
          \/ n = 5 /\ s = "flag"
          \/ n = 6 /\ s = "update"
          \/ n = 7 /\ s = "commit"
      BY <2>2, <2>4 DEF StepAt
    <3> QED BY <1>5, <2>3, <3>1 DEF Found
  <2> QED BY <2>2, <2>3, <2>4
<1>6. CASE k = "truncate"
  <2>1. Script(k) = Truncate
    BY <1>6 DEF Script
  <2>2. /\ Len(Script(k)) = 8
        /\ Script(k)[1] = "hget"
        /\ Script(k)[2] = "select"
        /\ Script(k)[3] = "fill"
        /\ Script(k)[4] = "data"
        /\ Script(k)[5] = "hset"
        /\ Script(k)[6] = "flag"
        /\ Script(k)[7] = "update"
        /\ Script(k)[8] = "commit"
    BY <1>6, <2>1 DEF Truncate, ReadMeta, WriteMeta
  <2>3. /\ HgetAt(k) = 1 /\ CommitAt(k) = 8 /\ Last(k) = 8
        /\ Reads(k) /\ Updates(k) /\ HsetAt(k) = 5
    BY <1>6 DEF HgetAt, CommitAt, Last, Reads, Updates, HsetAt
  <2>4. ASSUME StepAt(k, n, s)
        PROVE  Found(k, n, s)
    <3>1. \/ n = 1 /\ s = "hget"
          \/ n = 2 /\ s = "select"
          \/ n = 3 /\ s = "fill"
          \/ n = 4 /\ s = "data"
          \/ n = 5 /\ s = "hset"
          \/ n = 6 /\ s = "flag"
          \/ n = 7 /\ s = "update"
          \/ n = 8 /\ s = "commit"
      BY <2>2, <2>4 DEF StepAt
    <3> QED BY <1>6, <2>3, <3>1 DEF Found
  <2> QED BY <2>2, <2>3, <2>4
<1>7. CASE k = "ftruncate"
  <2>1. Script(k) = Ftruncate
    BY <1>7 DEF Script
  <2>2. /\ Len(Script(k)) = 8
        /\ Script(k)[1] = "hget"
        /\ Script(k)[2] = "select"
        /\ Script(k)[3] = "fill"
        /\ Script(k)[4] = "data"
        /\ Script(k)[5] = "hset"
        /\ Script(k)[6] = "flag"
        /\ Script(k)[7] = "update"
        /\ Script(k)[8] = "commit"
    BY <1>7, <2>1 DEF Ftruncate, Truncate, ReadMeta, WriteMeta
  <2>3. /\ HgetAt(k) = 1 /\ CommitAt(k) = 8 /\ Last(k) = 8
        /\ Reads(k) /\ Updates(k) /\ HsetAt(k) = 5
    BY <1>7 DEF HgetAt, CommitAt, Last, Reads, Updates, HsetAt
  <2>4. ASSUME StepAt(k, n, s)
        PROVE  Found(k, n, s)
    <3>1. \/ n = 1 /\ s = "hget"
          \/ n = 2 /\ s = "select"
          \/ n = 3 /\ s = "fill"
          \/ n = 4 /\ s = "data"
          \/ n = 5 /\ s = "hset"
          \/ n = 6 /\ s = "flag"
          \/ n = 7 /\ s = "update"
          \/ n = 8 /\ s = "commit"
      BY <2>2, <2>4 DEF StepAt
    <3> QED BY <1>7, <2>3, <3>1 DEF Found
  <2> QED BY <2>2, <2>3, <2>4
<1>8. CASE k = "write"
  <2>1. Script(k) = Write
    BY <1>8 DEF Script
  <2>2. /\ Len(Script(k)) = 10
        /\ Script(k)[1] = "hget"
        /\ Script(k)[2] = "select"
        /\ Script(k)[3] = "fill"
        /\ Script(k)[4] = "data"
        /\ Script(k)[5] = "hset"
        /\ Script(k)[6] = "flag"
        /\ Script(k)[7] = "update"
        /\ Script(k)[8] = "commit"
        /\ Script(k)[9] = "markWritten"
        /\ Script(k)[10] = "sign"
    BY <1>8, <2>1 DEF Write, ReadMeta, WriteMeta
  <2>3. /\ HgetAt(k) = 1 /\ CommitAt(k) = 8 /\ Last(k) = 10
        /\ Reads(k) /\ Updates(k) /\ HsetAt(k) = 5
    BY <1>8 DEF HgetAt, CommitAt, Last, Reads, Updates, HsetAt
  <2>4. ASSUME StepAt(k, n, s)
        PROVE  Found(k, n, s)
    <3>1. \/ n = 1 /\ s = "hget"
          \/ n = 2 /\ s = "select"
          \/ n = 3 /\ s = "fill"
          \/ n = 4 /\ s = "data"
          \/ n = 5 /\ s = "hset"
          \/ n = 6 /\ s = "flag"
          \/ n = 7 /\ s = "update"
          \/ n = 8 /\ s = "commit"
          \/ n = 9 /\ s = "markWritten"
          \/ n = 10 /\ s = "sign"
      BY <2>2, <2>4 DEF StepAt
    <3> QED BY <1>8, <2>3, <3>1 DEF Found
  <2> QED BY <2>2, <2>3, <2>4
<1>9. CASE k = "release"
  <2>1. Script(k) = Release
    BY <1>9 DEF Script
  <2>2. /\ Len(Script(k)) = 11
        /\ Script(k)[1] = "signer"
        /\ Script(k)[2] = "peek"
        /\ Script(k)[3] = "hget"
        /\ Script(k)[4] = "select"
        /\ Script(k)[5] = "fill"
        /\ Script(k)[6] = "tell"
        /\ Script(k)[7] = "del"
        /\ Script(k)[8] = "hset"
        /\ Script(k)[9] = "flag"
        /\ Script(k)[10] = "update"
        /\ Script(k)[11] = "commit"
    BY <1>9, <2>1 DEF Release, ReadMeta, WriteMeta
  <2>3. /\ HgetAt(k) = 3 /\ CommitAt(k) = 11 /\ Last(k) = 11
        /\ Reads(k) /\ Updates(k) /\ HsetAt(k) = 8
    BY <1>9 DEF HgetAt, CommitAt, Last, Reads, Updates, HsetAt
  <2>4. ASSUME StepAt(k, n, s)
        PROVE  Found(k, n, s)
    <3>1. \/ n = 1 /\ s = "signer"
          \/ n = 2 /\ s = "peek"
          \/ n = 3 /\ s = "hget"
          \/ n = 4 /\ s = "select"
          \/ n = 5 /\ s = "fill"
          \/ n = 6 /\ s = "tell"
          \/ n = 7 /\ s = "del"
          \/ n = 8 /\ s = "hset"
          \/ n = 9 /\ s = "flag"
          \/ n = 10 /\ s = "update"
          \/ n = 11 /\ s = "commit"
      BY <2>2, <2>4 DEF StepAt
    <3> QED BY <1>9, <2>3, <3>1 DEF Found
  <2> QED BY <2>2, <2>3, <2>4
<1>10. CASE k = "read" /\ NoAtime
  <2>1. Script(k) = Read
    BY <1>10 DEF Script
  <2>2. /\ Len(Script(k)) = 4
        /\ Script(k)[1] = "data"
        /\ Script(k)[2] = "commit"
        /\ Script(k)[3] = "peek"
        /\ Script(k)[4] = "markRead"
    BY <1>10, <2>1 DEF Read
  <2>3. /\ HgetAt(k) = 2 /\ CommitAt(k) = 2 /\ Last(k) = 4
        /\ ~Reads(k) /\ ~Updates(k)
    BY <1>10 DEF HgetAt, CommitAt, Last, Reads, Updates, HsetAt
  <2>4. ASSUME StepAt(k, n, s)
        PROVE  Found(k, n, s)
    <3>1. \/ n = 1 /\ s = "data"
          \/ n = 2 /\ s = "commit"
          \/ n = 3 /\ s = "peek"
          \/ n = 4 /\ s = "markRead"
      BY <2>2, <2>4 DEF StepAt
    <3> QED BY <1>10, <2>3, <3>1 DEF Found
  <2> QED BY <2>2, <2>3, <2>4
<1>11. CASE k = "read" /\ ~NoAtime
  <2>1. Script(k) = Read
    BY <1>11 DEF Script
  <2>2. /\ Len(Script(k)) = 10
        /\ Script(k)[1] = "data"
        /\ Script(k)[2] = "hget"
        /\ Script(k)[3] = "select"
        /\ Script(k)[4] = "fill"
        /\ Script(k)[5] = "hset"
        /\ Script(k)[6] = "flag"
        /\ Script(k)[7] = "update"
        /\ Script(k)[8] = "commit"
        /\ Script(k)[9] = "peek"
        /\ Script(k)[10] = "markRead"
    BY <1>11, <2>1 DEF Read, ReadMeta, WriteMeta
  <2>3. /\ HgetAt(k) = 2 /\ CommitAt(k) = 8 /\ Last(k) = 10
        /\ Reads(k) /\ Updates(k) /\ HsetAt(k) = 5
    BY <1>11 DEF HgetAt, CommitAt, Last, Reads, Updates, HsetAt
  <2>4. ASSUME StepAt(k, n, s)
        PROVE  Found(k, n, s)
    <3>1. \/ n = 1 /\ s = "data"
          \/ n = 2 /\ s = "hget"
          \/ n = 3 /\ s = "select"
          \/ n = 4 /\ s = "fill"
          \/ n = 5 /\ s = "hset"
          \/ n = 6 /\ s = "flag"
          \/ n = 7 /\ s = "update"
          \/ n = 8 /\ s = "commit"
          \/ n = 9 /\ s = "peek"
          \/ n = 10 /\ s = "markRead"
      BY <2>2, <2>4 DEF StepAt
    <3> QED BY <1>11, <2>3, <3>1 DEF Found
  <2> QED BY <2>2, <2>3, <2>4
<1> QED BY <1>1, <1>2, <1>3, <1>4, <1>5, <1>6, <1>7, <1>8, <1>9, <1>10, <1>11 DEF Kinds

-------------------------------------------------------------------------------
(* Where the handler is.                                                     *)

\* The places of the steps, as numbers.
LEMMA Places ==
  ASSUME NEW k \in Kinds
  PROVE  /\ HgetAt(k) \in 1 .. 3 /\ HsetAt(k) \in {4, 5, 8}
         /\ CommitAt(k) \in 2 .. 11 /\ Last(k) \in 4 .. 11
         /\ Updates(k) => Reads(k) /\ CommitAt(k) = HsetAt(k) + 3 /\ HgetAt(k) + 3 <= HsetAt(k)
         /\ ~Updates(k) => k \in Plain /\ CommitAt(k) <= 4
         /\ Reads(k) /\ ~Updates(k) => k = "getattr"
         /\ k = "getattr" => Reads(k) /\ ~Updates(k) /\ HgetAt(k) = 1 /\ CommitAt(k) = 4
         /\ k = "release" => Updates(k) /\ HgetAt(k) = 3 /\ HsetAt(k) = 8
         /\ k = "read" => Last(k) = CommitAt(k) + 2 /\ HgetAt(k) = 2 /\ HsetAt(k) = 5
         /\ k = "write" => Updates(k) /\ HgetAt(k) = 1 /\ HsetAt(k) = 5 /\ Last(k) = 10
         /\ k \in {"truncate", "ftruncate"} => Updates(k) /\ HgetAt(k) = 1 /\ HsetAt(k) = 5
         /\ k \notin {"read", "write"} => Last(k) = CommitAt(k)
  BY DEF Kinds, Plain, HgetAt, HsetAt, CommitAt, Last, Reads, Updates

\* A handler that comes to a step is where the step is.
LEMMA Position ==
  ASSUME NEW w \in Workers, TypeOK, NEW s, Comes(w, s)
  PROVE  /\ Busy(w) /\ op[w] \in Requests /\ Kind(w) \in Kinds /\ at[w] \in 1 .. 13
         /\ Found(Kind(w), at[w], s)
<1>1. Busy(w) /\ op[w] \in Requests /\ at[w] \in 1 .. 13
  BY DEF Comes, Busy, TypeOK
<1>2. Kind(w) \in Kinds
  BY <1>1, RequestFacts DEF Kind
<1>3. StepAt(Kind(w), at[w], s)
  BY DEF Comes, StepAt, Kind
<1> QED BY <1>1, <1>2, <1>3, Positions

\* pgfuse_release after its DEL: what it has is nowhere else.
LEMMA DroppedIsExposed ==
  ASSUME NEW w \in Workers, TypeOK, Dropped(w)
  PROVE  Exposed(w)
<1>1. Len(Release) = 11 /\ Release[7] = "del"
  BY DEF Release, ReadMeta, WriteMeta
<1>2. at[w] \in 8 .. 11 /\ Busy(w) /\ op[w].kind = "release"
  BY DEF Dropped, Kind
<1>3. 7 \in 1 .. (at[w] - 1)
  BY <1>2
<1> QED BY <1>1, <1>2, <1>3 DEF Exposed

\* What a request makes of the attributes that are allowed.
LEMMA AfterFacts ==
  ASSUME NEW w \in Workers, TypeOK, Busy(w)
  PROVE  /\ After(w) \subseteq Metas /\ After(w) # {}
         /\ Kind(w) \in Plain => After(w) = allowed
         /\ \A m \in allowed : Change(op[w], m) \in After(w)
<1>1. op[w] \in Requests /\ allowed \subseteq Metas /\ allowed # {}
  BY DEF Busy, TypeOK
<1> QED BY <1>1, ChangeFacts DEF After, Kind

\* While the request lasts it stays the same.
LEMMA SameRequest ==
  ASSUME NEW w \in Workers, op' = op
  PROVE  /\ Busy(w)' = Busy(w) /\ Kind(w)' = Kind(w)
         /\ allowed' = allowed => After(w)' = After(w)
  BY DEF Busy, Kind, After

-------------------------------------------------------------------------------
(* The steps of a handler keep the invariant.                                *)

LEMMA HitKeeps ==
  ASSUME NEW w, Workers = {w}, MInv(w), Hit(w)
  PROVE  MInv(w)'
<1> DEFINE k == Kind(w)
<1>1. /\ w \in Workers /\ TypeOK /\ InScript(w) /\ Busy(w) /\ op[w] \in Requests
      /\ k \in Kinds /\ at[w] \in 1 .. 13
      /\ Reads(k) /\ at[w] = HgetAt(k)
  BY Position DEF Hit, Found, MInv
<1>2. Busy(w)' = Busy(w) /\ Kind(w)' = Kind(w) /\ After(w)' = After(w)
  BY <1>1, SameRequest DEF Hit, Rest, ghostVars
<1>3. at'[w] = at[w] + 3
  BY <1>1 DEF Hit, Advance, TypeOK
<1>4. /\ ~Holding(w) /\ ~Changing(w) /\ ~Changed(w) /\ ~Dropped(w)
      /\ Holding(w)' /\ ~Changing(w)' /\ ~Changed(w)' /\ ~Dropped(w)'
  BY <1>1, <1>2, <1>3, Places DEF Holding, Changing, Changed, Dropped
<1>5. TypeOK'
  BY <1>1, <1>3, Places DEF TypeOK, InScript, Hit, Advance, Rest, ghostVars
<1>6. InScript(w)'
  BY <1>1, <1>2, <1>3, <1>4, <1>5, Places, RequestFacts DEF InScript, TypeOK, Hit, Rest, ghostVars
<1>7. ASSUME ~lost'
      PROVE  Kept(w)'
  <2>1. Kept(w)
    BY <1>7 DEF Hit, MInv, Rest, ghostVars
  <2> QED BY <1>1, <1>2, <1>3, <1>4, <1>5, <2>1, Places, RequestFacts DEF InScript, Kept, Fresh, Current, TypeOK, Hit, Rest, ghostVars
<1>8. ASSUME ~lost', failures' = 0, crashes' = 0
      PROVE  Told(w)'
  <2>1. Told(w)
    BY <1>8 DEF Hit, MInv, Rest, ghostVars
  <2> QED BY <1>1, <1>2, <1>3, <2>1, Places DEF Told, TypeOK, Hit, Rest, ghostVars
<1> QED BY <1>5, <1>6, <1>7, <1>8 DEF MInv

LEMMA MissKeeps ==
  ASSUME NEW w, Workers = {w}, MInv(w), Miss(w)
  PROVE  MInv(w)'
<1> DEFINE k == Kind(w)
<1>1. /\ w \in Workers /\ TypeOK /\ InScript(w) /\ Busy(w) /\ op[w] \in Requests
      /\ k \in Kinds /\ at[w] \in 1 .. 13
      /\ Reads(k) /\ at[w] = HgetAt(k)
  BY Position DEF Miss, Found, MInv
<1>2. Busy(w)' = Busy(w) /\ Kind(w)' = Kind(w) /\ After(w)' = After(w)
  BY <1>1, SameRequest DEF Miss, Rest, ghostVars
<1>3. at'[w] = at[w] + 1
  BY <1>1 DEF Miss, Advance, TypeOK
<1>4. /\ ~Holding(w) /\ ~Changing(w) /\ ~Changed(w) /\ ~Dropped(w)
      /\ ~Holding(w)' /\ ~Changing(w)' /\ ~Changed(w)' /\ ~Dropped(w)'
  BY <1>1, <1>2, <1>3, Places DEF Holding, Changing, Changed, Dropped
<1>5. TypeOK'
  BY <1>1, <1>3, Places DEF TypeOK, InScript, Miss, Advance, Rest, ghostVars
<1>6. InScript(w)'
  BY <1>1, <1>2, <1>3, <1>4, <1>5, Places, RequestFacts DEF InScript, TypeOK, Miss, Rest, ghostVars
<1>7. ASSUME ~lost'
      PROVE  Kept(w)'
  <2>1. Kept(w)
    BY <1>7 DEF Miss, MInv, Rest, ghostVars
  <2> QED BY <1>1, <1>2, <1>3, <1>4, <1>5, <2>1, Places, RequestFacts DEF InScript, Kept, Fresh, Current, TypeOK, Miss, Rest, ghostVars
<1>8. ASSUME ~lost', failures' = 0, crashes' = 0
      PROVE  Told(w)'
  <2>1. Told(w)
    BY <1>8 DEF Miss, MInv, Rest, ghostVars
  <2> QED BY <1>1, <1>2, <1>3, <2>1, Places DEF Told, TypeOK, Miss, Rest, ghostVars
<1> QED BY <1>5, <1>6, <1>7, <1>8 DEF MInv

LEMMA SelectKeeps ==
  ASSUME NEW w, Workers = {w}, MInv(w), Select(w)
  PROVE  MInv(w)'
<1> DEFINE k == Kind(w)
<1>1. /\ w \in Workers /\ TypeOK /\ InScript(w) /\ Busy(w) /\ op[w] \in Requests
      /\ k \in Kinds /\ at[w] \in 1 .. 13
      /\ Reads(k) /\ at[w] = HgetAt(k) + 1
  BY Position DEF Select, Found, MInv
<1>2. Busy(w)' = Busy(w) /\ Kind(w)' = Kind(w) /\ After(w)' = After(w)
  BY <1>1, SameRequest DEF Select, Rest, ghostVars
<1>3. at'[w] = at[w] + 1
  BY <1>1 DEF Select, Advance, TypeOK
<1>4. /\ ~Holding(w) /\ ~Changing(w) /\ ~Changed(w) /\ ~Dropped(w)
      /\ Holding(w)' /\ ~Changing(w)' /\ ~Changed(w)' /\ ~Dropped(w)'
  BY <1>1, <1>2, <1>3, Places DEF Holding, Changing, Changed, Dropped
<1>5. TypeOK'
  BY <1>1, <1>3, Places DEF TypeOK, InScript, Select, Advance, Rest, ghostVars
<1>6. InScript(w)'
  BY <1>1, <1>2, <1>3, <1>4, <1>5, Places, RequestFacts DEF InScript, TypeOK, Select, Rest, ghostVars
<1>7. ASSUME ~lost'
      PROVE  Kept(w)'
  <2>1. Kept(w)
    BY <1>7 DEF Select, MInv, Rest, ghostVars
  <2> QED BY <1>1, <1>2, <1>3, <1>4, <1>5, <2>1, Places, RequestFacts DEF InScript, Kept, Fresh, Current, TypeOK, Select, Rest, ghostVars
<1>8. ASSUME ~lost', failures' = 0, crashes' = 0
      PROVE  Told(w)'
  <2>1. Told(w)
    BY <1>8 DEF Select, MInv, Rest, ghostVars
  <2> QED BY <1>1, <1>2, <1>3, <2>1, Places DEF Told, TypeOK, Select, Rest, ghostVars
<1> QED BY <1>5, <1>6, <1>7, <1>8 DEF MInv

LEMMA FillKeeps ==
  ASSUME NEW w, Workers = {w}, MInv(w), Fill(w)
  PROVE  MInv(w)'
<1> DEFINE k == Kind(w)
<1>1. /\ w \in Workers /\ TypeOK /\ InScript(w) /\ Busy(w) /\ op[w] \in Requests
      /\ k \in Kinds /\ at[w] \in 1 .. 13
      /\ Reads(k) /\ at[w] = HgetAt(k) + 2
  BY Position DEF Fill, Found, MInv
<1>2. Busy(w)' = Busy(w) /\ Kind(w)' = Kind(w) /\ After(w)' = After(w)
  BY <1>1, SameRequest DEF Fill, Rest, ghostVars
<1>3. at'[w] = at[w] + 1
  BY <1>1 DEF Fill, Advance, TypeOK
<1>4. /\ Holding(w) /\ ~Changing(w) /\ ~Changed(w) /\ ~Dropped(w)
      /\ Holding(w)' /\ ~Changing(w)' /\ ~Changed(w)' /\ ~Dropped(w)'
  BY <1>1, <1>2, <1>3, Places DEF Holding, Changing, Changed, Dropped
<1>5. TypeOK'
  BY <1>1, <1>3, Places DEF TypeOK, InScript, Fill, Advance, Rest, ghostVars
<1>6. InScript(w)'
  BY <1>1, <1>2, <1>3, <1>4, <1>5, Places, RequestFacts DEF InScript, TypeOK, Fill, Rest, ghostVars
<1>7. ASSUME ~lost'
      PROVE  Kept(w)'
  <2>1. Kept(w)
    BY <1>7 DEF Fill, MInv, Rest, ghostVars
  <2> QED BY <1>1, <1>2, <1>3, <1>4, <1>5, <2>1, Places, RequestFacts DEF InScript, Kept, Fresh, Current, TypeOK, Fill, Rest, ghostVars
<1>8. ASSUME ~lost', failures' = 0, crashes' = 0
      PROVE  Told(w)'
  <2>1. Told(w)
    BY <1>8 DEF Fill, MInv, Rest, ghostVars
  <2> QED BY <1>1, <1>2, <1>3, <2>1, Places DEF Told, TypeOK, Fill, Rest, ghostVars
<1> QED BY <1>5, <1>6, <1>7, <1>8 DEF MInv

LEMMA DataKeeps ==
  ASSUME NEW w, Workers = {w}, MInv(w), Data(w)
  PROVE  MInv(w)'
<1> DEFINE k == Kind(w)
<1>1. /\ w \in Workers /\ TypeOK /\ InScript(w) /\ Busy(w) /\ op[w] \in Requests
      /\ k \in Kinds /\ at[w] \in 1 .. 13
      /\ \/ k \in {"write", "truncate", "ftruncate"} /\ at[w] = 4
         \/ k = "read" /\ at[w] = 1
  BY Position DEF Data, Found, MInv
<1>2. Busy(w)' = Busy(w) /\ Kind(w)' = Kind(w) /\ After(w)' = After(w)
  BY <1>1, SameRequest DEF Data, Rest, ghostVars
<1>3. at'[w] = at[w] + 1
  BY <1>1 DEF Data, Advance, TypeOK
<1>4. /\ ~Changing(w) /\ ~Changed(w) /\ ~Dropped(w)
      /\ ~Changing(w)' /\ ~Changed(w)' /\ ~Dropped(w)' /\ (Holding(w)' <=> Holding(w))
  BY <1>1, <1>2, <1>3, Places DEF Holding, Changing, Changed, Dropped
<1>5. TypeOK'
  BY <1>1, <1>3, Places DEF TypeOK, InScript, Data, Advance, Rest, ghostVars
<1>6. InScript(w)'
  BY <1>1, <1>2, <1>3, <1>4, <1>5, Places, RequestFacts DEF InScript, TypeOK, Data, Rest, ghostVars
<1>7. ASSUME ~lost'
      PROVE  Kept(w)'
  <2>1. Kept(w)
    BY <1>7 DEF Data, MInv, Rest, ghostVars
  <2> QED BY <1>1, <1>2, <1>3, <1>4, <1>5, <2>1, Places, RequestFacts DEF InScript, Kept, Fresh, Current, TypeOK, Data, Rest, ghostVars
<1>8. ASSUME ~lost', failures' = 0, crashes' = 0
      PROVE  Told(w)'
  <2>1. Told(w)
    BY <1>8 DEF Data, MInv, Rest, ghostVars
  <2> QED BY <1>1, <1>2, <1>3, <2>1, Places DEF Told, TypeOK, Data, Rest, ghostVars
<1> QED BY <1>5, <1>6, <1>7, <1>8 DEF MInv

LEMMA HsetKeeps ==
  ASSUME NEW w, Workers = {w}, MInv(w), Hset(w)
  PROVE  MInv(w)'
<1> DEFINE k == Kind(w)
<1>1. /\ w \in Workers /\ TypeOK /\ InScript(w) /\ Busy(w) /\ op[w] \in Requests
      /\ k \in Kinds /\ at[w] \in 1 .. 13
      /\ Updates(k) /\ at[w] = HsetAt(k)
  BY Position DEF Hset, Found, MInv
<1>2. Busy(w)' = Busy(w) /\ Kind(w)' = Kind(w) /\ After(w)' = After(w)
  BY <1>1, SameRequest DEF Hset, Rest, ghostVars
<1>3. at'[w] = at[w] + 1
  BY <1>1 DEF Hset, Advance, TypeOK
<1>4. /\ Holding(w) /\ ~Changing(w) /\ ~Changed(w)
      /\ ~Holding(w)' /\ Changing(w)' /\ ~Changed(w)' /\ (Dropped(w)' <=> Dropped(w))
  BY <1>1, <1>2, <1>3, Places DEF Holding, Changing, Changed, Dropped
<1>5. meta[w] \in Metas /\ Change(op[w], meta[w]) \in Metas
  BY <1>1, <1>4, ChangeFacts DEF InScript, TypeOK
<1>6. TypeOK'
  BY <1>1, <1>3, <1>5, Places DEF TypeOK, InScript, Hset, Advance, Rest, ghostVars
<1>7. InScript(w)'
  BY <1>1, <1>2, <1>3, <1>4, <1>6, <1>5, Places, RequestFacts DEF InScript, TypeOK, Hset, Rest, ghostVars
<1>8. ASSUME ~lost'
      PROVE  Kept(w)'
  <2>1. Kept(w)
    BY <1>8 DEF Hset, MInv, Rest, ghostVars
  <2> QED BY <1>1, <1>2, <1>3, <1>4, <1>6, <1>5, <2>1, Places, RequestFacts, AfterFacts, ChangeFacts DEF InScript, Kept, Fresh, Current, TypeOK, Hset, Rest, ghostVars
<1>9. ASSUME ~lost', failures' = 0, crashes' = 0
      PROVE  Told(w)'
  <2>1. Told(w)
    BY <1>9 DEF Hset, MInv, Rest, ghostVars
  <2> QED BY <1>1, <1>2, <1>3, <2>1, Places DEF Told, TypeOK, Hset, Rest, ghostVars
<1> QED BY <1>6, <1>7, <1>8, <1>9 DEF MInv

LEMMA FlagKeeps ==
  ASSUME NEW w, Workers = {w}, MInv(w), Flag(w)
  PROVE  MInv(w)'
<1> DEFINE k == Kind(w)
<1>1. /\ w \in Workers /\ TypeOK /\ InScript(w) /\ Busy(w) /\ op[w] \in Requests
      /\ k \in Kinds /\ at[w] \in 1 .. 13
      /\ Updates(k) /\ at[w] = HsetAt(k) + 1
  BY Position DEF Flag, Found, MInv
<1>2. Busy(w)' = Busy(w) /\ Kind(w)' = Kind(w) /\ After(w)' = After(w)
  BY <1>1, SameRequest DEF Flag, Rest, ghostVars
<1>3. at'[w] = IF redis.event = 0 THEN at[w] + 1 ELSE at[w] + 2
  BY <1>1 DEF Flag, Advance, TypeOK
<1>4. /\ ~Holding(w) /\ Changing(w) /\ ~Changed(w)
      /\ ~Holding(w)' /\ Changing(w)' /\ ~Changed(w)' /\ (Dropped(w)' <=> Dropped(w))
  BY <1>1, <1>2, <1>3, Places DEF Holding, Changing, Changed, Dropped
<1>5. TypeOK'
  BY <1>1, <1>3, Places DEF TypeOK, InScript, Flag, Advance, Rest, ghostVars
<1>6. InScript(w)'
  BY <1>1, <1>2, <1>3, <1>4, <1>5, Places, RequestFacts DEF InScript, TypeOK, Flag, Rest, ghostVars
<1>7. ASSUME ~lost'
      PROVE  Kept(w)'
  <2>1. Kept(w)
    BY <1>7 DEF Flag, MInv, Rest, ghostVars
  <2> QED BY <1>1, <1>2, <1>3, <1>4, <1>5, <2>1, Places, RequestFacts DEF InScript, Kept, Fresh, Current, TypeOK, Flag, Rest, ghostVars
<1>8. ASSUME ~lost', failures' = 0, crashes' = 0
      PROVE  Told(w)'
  <2>1. Told(w)
    BY <1>8 DEF Flag, MInv, Rest, ghostVars
  <2> QED BY <1>1, <1>2, <1>3, <2>1, Places DEF Told, TypeOK, Flag, Rest, ghostVars
<1> QED BY <1>5, <1>6, <1>7, <1>8 DEF MInv

LEMMA UpdateKeeps ==
  ASSUME NEW w, Workers = {w}, MInv(w), Update(w)
  PROVE  MInv(w)'
<1> DEFINE k == Kind(w)
<1>1. /\ w \in Workers /\ TypeOK /\ InScript(w) /\ Busy(w) /\ op[w] \in Requests
      /\ k \in Kinds /\ at[w] \in 1 .. 13
      /\ Updates(k) /\ at[w] = HsetAt(k) + 2
  BY Position DEF Update, Found, MInv
<1>2. Busy(w)' = Busy(w) /\ Kind(w)' = Kind(w) /\ After(w)' = After(w)
  BY <1>1, SameRequest DEF Update, Rest, ghostVars
<1>3. at'[w] = at[w] + 1
  BY <1>1 DEF Update, Advance, TypeOK
<1>4. /\ ~Holding(w) /\ Changing(w) /\ ~Changed(w)
      /\ ~Holding(w)' /\ Changing(w)' /\ ~Changed(w)' /\ (Dropped(w)' <=> Dropped(w))
  BY <1>1, <1>2, <1>3, Places DEF Holding, Changing, Changed, Dropped
<1>5. TypeOK'
  BY <1>1, <1>3, Places DEF TypeOK, InScript, Update, Advance, Rest, ghostVars
<1>6. InScript(w)'
  BY <1>1, <1>2, <1>3, <1>4, <1>5, Places, RequestFacts DEF InScript, TypeOK, Update, Rest, ghostVars
<1>7. ASSUME ~lost'
      PROVE  Kept(w)'
  <2>1. Kept(w)
    BY <1>7 DEF Update, MInv, Rest, ghostVars
  <2> QED BY <1>1, <1>2, <1>3, <1>4, <1>5, <2>1, Places, RequestFacts DEF InScript, Kept, Fresh, Current, TypeOK, Update, Rest, ghostVars
<1>8. ASSUME ~lost', failures' = 0, crashes' = 0
      PROVE  Told(w)'
  <2>1. Told(w)
    BY <1>8 DEF Update, MInv, Rest, ghostVars
  <2> QED BY <1>1, <1>2, <1>3, <2>1, Places DEF Told, TypeOK, Update, Rest, ghostVars
<1> QED BY <1>5, <1>6, <1>7, <1>8 DEF MInv

LEMMA CommitKeeps ==
  ASSUME NEW w, Workers = {w}, MInv(w), Commit(w)
  PROVE  MInv(w)'
<1> DEFINE k == Kind(w)
<1>1. /\ w \in Workers /\ TypeOK /\ InScript(w) /\ Busy(w) /\ op[w] \in Requests
      /\ k \in Kinds /\ at[w] \in 1 .. 13
      /\ at[w] = CommitAt(k)
  BY Position DEF Commit, Found, MInv
<1>2. Busy(w)' = Busy(w) /\ Kind(w)' = Kind(w) /\ After(w)' = After(w)
  BY <1>1, SameRequest DEF Commit, Rest, ghostVars
<1>3. at'[w] = at[w] + 1
  BY <1>1 DEF Commit, Advance, TypeOK
<1>4. /\ (Updates(k) <=> Changing(w)) /\ ~Changed(w) /\ (Dropped(w) => Changing(w))
      /\ ~Holding(w)' /\ ~Changing(w)' /\ ~Dropped(w)' /\ (Changed(w)' <=> Changing(w))
  BY <1>1, <1>2, <1>3, Places DEF Holding, Changing, Changed, Dropped
<1>5. TypeOK'
  BY <1>1, <1>3, Places DEF TypeOK, InScript, Commit, Advance, Rest, ghostVars
<1>6. InScript(w)'
  BY <1>1, <1>2, <1>3, <1>4, <1>5, Places, RequestFacts DEF InScript, TypeOK, Commit, Rest, ghostVars
<1>7. ASSUME ~lost'
      PROVE  Kept(w)'
  <2>1. Kept(w)
    BY <1>7 DEF Commit, MInv, Rest, ghostVars
  <2> QED BY <1>1, <1>2, <1>3, <1>4, <1>5, <2>1, Places, RequestFacts DEF InScript, Kept, Fresh, Current, TypeOK, Commit, Rest, ghostVars
<1>8. ASSUME ~lost', failures' = 0, crashes' = 0
      PROVE  Told(w)'
  <2>1. Told(w)
    BY <1>8 DEF Commit, MInv, Rest, ghostVars
  <2> QED BY <1>1, <1>2, <1>3, <2>1, Places DEF Told, TypeOK, Commit, Rest, ghostVars
<1> QED BY <1>5, <1>6, <1>7, <1>8 DEF MInv

LEMMA MarkWrittenKeeps ==
  ASSUME NEW w, Workers = {w}, MInv(w), MarkWritten(w)
  PROVE  MInv(w)'
<1> DEFINE k == Kind(w)
<1>1. /\ w \in Workers /\ TypeOK /\ InScript(w) /\ Busy(w) /\ op[w] \in Requests
      /\ k \in Kinds /\ at[w] \in 1 .. 13
      /\ k = "write" /\ at[w] = 9
  BY Position DEF MarkWritten, Found, MInv
<1>2. Busy(w)' = Busy(w) /\ Kind(w)' = Kind(w) /\ After(w)' = After(w)
  BY <1>1, SameRequest DEF MarkWritten, Rest, ghostVars
<1>3. at'[w] = at[w] + 1
  BY <1>1 DEF MarkWritten, Advance, TypeOK
<1>4. /\ ~Holding(w) /\ ~Changing(w) /\ Changed(w) /\ ~Dropped(w)
      /\ ~Holding(w)' /\ ~Changing(w)' /\ Changed(w)' /\ ~Dropped(w)'
  BY <1>1, <1>2, <1>3, Places DEF Holding, Changing, Changed, Dropped
<1>5. TypeOK'
  BY <1>1, <1>3, Places DEF TypeOK, InScript, MarkWritten, Advance, Rest, ghostVars
<1>6. InScript(w)'
  BY <1>1, <1>2, <1>3, <1>4, <1>5, Places, RequestFacts DEF InScript, TypeOK, MarkWritten, Rest, ghostVars
<1>7. ASSUME ~lost'
      PROVE  Kept(w)'
  <2>1. Kept(w)
    BY <1>7 DEF MarkWritten, MInv, Rest, ghostVars
  <2> QED BY <1>1, <1>2, <1>3, <1>4, <1>5, <2>1, Places, RequestFacts DEF InScript, Kept, Fresh, Current, TypeOK, MarkWritten, Rest, ghostVars
<1>8. ASSUME ~lost', failures' = 0, crashes' = 0
      PROVE  Told(w)'
  <2>1. Told(w)
    BY <1>8 DEF MarkWritten, MInv, Rest, ghostVars
  <2> QED BY <1>1, <1>2, <1>3, <2>1, Places DEF Told, InScript, OnHandle, TypeOK, MarkWritten, Rest, ghostVars
<1> QED BY <1>5, <1>6, <1>7, <1>8 DEF MInv

LEMMA SignKeeps ==
  ASSUME NEW w, Workers = {w}, MInv(w), Sign(w)
  PROVE  MInv(w)'
<1> DEFINE k == Kind(w)
<1>1. /\ w \in Workers /\ TypeOK /\ InScript(w) /\ Busy(w) /\ op[w] \in Requests
      /\ k \in Kinds /\ at[w] \in 1 .. 13
      /\ k = "write" /\ at[w] = 10
  BY Position DEF Sign, Found, MInv
<1>2. Busy(w)' = Busy(w) /\ Kind(w)' = Kind(w) /\ After(w)' = After(w)
  BY <1>1, SameRequest DEF Sign, Rest, ghostVars
<1>3. at'[w] = at[w] + 1
  BY <1>1 DEF Sign, Advance, TypeOK
<1>4. /\ ~Holding(w) /\ ~Changing(w) /\ Changed(w) /\ ~Dropped(w)
      /\ ~Holding(w)' /\ ~Changing(w)' /\ Changed(w)' /\ ~Dropped(w)'
  BY <1>1, <1>2, <1>3, Places DEF Holding, Changing, Changed, Dropped
<1>5. TypeOK'
  BY <1>1, <1>3, Places, RequestFacts DEF TypeOK, InScript, Kind, Sign, Advance, Rest, ghostVars
<1>6. InScript(w)'
  BY <1>1, <1>2, <1>3, <1>4, <1>5, Places, RequestFacts DEF InScript, TypeOK, Sign, Rest, ghostVars
<1>7. ASSUME ~lost'
      PROVE  Kept(w)'
  <2>1. Kept(w)
    BY <1>7 DEF Sign, MInv, Rest, ghostVars
  <2> QED BY <1>1, <1>2, <1>3, <1>4, <1>5, <2>1, Places, RequestFacts DEF InScript, Kept, Fresh, Current, TypeOK, Sign, Rest, ghostVars
<1>8. ASSUME ~lost', failures' = 0, crashes' = 0
      PROVE  Told(w)'
  <2>1. Told(w)
    BY <1>8 DEF Sign, MInv, Rest, ghostVars
  <2> QED BY <1>1, <1>2, <1>3, <2>1, Places DEF Told, TypeOK, Sign, Rest, ghostVars
<1> QED BY <1>5, <1>6, <1>7, <1>8 DEF MInv

LEMMA MarkReadKeeps ==
  ASSUME NEW w, Workers = {w}, MInv(w), MarkRead(w)
  PROVE  MInv(w)'
<1> DEFINE k == Kind(w)
<1>1. /\ w \in Workers /\ TypeOK /\ InScript(w) /\ Busy(w) /\ op[w] \in Requests
      /\ k \in Kinds /\ at[w] \in 1 .. 13
      /\ k = "read" /\ at[w] = CommitAt(k) + 2
  BY Position DEF MarkRead, Found, MInv
<1>2. Busy(w)' = Busy(w) /\ Kind(w)' = Kind(w) /\ After(w)' = After(w)
  BY <1>1, SameRequest DEF MarkRead, Rest, ghostVars
<1>3. at'[w] = at[w] + 1
  BY <1>1 DEF MarkRead, Advance, TypeOK
<1>4. /\ ~Holding(w) /\ ~Changing(w) /\ ~Dropped(w)
      /\ ~Holding(w)' /\ ~Changing(w)' /\ ~Dropped(w)' /\ (Changed(w)' <=> Changed(w))
  BY <1>1, <1>2, <1>3, Places DEF Holding, Changing, Changed, Dropped
<1>5. TypeOK'
  BY <1>1, <1>3, Places DEF TypeOK, InScript, MarkRead, Advance, Rest, ghostVars
<1>6. InScript(w)'
  BY <1>1, <1>2, <1>3, <1>4, <1>5, Places, RequestFacts DEF InScript, TypeOK, MarkRead, Rest, ghostVars
<1>7. ASSUME ~lost'
      PROVE  Kept(w)'
  <2>1. Kept(w)
    BY <1>7 DEF MarkRead, MInv, Rest, ghostVars
  <2> QED BY <1>1, <1>2, <1>3, <1>4, <1>5, <2>1, Places, RequestFacts DEF InScript, Kept, Fresh, Current, TypeOK, MarkRead, Rest, ghostVars
<1>8. ASSUME ~lost', failures' = 0, crashes' = 0
      PROVE  Told(w)'
  <2>1. Told(w)
    BY <1>8 DEF MarkRead, MInv, Rest, ghostVars
  <2> QED BY <1>1, <1>2, <1>3, <2>1, Places DEF Told, InScript, OnHandle, TypeOK, MarkRead, Rest, ghostVars
<1> QED BY <1>5, <1>6, <1>7, <1>8 DEF MInv

LEMMA PeekKeeps ==
  ASSUME NEW w, Workers = {w}, MInv(w), Peek(w)
  PROVE  MInv(w)'
<1> DEFINE k == Kind(w)
<1>1. /\ w \in Workers /\ TypeOK /\ InScript(w) /\ Busy(w) /\ op[w] \in Requests
      /\ k \in Kinds /\ at[w] \in 1 .. 13
      /\ \/ k = "release" /\ at[w] = 2
         \/ k = "read" /\ at[w] = CommitAt(k) + 1
  BY Position DEF Peek, Found, MInv
<1>2. Busy(w)' = Busy(w) /\ Kind(w)' = Kind(w) /\ After(w)' = After(w)
  BY <1>1, SameRequest DEF Peek, Rest, ghostVars
<1>3. at'[w] = at[w] + 1
  BY <1>1 DEF Peek, Advance, TypeOK
<1>4. /\ ~Holding(w) /\ ~Changing(w) /\ ~Dropped(w)
      /\ ~Holding(w)' /\ ~Changing(w)' /\ ~Dropped(w)' /\ (Changed(w)' <=> Changed(w))
  BY <1>1, <1>2, <1>3, Places DEF Holding, Changing, Changed, Dropped
<1>5. TypeOK'
  BY <1>1, <1>3, Places DEF TypeOK, InScript, Peek, Advance, Rest, ghostVars
<1>6. InScript(w)'
  BY <1>1, <1>2, <1>3, <1>4, <1>5, Places, RequestFacts DEF InScript, TypeOK, Peek, Rest, ghostVars
<1>7. ASSUME ~lost'
      PROVE  Kept(w)'
  <2>1. Kept(w)
    BY <1>7 DEF Peek, MInv, Rest, ghostVars
  <2> QED BY <1>1, <1>2, <1>3, <1>4, <1>5, <2>1, Places, RequestFacts DEF InScript, Kept, Fresh, Current, TypeOK, Peek, Rest, ghostVars
<1>8. ASSUME ~lost', failures' = 0, crashes' = 0
      PROVE  Told(w)'
  <2>1. Told(w)
    BY <1>8 DEF Peek, MInv, Rest, ghostVars
  <2> QED BY <1>1, <1>2, <1>3, <2>1, Places DEF Told, TypeOK, Peek, Rest, ghostVars
<1> QED BY <1>5, <1>6, <1>7, <1>8 DEF MInv

LEMMA SignerKeeps ==
  ASSUME NEW w, Workers = {w}, MInv(w), Signer(w)
  PROVE  MInv(w)'
<1> DEFINE k == Kind(w)
<1>1. /\ w \in Workers /\ TypeOK /\ InScript(w) /\ Busy(w) /\ op[w] \in Requests
      /\ k \in Kinds /\ at[w] \in 1 .. 13
      /\ k = "release" /\ at[w] = 1
  BY Position DEF Signer, Found, MInv
<1>2. Busy(w)' = Busy(w) /\ Kind(w)' = Kind(w) /\ After(w)' = After(w)
  BY <1>1, SameRequest DEF Signer, Rest, ghostVars
<1>3. at'[w] = at[w] + 1
  BY <1>1 DEF Signer, Advance, TypeOK
<1>4. /\ ~Holding(w) /\ ~Changing(w) /\ ~Changed(w) /\ ~Dropped(w)
      /\ ~Holding(w)' /\ ~Changing(w)' /\ ~Changed(w)' /\ ~Dropped(w)'
  BY <1>1, <1>2, <1>3, Places DEF Holding, Changing, Changed, Dropped
<1>5. TypeOK'
  BY <1>1, <1>3, Places DEF TypeOK, InScript, Signer, Advance, Rest, ghostVars
<1>6. InScript(w)'
  BY <1>1, <1>2, <1>3, <1>4, <1>5, Places, RequestFacts DEF InScript, TypeOK, Signer, Rest, ghostVars
<1>7. ASSUME ~lost'
      PROVE  Kept(w)'
  <2>1. Kept(w)
    BY <1>7 DEF Signer, MInv, Rest, ghostVars
  <2> QED BY <1>1, <1>2, <1>3, <1>4, <1>5, <2>1, Places, RequestFacts DEF InScript, Kept, Fresh, Current, TypeOK, Signer, Rest, ghostVars
<1>8. ASSUME ~lost', failures' = 0, crashes' = 0
      PROVE  Told(w)'
  <2>1. Told(w)
    BY <1>8 DEF Signer, MInv, Rest, ghostVars
  <2> QED BY <1>1, <1>2, <1>3, <2>1, Places DEF Told, TypeOK, Signer, Rest, ghostVars
<1> QED BY <1>5, <1>6, <1>7, <1>8 DEF MInv

LEMMA TellKeeps ==
  ASSUME NEW w, Workers = {w}, MInv(w), Tell(w)
  PROVE  MInv(w)'
<1> DEFINE k == Kind(w)
<1>1. /\ w \in Workers /\ TypeOK /\ InScript(w) /\ Busy(w) /\ op[w] \in Requests
      /\ k \in Kinds /\ at[w] \in 1 .. 13
      /\ k = "release" /\ at[w] = 6
  BY Position DEF Tell, Found, MInv
<1>2. Busy(w)' = Busy(w) /\ Kind(w)' = Kind(w) /\ After(w)' = After(w)
  BY <1>1, SameRequest DEF Tell, Rest, ghostVars
<1>3. at'[w] = at[w] + 1
  BY <1>1 DEF Tell, Advance, TypeOK
<1>4. /\ Holding(w) /\ ~Changing(w) /\ ~Changed(w) /\ ~Dropped(w)
      /\ Holding(w)' /\ ~Changing(w)' /\ ~Changed(w)' /\ ~Dropped(w)'
  BY <1>1, <1>2, <1>3, Places DEF Holding, Changing, Changed, Dropped
<1>5. TypeOK'
  BY <1>1, <1>3, Places DEF TypeOK, InScript, Tell, Advance, Rest, ghostVars
<1>6. InScript(w)'
  BY <1>1, <1>2, <1>3, <1>4, <1>5, Places, RequestFacts DEF InScript, TypeOK, Tell, Rest, ghostVars
<1>7. ASSUME ~lost'
      PROVE  Kept(w)'
  <2>1. Kept(w)
    BY <1>7 DEF Tell, MInv, Rest, ghostVars
  <2> QED BY <1>1, <1>2, <1>3, <1>4, <1>5, <2>1, Places, RequestFacts DEF InScript, Kept, Fresh, Current, TypeOK, Tell, Rest, ghostVars
<1>8. ASSUME ~lost', failures' = 0, crashes' = 0
      PROVE  Told(w)'
  <2>1. Told(w)
    BY <1>8 DEF Tell, MInv, Rest, ghostVars
  <2> QED BY <1>1, <1>2, <1>3, <2>1, Places DEF Told, TypeOK, Tell, Rest, ghostVars
<1> QED BY <1>5, <1>6, <1>7, <1>8 DEF MInv

LEMMA DelKeeps ==
  ASSUME NEW w, Workers = {w}, MInv(w), Del(w)
  PROVE  MInv(w)'
<1> DEFINE k == Kind(w)
<1>1. /\ w \in Workers /\ TypeOK /\ InScript(w) /\ Busy(w) /\ op[w] \in Requests
      /\ k \in Kinds /\ at[w] \in 1 .. 13
      /\ k = "release" /\ at[w] = 7
  BY Position DEF Del, Found, MInv
<1>2. Busy(w)' = Busy(w) /\ Kind(w)' = Kind(w) /\ After(w)' = After(w)
  BY <1>1, SameRequest DEF Del, Rest, ghostVars
<1>3. at'[w] = at[w] + 1
  BY <1>1 DEF Del, Advance, TypeOK
<1>4. /\ Holding(w) /\ ~Changing(w) /\ ~Changed(w) /\ ~Dropped(w)
      /\ Holding(w)' /\ ~Changing(w)' /\ ~Changed(w)' /\ Dropped(w)'
  BY <1>1, <1>2, <1>3, Places DEF Holding, Changing, Changed, Dropped
<1>5. TypeOK'
  BY <1>1, <1>3, Places, RequestFacts DEF TypeOK, InScript, Del, Advance, EmptyHash, Rest, ghostVars
<1>6. InScript(w)'
  BY <1>1, <1>2, <1>3, <1>4, <1>5, Places, RequestFacts DEF InScript, TypeOK, Del, EmptyHash, Rest, ghostVars
<1>7. ASSUME ~lost'
      PROVE  Kept(w)'
  <2>1. Kept(w)
    BY <1>7 DEF Del, MInv, Rest, ghostVars
  <2> QED BY <1>1, <1>2, <1>3, <1>4, <1>5, <2>1, Places, RequestFacts DEF InScript, Kept, Fresh, Current, TypeOK, Del, EmptyHash, Rest, ghostVars
<1>8. ASSUME ~lost', failures' = 0, crashes' = 0
      PROVE  Told(w)'
  <2>1. Told(w)
    BY <1>8 DEF Del, MInv, Rest, ghostVars
  <2> QED BY <1>1, <1>2, <1>3, <2>1, Places DEF Told, TypeOK, Del, EmptyHash, Rest, ghostVars
<1> QED BY <1>5, <1>6, <1>7, <1>8 DEF MInv

\* With one thread there is nothing else under way.
LEMMA Alone ==
  ASSUME NEW w, Workers = {w}, NEW kinds, ~Busy(w)
  PROVE  Cardinality(Running(kinds)) = 0
<1>1. Running(kinds) = {}
  BY DEF Running
<1> QED BY <1>1, FS_EmptySet

LEMMA StartKeeps ==
  ASSUME NEW w, Workers = {w}, MInv(w), NEW r \in Requests, Start(w, r)
  PROVE  MInv(w)'
<1>1. /\ w \in Workers /\ TypeOK /\ InScript(w) /\ ~Busy(w) /\ at[w] = 1
      /\ r.kind \in Kinds /\ r # NONE
  BY RequestFacts DEF Start, MInv, InScript
<1>2. op' = [op EXCEPT ![w] = r] /\ op'[w] = r /\ Busy(w)' /\ Kind(w)' = r.kind /\ at'[w] = 1
  BY <1>1 DEF Start, Busy, Kind, TypeOK
<1>3. /\ r.kind \in OnHandle => opens > 0
      /\ r.kind = "open" => opens < MaxOpens
      /\ r.kind = "release" => opens > 0
  <2>1. Cardinality(Running({"open"})) = 0
    BY <1>1, Alone
  <2> QED BY <1>1, <2>1 DEF Start, TypeOK
<1>4. /\ ~Holding(w) /\ ~Changing(w) /\ ~Changed(w) /\ ~Dropped(w)
      /\ ~Holding(w)' /\ ~Changing(w)' /\ ~Changed(w)' /\ ~Dropped(w)'
  BY <1>1, <1>2, Places DEF Holding, Changing, Changed, Dropped
<1>5. TypeOK'
  BY <1>1, <1>2, <1>3, MetaCacheAssumption DEF TypeOK, Start, ghostVars
<1>6. InScript(w)'
  BY <1>1, <1>2, <1>3, <1>4, Places DEF InScript, TypeOK, Start, ghostVars, OnHandle
<1>7. ~lost' => Kept(w)'
  BY <1>4 DEF MInv, Kept, Fresh, Current, Start, ghostVars
<1>8. ASSUME ~lost', failures' = 0, crashes' = 0
      PROVE  Told(w)'
  <2>1. Told(w)
    BY <1>8 DEF Start, MInv, ghostVars
  <2> QED BY <1>1, <1>2, <1>3, <2>1, Places DEF Told, TypeOK, Start, ghostVars
<1> QED BY <1>5, <1>6, <1>7, <1>8 DEF MInv

\* A handler that is over has nothing in hand.
LEMMA LeaveFacts ==
  ASSUME NEW w, Workers = {w}, TypeOK, Leave({w})
  PROVE  /\ ~Busy(w)' /\ at'[w] = 1 /\ tx'[w] = NONE
         /\ ~Holding(w)' /\ ~Changing(w)' /\ ~Changed(w)' /\ ~Dropped(w)'
         /\ op' \in [Workers -> Requests \cup {NONE}] /\ at' \in [Workers -> 1 .. 13]
         /\ meta' \in [Workers -> Metas \cup {NONE}] /\ ev' \in [Workers -> 0 .. 2]
         /\ signer' \in [Workers -> Uids \cup {NONE}] /\ tx' \in [Workers -> Metas \cup {NONE}]
<1>1. op'[w] = NONE /\ at'[w] = 1 /\ tx'[w] = NONE
  BY DEF Leave
<1>2. /\ op' \in [Workers -> Requests \cup {NONE}] /\ at' \in [Workers -> 1 .. 13]
      /\ meta' \in [Workers -> Metas \cup {NONE}] /\ ev' \in [Workers -> 0 .. 2]
      /\ signer' \in [Workers -> Uids \cup {NONE}] /\ tx' \in [Workers -> Metas \cup {NONE}]
  BY DEF Leave
<1> QED BY <1>1, <1>2 DEF Busy, Holding, Changing, Changed, Dropped

LEMMA ReturnKeeps ==
  ASSUME NEW w, Workers = {w}, MInv(w), Return(w)
  PROVE  MInv(w)'
<1> DEFINE k == Kind(w)
<1>1. /\ w \in Workers /\ TypeOK /\ InScript(w) /\ Busy(w) /\ op[w] \in Requests
      /\ k \in Kinds /\ at[w] \in 1 .. 13
  BY RequestFacts DEF MInv, Return, Busy, Kind, TypeOK
<1>2. at[w] = Last(k) + 1
  <2>1. Len(Script(k)) = Last(k)
    BY <1>1, Positions
  <2> QED BY <1>1, <2>1, Places DEF Return, InScript, Kind
<1>3. /\ ~Holding(w) /\ ~Changing(w) /\ ~Dropped(w)
      /\ Changed(w) <=> Updates(k)
  BY <1>1, <1>2, Places DEF Holding, Changing, Changed, Dropped
<1>4. allowed' = After(w) /\ allowed' \subseteq Metas /\ allowed' # {}
      /\ (~Updates(k) => allowed' = allowed)
  BY <1>1, AfterFacts, Places DEF Return, After
<1>5. opens' = IF k = "open" THEN opens + 1 ELSE opens
  BY DEF Return, Kind
<1>6. TypeOK'
  <2>1. opens' \in 0 .. MaxOpens
    BY <1>1, <1>5, MetaCacheAssumption DEF TypeOK, InScript
  <2>2. k = "write" => op[w].uid \in Uids
    BY <1>1, RequestFacts DEF Kind
  <2> QED BY <1>1, <1>4, <2>1, <2>2, LeaveFacts DEF TypeOK, Return, Kind
<1>7. InScript(w)'
  BY <1>1, LeaveFacts DEF InScript, Return
<1>8. ASSUME ~lost'
      PROVE  Kept(w)'
  <2>1. Kept(w)
    BY <1>8 DEF Return, MInv
  <2>2. Fresh(allowed)'
    BY <1>3, <1>4, <2>1 DEF Kept, Fresh, Current, Return
  <2> QED BY <1>1, <2>2, LeaveFacts DEF Kept, Return
<1>9. ASSUME ~lost', failures' = 0, crashes' = 0
      PROVE  Told(w)'
  <2>1. Told(w)
    BY <1>9 DEF Return, MInv
  <2>2. /\ redis' = redis
        /\ writer' = IF k = "write" THEN op[w].uid ELSE writer
        /\ told' = IF k = "write" THEN NONE ELSE told
    BY DEF Return, Kind
  <2>3. ~Busy(w)'
    BY <1>1, LeaveFacts DEF Return
  <2>4. redis'.event # 0 => opens' > 0
    BY <1>1, <1>2, <1>5, <2>1, <2>2, Places DEF Told, TypeOK
  <2>5. /\ redis'.event = 1 => redis'.uid = writer'
        /\ told' = writer' \/ redis'.event = 1
    BY <1>1, <1>2, <2>1, <2>2, Places DEF Told, TypeOK, Kind
  <2> QED BY <2>3, <2>4, <2>5 DEF Told
<1> QED BY <1>6, <1>7, <1>8, <1>9 DEF MInv

-------------------------------------------------------------------------------
(* Failures, crashes, and the hash deleted.                                  *)

\* What a handler that is interrupted leaves is allowed: nothing of its change,
\* or all of it.
LEMMA InterruptedIsAllowed ==
  ASSUME NEW w, Workers = {w}, MInv(w), ~lost, ~Exposed(w),
         NEW ws, ws = IF Busy(w) THEN {w} ELSE {}
  PROVE  /\ Fresh(MayHaveChanged(ws))
         /\ tx[w] # NONE => tx[w] \in MayHaveChanged(ws)
         /\ allowed \subseteq MayHaveChanged(ws)
<1>1. w \in Workers /\ TypeOK /\ InScript(w) /\ Kept(w) /\ ~Dropped(w)
  BY DroppedIsExposed DEF MInv
<1>2. allowed \subseteq MayHaveChanged(ws)
  BY <1>1 DEF TypeOK, MayHaveChanged
<1>3. Busy(w) => After(w) \subseteq MayHaveChanged(ws)
  BY <1>1, AfterFacts DEF After, MayHaveChanged
<1>4. CASE Changing(w)
  <2>1. Busy(w)
    BY <1>4 DEF Changing
  <2> QED BY <1>1, <1>2, <1>3, <1>4, <2>1 DEF Kept, Fresh, Current, InScript
<1>5. CASE Changed(w)
  <2>1. Busy(w) /\ ~Changing(w)
    BY <1>1, <1>5, RequestFacts, Places DEF Changed, Changing, TypeOK, Kind, Busy
  <2> QED BY <1>1, <1>2, <1>3, <1>5, <2>1 DEF Kept, Fresh, Current, InScript
<1>6. CASE ~Changing(w) /\ ~Changed(w)
  BY <1>1, <1>2, <1>6 DEF Kept, Fresh, Current, InScript
<1> QED BY <1>4, <1>5, <1>6

LEMMA MayHaveChangedFacts ==
  ASSUME TypeOK, NEW ws
  PROVE  MayHaveChanged(ws) \subseteq Metas /\ MayHaveChanged(ws) # {}
  BY DEF TypeOK, MayHaveChanged

LEMMA FailKeeps ==
  ASSUME NEW w, Workers = {w}, MInv(w), Fail(w)
  PROVE  MInv(w)'
<1>1. /\ w \in Workers /\ TypeOK /\ InScript(w) /\ Busy(w)
      /\ failures' = failures + 1 /\ failures < MaxFailures
      /\ allowed' = MayHaveChanged({w}) /\ lost' = (lost \/ Exposed(w))
      /\ redis' = redis /\ (db' = db \/ (tx[w] # NONE /\ db' = tx[w]))
  <2>1. Busy(w)
    BY DEF Fail, Comes
  <2>2. failures < MaxFailures /\ failures' = failures + 1
    BY DEF Fail
  <2>3. allowed' = MayHaveChanged({w})
    BY DEF Fail
  <2>4. lost' = (lost \/ Exposed(w))
    BY DEF Fail
  <2>5. redis' = redis /\ (db' = db \/ (tx[w] # NONE /\ db' = tx[w]))
    BY DEF Fail
  <2> QED BY <2>1, <2>2, <2>3, <2>4, <2>5 DEF MInv
<1>2. TypeOK'
  <2>1. failures' \in 0 .. MaxFailures
    BY <1>1, MetaCacheAssumption DEF TypeOK
  <2>2. db' \in Metas
    BY <1>1 DEF TypeOK
  <2>3. allowed' \subseteq Metas /\ allowed' # {}
    BY <1>1, MayHaveChangedFacts
  <2>4. lost' \in BOOLEAN
    BY <1>1 DEF TypeOK, Exposed
  <2>5. UNCHANGED <<redis, opens, told, writer, crashes>> /\ Leave({w})
    BY DEF Fail
  <2> QED BY <1>1, <2>1, <2>2, <2>3, <2>4, <2>5, LeaveFacts DEF TypeOK
<1>3. InScript(w)'
  BY <1>1, LeaveFacts DEF InScript, Fail
<1>4. ASSUME ~lost'
      PROVE  Kept(w)'
  <2>1. ~lost /\ ~Exposed(w)
    BY <1>1, <1>4
  <2>2. /\ Fresh(allowed')
        /\ tx[w] # NONE => tx[w] \in allowed'
    BY <1>1, <2>1, InterruptedIsAllowed
  <2>3. Fresh(allowed)'
    BY <1>1, <2>2 DEF Fresh, Current
  <2> QED BY <1>1, <2>3, LeaveFacts DEF Kept, Fail
<1>5. failures' # 0
  BY <1>1 DEF TypeOK
<1> QED BY <1>2, <1>3, <1>4, <1>5 DEF MInv

LEMMA CrashKeeps ==
  ASSUME NEW w, Workers = {w}, MInv(w), Crash
  PROVE  MInv(w)'
<1> DEFINE ws == IF Busy(w) THEN {w} ELSE {}
<1>1. /\ w \in Workers /\ TypeOK /\ InScript(w) /\ Leave({w})
      /\ crashes' = crashes + 1 /\ crashes < MaxCrashes
      /\ lost' = (lost \/ Exposed(w))
      /\ redis' = redis /\ db' = db /\ opens' = 0
  BY DEF MInv, Crash
<1>2. allowed' = MayHaveChanged(ws)
  <2>1. {v \in Workers : Busy(v)} = ws
    OBVIOUS
  <2> QED BY <2>1 DEF Crash
<1>3. TypeOK'
  <2>1. crashes' \in 0 .. MaxCrashes /\ opens' \in 0 .. MaxOpens
    BY <1>1, MetaCacheAssumption DEF TypeOK
  <2>2. allowed' \subseteq Metas /\ allowed' # {}
    BY <1>1, <1>2, MayHaveChangedFacts
  <2>3. lost' \in BOOLEAN
    BY <1>1 DEF TypeOK, Exposed
  <2>4. UNCHANGED <<redis, db, told, writer, failures>>
    BY DEF Crash
  <2> QED BY <1>1, <2>1, <2>2, <2>3, <2>4, LeaveFacts DEF TypeOK
<1>4. InScript(w)'
  BY <1>1, LeaveFacts DEF InScript
<1>5. ASSUME ~lost'
      PROVE  Kept(w)'
  <2>1. ~lost /\ ~Exposed(w)
    BY <1>1, <1>5
  <2>2. Fresh(allowed')
    BY <1>1, <1>2, <2>1, InterruptedIsAllowed
  <2>3. Fresh(allowed)'
    BY <1>1, <2>2 DEF Fresh, Current
  <2> QED BY <1>1, <2>3, LeaveFacts DEF Kept
<1>6. crashes' # 0
  BY <1>1 DEF TypeOK
<1> QED BY <1>3, <1>4, <1>5, <1>6 DEF MInv

\* Unmount and AclDaemon, which do the same to the hash.
LEMMA EmptyingKeeps ==
  ASSUME NEW w, Workers = {w}, MInv(w), Unmount \/ AclDaemon
  PROVE  MInv(w)'
<1>1. /\ w \in Workers /\ TypeOK /\ InScript(w)
      /\ redis' = EmptyHash /\ lost' = (lost \/ redis.event # 0)
      /\ UNCHANGED <<db, handlerVars, opens, told, allowed, writer, failures, crashes>>
  BY DEF MInv, Unmount, AclDaemon
<1>2. redis'.meta = NONE /\ redis'.event = 0 /\ redis'.uid = NONE
  BY <1>1 DEF EmptyHash
<1>3. /\ Busy(w)' = Busy(w) /\ Kind(w)' = Kind(w) /\ After(w)' = After(w)
      /\ Holding(w)' = Holding(w) /\ Changing(w)' = Changing(w)
      /\ Changed(w)' = Changed(w) /\ Dropped(w)' = Dropped(w)
  BY <1>1 DEF handlerVars, Busy, Kind, After, Holding, Changing, Changed, Dropped
<1>4. TypeOK'
  BY <1>1 DEF TypeOK, handlerVars, EmptyHash
<1>5. InScript(w)'
  BY <1>1, <1>2, <1>3 DEF InScript, handlerVars
<1>6. ASSUME ~lost'
      PROVE  Kept(w)'
  <2>1. Kept(w) /\ redis.event = 0 /\ ~lost
    BY <1>1, <1>6 DEF MInv
  <2> QED BY <1>1, <1>2, <1>3, <2>1 DEF Kept, Fresh, Current, handlerVars
<1>7. ASSUME ~lost', failures' = 0, crashes' = 0
      PROVE  Told(w)'
  <2>1. Told(w) /\ redis.event = 0
    BY <1>1, <1>7 DEF MInv
  <2> QED BY <1>1, <1>2, <1>3, <2>1 DEF Told, handlerVars
<1> QED BY <1>4, <1>5, <1>6, <1>7 DEF MInv

-------------------------------------------------------------------------------
(* The invariant, and what follows from it.                                  *)

LEMMA InitHasIt ==
  ASSUME NEW w, Workers = {w}, Init
  PROVE  MInv(w)
<1>1. w \in Workers
  OBVIOUS
<1>2. db \in Metas
  BY MetaCacheAssumption DEF Init, Metas
<1>3. TypeOK
  <2>1. redis \in [meta : Metas \cup {NONE}, event : 0 .. 2, uid : Uids \cup {NONE}]
    BY DEF Init, EmptyHash
  <2>2. opens \in 0 .. MaxOpens /\ failures \in 0 .. MaxFailures /\ crashes \in 0 .. MaxCrashes
    BY MetaCacheAssumption DEF Init
  <2>3. allowed \subseteq Metas /\ allowed # {}
    BY <1>2 DEF Init
  <2>4. /\ tx \in [Workers -> Metas \cup {NONE}] /\ op \in [Workers -> Requests \cup {NONE}]
        /\ at \in [Workers -> 1 .. 13] /\ meta \in [Workers -> Metas \cup {NONE}]
        /\ ev \in [Workers -> 0 .. 2] /\ signer \in [Workers -> Uids \cup {NONE}]
    BY DEF Init
  <2>5. writer \in Uids \cup {NONE} /\ told \in Uids \cup {NONE} /\ lost \in BOOLEAN
    BY DEF Init
  <2> QED BY <1>2, <2>1, <2>2, <2>3, <2>4, <2>5 DEF TypeOK
<1>4. /\ ~Busy(w) /\ at[w] = 1 /\ tx[w] = NONE
      /\ ~Holding(w) /\ ~Changing(w) /\ ~Changed(w) /\ ~Dropped(w)
  BY <1>1 DEF Init, Busy, Holding, Changing, Changed, Dropped
<1>5. InScript(w)
  BY <1>4 DEF InScript
<1>6. Kept(w)
  BY <1>4 DEF Init, EmptyHash, Kept, Fresh, Current
<1>7. Told(w)
  BY <1>4 DEF Init, EmptyHash, Told
<1> QED BY <1>3, <1>5, <1>6, <1>7 DEF MInv

\* Every step of the file system, and of what surrounds it.
LEMMA StepKeeps ==
  ASSUME NEW w, Workers = {w}, MInv(w), [Next]_vars
  PROVE  MInv(w)'
<1>1. CASE Crash
  BY <1>1, CrashKeeps
<1>2. CASE Unmount \/ AclDaemon
  BY <1>2, EmptyingKeeps
<1>3. CASE Step(w)
  BY <1>3, StartKeeps, HitKeeps, MissKeeps, SelectKeeps, FillKeeps, DataKeeps,
     HsetKeeps, FlagKeeps, UpdateKeeps, CommitKeeps, MarkWrittenKeeps, SignKeeps,
     MarkReadKeeps, PeekKeeps, SignerKeeps, TellKeeps, DelKeeps, ReturnKeeps,
     FailKeeps DEF Step
<1>4. CASE UNCHANGED vars
  <2>1. UNCHANGED <<redis, db, tx, op, at, meta, ev, signer, opens, told, allowed,
                    writer, lost, failures, crashes>>
    BY <1>4 DEF vars, handlerVars, ghostVars
  <2>2. /\ TypeOK' = TypeOK /\ InScript(w)' = InScript(w)
        /\ Kept(w)' = Kept(w) /\ Told(w)' = Told(w)
    BY <2>1 DEF TypeOK, InScript, Kept, Told, Fresh, Current, After, Busy, Kind,
                Holding, Changing, Changed, Dropped
  <2> QED BY <2>1, <2>2 DEF MInv
<1> QED BY <1>1, <1>2, <1>3, <1>4 DEF Next

THEOREM MInvariance ==
  ASSUME NEW w, Workers = {w}
  PROVE  Spec => []MInv(w)
<1>1. Init => MInv(w)
  BY InitHasIt
<1>2. MInv(w) /\ [Next]_vars => MInv(w)'
  BY StepKeeps
<1> QED BY <1>1, <1>2, PTL DEF Spec

\* The copies of the attributes are attributes.
THEOREM MetaCacheTypeOK ==
  ASSUME NEW w, Workers = {w}
  PROVE  Spec => []TypeOK
<1>1. MInv(w) => TypeOK
  BY DEF MInv
<1> QED BY <1>1, MInvariance, PTL

\* Between requests stat shows every acknowledged change, whatever failed and
\* however often pgfuse crashed, until a dirty hash is deleted or a release
\* interrupted.
THEOREM MetaCacheOnlyDirtyIsLost ==
  ASSUME NEW w, Workers = {w}
  PROVE  Spec => []OnlyDirtyIsLost
<1>1. MInv(w) => OnlyDirtyIsLost
  BY DEF MInv, OnlyDirtyIsLost, Quiet, Visible, Kept, Fresh, Current, Holding,
         Changing, Changed, Dropped
<1> QED BY <1>1, MInvariance, PTL

\* With no handle open the database has everything.
THEOREM MetaCacheClosedIsStored ==
  ASSUME NEW w, Workers = {w}
  PROVE  Spec => []ClosedIsStored
<1>1. MInv(w) => ClosedIsStored
  BY DEF MInv, ClosedIsStored, Quiet, Told, Kept, Fresh, Current, Holding,
         Changing, Changed, Dropped
<1> QED BY <1>1, MInvariance, PTL

\* When the last handle of a written file is closed the portal has been told
\* who wrote last.
THEOREM MetaCachePortalIsTold ==
  ASSUME NEW w, Workers = {w}
  PROVE  Spec => []PortalIsTold
<1>1. MInv(w) => PortalIsTold
  BY DEF MInv, PortalIsTold, Quiet, Told
<1> QED BY <1>1, MInvariance, PTL

===============================================================================
