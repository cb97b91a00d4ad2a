------------------------------ MODULE RenameProofs -----------------------------
(***************************************************************************)
(* What the requests on the tree keep, for any names, paths, ids and       *)
(* failures.  A request is one step of the specification, in which a       *)
(* record s of trees and of Redis goes through the calls of its handler:   *)
(* Good(s) is what all of them keep, whatever commits in the end.          *)
(***************************************************************************)
EXTENDS Rename, SequenceTheorems, WellFoundedInduction, TLAPS

Answers == Dirs \cup {NONE, Bad}
Work == [t : Trees, u : Trees, r : Redises, unused : SUBSET Ids,
         failures : 0 .. MaxFailures, id : Answers]

\* Only files of the portal are hidden.
HiddenAreFiles(t) == \A i \in Ids : t[i] # NONE /\ t[i].del => t[i].kind = "portal"

\* What is shown is in a directory, and below the root.
Sound(t) == \A i \in Shown(t) : IsDir(t, t[i].parent) /\ Below(t, i, Root)

\* Redis tells directories from the rest.
Knows(r, t) == \A d \in Dirs : r.meta[d] # NONE => (r.meta[d].mode = "dir" <=> IsDir(t, d))

\* An id that was not given out is nowhere.
Unused(r, t, X) == \A i \in X : t[i] = NONE /\ r.meta[i] = NONE

Fits(t) == HiddenAreFiles(t) /\ Sound(t)
SameDirs(t, u) == \A d \in Dirs : IsDir(t, d) <=> IsDir(u, d)

Good(s) ==
  /\ s \in Work
  /\ Fits(s.t) /\ Fits(s.u) /\ SameDirs(s.t, s.u)
  /\ Knows(s.r, s.t)
  /\ Unused(s.r, s.t, s.unused) /\ Unused(s.r, s.u, s.unused)

RInv ==
  /\ TypeOK
  /\ Fits(tree)
  /\ Knows(redis, tree)
  /\ Unused(redis, tree, unused)

-------------------------------------------------------------------------------
(* Trees.                                                                    *)

\* What a tree is made of.
LEMMA TreeFacts ==
  ASSUME NEW t \in Trees, NEW i \in Ids
  PROVE  /\ t[i] = NONE \/ t[i] \in Rows
         /\ t[i] # NONE => /\ t[i].parent \in Dirs /\ t[i].name \in Names /\ t[i].kind \in Kinds
                           /\ t[i].data \in Ids \cup {NONE} /\ t[i].del \in BOOLEAN
         /\ i # Root
  BY NamespaceAssumption DEF Trees, Rows

LEMMA RowFacts ==
  ASSUME NEW i \in Ids, NEW d \in Dirs, NEW n \in Names, NEW k \in Kinds
  PROVE  /\ Row(i, d, n, k) \in Rows /\ Row(i, d, n, k) # NONE
         /\ Row(i, d, n, k).parent = d /\ Row(i, d, n, k).name = n
         /\ Row(i, d, n, k).kind = k /\ ~Row(i, d, n, k).del
         /\ k \in {"portal", "temp"} => Row(i, d, n, k).data = i
<1>1. Row(i, d, n, k) \in Rows
  BY DEF Row, Rows
<1> QED BY <1>1, NothingAssumption DEF Row

\* A directory is the root or a shown row.
LEMMA DirFacts ==
  ASSUME NEW t \in Trees, HiddenAreFiles(t), NEW d
  PROVE  /\ IsDir(t, d) => d \in Dirs
         /\ IsDir(t, d) => d = Root \/ d \in Shown(t)
         /\ d \in Ids => (IsDir(t, d) <=> t[d] # NONE /\ t[d].kind = "dir")
  BY TreeFacts, NamespaceAssumption DEF IsDir, Shown, Dirs, HiddenAreFiles

\* No one is in an entry that is no directory.
LEMMA NoChildren ==
  ASSUME NEW t \in Trees, Sound(t), NEW i, ~IsDir(t, i)
  PROVE  \A j \in Shown(t) : t[j].parent # i
  BY DEF Sound

\* A row changes, none is in it, and it ends up in a directory or not shown.
LEMMA LeafChanges ==
  ASSUME NEW t \in Trees, NEW v \in Trees, Fits(t), NEW i \in Ids,
         \A j \in Shown(t) : t[j].parent # i,
         \A j \in Ids \ {i} : v[j] = t[j],
         v[i] # NONE /\ v[i].del => v[i].kind = "portal",
         v[i] # NONE /\ ~v[i].del => IsDir(t, v[i].parent) /\ v[i].parent # i
  PROVE  /\ Fits(v)
         /\ \A d \in Dirs \ {i} : IsDir(v, d) <=> IsDir(t, d)
<1>1. HiddenAreFiles(v)
  BY DEF Fits, HiddenAreFiles
<1>2. \A j \in Ids \ {i} : j \in Shown(v) <=> j \in Shown(t)
  BY DEF Shown
<1>3. \A d \in Dirs \ {i} : IsDir(v, d) <=> IsDir(t, d)
  BY <1>2, NamespaceAssumption DEF IsDir, Dirs, Shown
<1>4. \A d : IsDir(t, d) /\ d # i => IsDir(v, d) /\ d \in Dirs
  BY <1>3, DirFacts DEF Fits
<1>5. \A j \in Shown(v) : IsDir(t, v[j].parent) /\ v[j].parent # i
  BY <1>2 DEF Fits, Sound, Shown
<1>6. ASSUME NEW S \in SUBSET Dirs, Upward(v, S), NEW d \in S, IsDir(t, d), d # i
      PROVE  Root \in S
  <2> DEFINE U == {x \in S : x # i /\ IsDir(t, x)}
  <2>1. ASSUME NEW x \in U \cap Ids, t[x] # NONE
        PROVE  t[x].parent \in U
    <3>1. x \in Shown(t) /\ x \in Shown(v) /\ v[x] = t[x]
      BY <1>2, <2>1, DirFacts, NamespaceAssumption DEF Fits
    <3>2. v[x].parent \in S
      BY <1>6, <3>1, <2>1 DEF Upward
    <3> QED BY <1>5, <3>1, <3>2
  <2>2. Upward(t, U) /\ U \in SUBSET Dirs /\ d \in U
    BY <1>6, <2>1 DEF Upward
  <2>3. d = Root \/ d \in Shown(t)
    BY <1>6, DirFacts DEF Fits
  <2> QED BY <2>2, <2>3 DEF Fits, Sound, Below
<1>7. ASSUME NEW j \in Shown(v)
      PROVE  Below(v, j, Root)
  <2> SUFFICES ASSUME NEW S \in SUBSET Dirs, j \in S, Upward(v, S)
               PROVE  Root \in S
    BY DEF Below
  <2>1. v[j].parent \in S
    BY <1>7 DEF Upward, Shown
  <2> QED BY <1>5, <1>6, <1>7, <2>1
<1> QED BY <1>1, <1>3, <1>4, <1>5, <1>7 DEF Fits, Sound

\* Rows go that no one is in.
LEMMA RowsGo ==
  ASSUME NEW t \in Trees, NEW v \in Trees, Fits(t), NEW X \in SUBSET Ids,
         \A j \in Shown(t) : t[j].parent \notin X,
         \A j \in Ids : v[j] = IF j \in X THEN NONE ELSE t[j]
  PROVE  /\ Fits(v)
         /\ \A d \in Dirs : IsDir(v, d) <=> IsDir(t, d) /\ d \notin X
<1>1. HiddenAreFiles(v)
  BY DEF Fits, HiddenAreFiles
<1>2. \A j \in Ids : j \in Shown(v) <=> j \in Shown(t) /\ j \notin X
  BY DEF Shown
<1>3. \A d \in Dirs : IsDir(v, d) <=> IsDir(t, d) /\ d \notin X
  BY <1>2, NamespaceAssumption DEF IsDir, Dirs, Shown
<1>4. \A j \in Shown(v) : v[j] = t[j] /\ IsDir(t, t[j].parent) /\ IsDir(v, t[j].parent)
  BY <1>2, <1>3, DirFacts DEF Fits, Sound, Shown
<1>5. ASSUME NEW j \in Shown(v)
      PROVE  Below(v, j, Root)
  <2> SUFFICES ASSUME NEW S \in SUBSET Dirs, j \in S, Upward(v, S)
               PROVE  Root \in S
    BY DEF Below
  <2> DEFINE U == {x \in S : x = Root \/ x \in Shown(v)}
  <2>1. ASSUME NEW x \in U \cap Ids, t[x] # NONE
        PROVE  t[x].parent \in U
    <3>1. x \in Shown(v)
      BY <2>1, NamespaceAssumption
    <3>2. v[x].parent \in S
      BY <2>1, <3>1 DEF Upward, Shown
    <3> QED BY <1>1, <1>4, <3>1, <3>2, DirFacts
  <2>2. Upward(t, U) /\ U \in SUBSET Dirs /\ j \in U
    BY <1>5, <2>1 DEF Upward
  <2>3. Below(t, j, Root)
    BY <1>2, <1>5 DEF Fits, Sound, Shown
  <2> QED BY <2>2, <2>3 DEF Below
<1> QED BY <1>1, <1>3, <1>4, <1>5 DEF Fits, Sound

\* A directory is put into another that is not below it.
LEMMA DirMoves ==
  ASSUME NEW t \in Trees, NEW v \in Trees, Fits(t), NEW i \in Ids, NEW d \in Dirs,
         IsDir(t, d), ~Below(t, d, i), v = [t EXCEPT ![i].parent = d], t[i] # NONE
  PROVE  Fits(v) /\ SameDirs(v, t)
<1>1. \A j \in Ids : /\ v[j] # NONE <=> t[j] # NONE
                     /\ t[j] # NONE => /\ v[j].kind = t[j].kind /\ v[j].del = t[j].del
                                       /\ v[j].parent = IF j = i THEN d ELSE t[j].parent
  <2>1. t[i] \in Rows
    BY TreeFacts
  <2>2. v[i] = [t[i] EXCEPT !.parent = d] /\ v[i] \in Rows
    BY <2>1 DEF Trees, Rows
  <2>3. \A j \in Ids \ {i} : v[j] = t[j]
    BY DEF Trees
  <2> QED BY <2>1, <2>2, <2>3, NothingAssumption DEF Rows
<1>2. HiddenAreFiles(v)
  BY <1>1 DEF Fits, HiddenAreFiles
<1>3. \A j \in Ids : j \in Shown(v) <=> j \in Shown(t)
  BY <1>1 DEF Shown
<1>4. \A x : IsDir(v, x) <=> IsDir(t, x)
  BY <1>1 DEF IsDir, Shown
<1>5. \A j \in Shown(v) : IsDir(v, v[j].parent)
  BY ZenonT(60), <1>1, <1>3, <1>4 DEF Fits, Sound, Shown
<1>6. ASSUME NEW j \in Shown(v)
      PROVE  Below(v, j, Root)
  <2> SUFFICES ASSUME NEW S \in SUBSET Dirs, j \in S, Upward(v, S)
               PROVE  Root \in S
    BY DEF Below
  <2>1. CASE i \notin S
    <3>1. Upward(t, S)
      BY <1>1, <2>1 DEF Upward
    <3>2. Below(t, j, Root)
      BY <1>3, <1>6 DEF Fits, Sound, Shown
    <3> QED BY <3>1, <3>2 DEF Below
  <2>2. CASE i \in S
    <3>1. PICK W \in SUBSET Dirs : d \in W /\ Upward(t, W) /\ i \notin W
      BY DEF Below
    <3>2. d \in S
      BY <1>1, <2>2 DEF Upward
    <3>3. Upward(t, S \cap W)
      BY <1>1, <3>1 DEF Upward
    <3>4. d = Root \/ d \in Shown(t)
      BY DirFacts DEF Fits
    <3> QED BY <3>1, <3>2, <3>3, <3>4 DEF Fits, Sound, Below
  <2> QED BY <2>1, <2>2
<1> QED BY <1>2, <1>4, <1>5, <1>6 DEF Fits, Sound, SameDirs

\* Rows change in name and data only.
LEMMA SameShape ==
  ASSUME NEW t \in Trees, NEW v \in Trees, Fits(t),
         \A j \in Ids : /\ v[j] # NONE <=> t[j] # NONE
                        /\ t[j] # NONE => /\ v[j].kind = t[j].kind /\ v[j].del = t[j].del
                                          /\ v[j].parent = t[j].parent
  PROVE  Fits(v) /\ SameDirs(v, t)
<1>1. HiddenAreFiles(v)
  BY DEF Fits, HiddenAreFiles
<1>2. Shown(v) = Shown(t)
  BY DEF Shown
<1>3. \A x : IsDir(v, x) <=> IsDir(t, x)
  BY <1>2 DEF IsDir, Shown
<1>4. \A S \in SUBSET Dirs : Upward(v, S) <=> Upward(t, S)
  BY DEF Upward
<1>5. Sound(v)
  BY <1>2, <1>3, <1>4 DEF Fits, Sound, Shown, Below
<1> QED BY <1>1, <1>3, <1>5 DEF Fits, SameDirs

-------------------------------------------------------------------------------
(* Redis, and what is looked up in it.                                       *)

LEMMA Ends ==
  /\ Root \in Dirs /\ Root \in Answers /\ NONE \in Answers /\ Bad \in Answers
  /\ Ids \subseteq Dirs /\ Dirs \subseteq Answers
  /\ NONE \notin Dirs /\ Bad \notin Dirs /\ NONE # Bad
  BY NamespaceAssumption DEF Dirs, Answers

LEMMA PathFacts ==
  ASSUME NEW p \in Paths, p # <<>>
  PROVE  /\ Len(p) \in Nat /\ Len(p) > 0 /\ p \in Seq(Names)
         /\ Front(p) \in Paths /\ Last(p) \in Names
         /\ Len(Front(p)) = Len(p) - 1
         /\ \A n \in 0 .. Len(p) : SubSeq(p, 1, n) \in Paths /\ Len(SubSeq(p, 1, n)) = n
         /\ \A n \in 1 .. Len(p) : p[n] \in Names
<1>1. p \in Seq(Names) /\ Len(p) \in Nat /\ Len(p) > 0
  BY NamespaceAssumption, LenProperties, EmptySeq
<1>2. \A n \in 0 .. Len(p) : SubSeq(p, 1, n) \in Paths /\ Len(SubSeq(p, 1, n)) = n
  BY <1>1, NamespaceAssumption, SubSeqProperties
<1>3. \A n \in 1 .. Len(p) : p[n] \in Names
  BY <1>1, LenProperties
<1>4. Len(p) - 1 \in 0 .. Len(p) /\ Len(p) \in 1 .. Len(p)
  BY <1>1
<1>5. Front(p) = SubSeq(p, 1, Len(p) - 1) /\ Last(p) = p[Len(p)]
  BY DEF Front, Last
<1> QED BY <1>1, <1>2, <1>3, <1>4, <1>5

\* Setting and deleting keys.
LEMMA SetPathFacts ==
  ASSUME NEW r \in Redises, NEW p \in Paths, NEW a \in Answers
  PROVE  /\ SetPath(r, p, a) \in Redises
         /\ SetPath(r, p, a).meta = r.meta /\ SetPath(r, p, a).list = r.list
         /\ SetPath(r, p, a).path = [r.path EXCEPT ![p] = a]
  BY DEF SetPath, Redises, Answers

LEMMA SetMetaFacts ==
  ASSUME NEW r \in Redises, NEW d \in Dirs, NEW m \in Metas
  PROVE  /\ SetMeta(r, d, m) \in Redises
         /\ SetMeta(r, d, m).path = r.path /\ SetMeta(r, d, m).list = r.list
         /\ SetMeta(r, d, m).meta = [r.meta EXCEPT ![d] = m]
  BY DEF SetMeta, Redises

LEMMA DelFacts ==
  ASSUME NEW r \in Redises, NEW ps, NEW ms, NEW ls
  PROVE  /\ Del(r, ps, ms, ls) \in Redises
         /\ \A p \in Paths : Del(r, ps, ms, ls).path[p] = IF p \in ps THEN NONE ELSE r.path[p]
         /\ \A d \in Dirs : Del(r, ps, ms, ls).meta[d] = IF d \in ms THEN NONE ELSE r.meta[d]
         /\ \A d \in Dirs : Del(r, ps, ms, ls).list[d] = IF d \in ls THEN {} ELSE r.list[d]
         /\ \A t : Knows(r, t) => Knows(Del(r, ps, ms, ls), t)
         /\ \A t : \A X \in SUBSET Ids : Unused(r, t, X) => Unused(Del(r, ps, ms, ls), t, X)
<1>1. Del(r, ps, ms, ls) \in Redises
  BY DEF Del, Redises
<1>2. /\ \A p \in Paths : Del(r, ps, ms, ls).path[p] = IF p \in ps THEN NONE ELSE r.path[p]
      /\ \A d \in Dirs : Del(r, ps, ms, ls).meta[d] = IF d \in ms THEN NONE ELSE r.meta[d]
      /\ \A d \in Dirs : Del(r, ps, ms, ls).list[d] = IF d \in ls THEN {} ELSE r.list[d]
  BY DEF Del
<1> QED BY <1>1, <1>2, Ends DEF Knows, Unused

LEMMA DbFacts ==
  ASSUME NEW t, NEW d, NEW n
  PROVE  get_id_from_db(t, d, n) \in Ids \cup {NONE, Bad}
<1> DEFINE found == IF d \in Dirs THEN Named(t, d, n) ELSE {}
<1>1. found \subseteq Ids
  BY DEF Named, Children, Shown
<1> QED BY <1>1 DEF get_id_from_db

\* Induction, by the least number that is not in a set.
LEMMA Least ==
  ASSUME NEW T \in SUBSET Nat, T # {}
  PROVE  \E x \in T : \A y \in T : ~(y < x)
<1>1. \E x \in T : \A y \in T : ~(<<y, x>> \in OpToRel(<, Nat))
  BY NatLessThanWellFounded, WFMin
<1> QED BY <1>1 DEF OpToRel

LEMMA Induct ==
  ASSUME NEW N \in Nat, NEW T, 0 \in T, \A n \in 1 .. N : n - 1 \in T => n \in T
  PROVE  \A n \in 0 .. N : n \in T
<1> DEFINE Out == {n \in 0 .. N : n \notin T}
<1> SUFFICES ASSUME Out # {}
             PROVE  FALSE
  OBVIOUS
<1>1. Out \in SUBSET Nat
  OBVIOUS
<1> HIDE DEF Out
<1>2. PICK x \in Out : \A y \in Out : ~(y < x)
  BY <1>1, Least
<1> USE DEF Out
<1>3. x \in 1 .. N /\ x - 1 \in 0 .. N /\ x - 1 < x
  BY <1>2
<1> QED BY <1>2, <1>3

-------------------------------------------------------------------------------
(* Paths: the entry at a path, and the loop of psql_path_to_id, by the path  *)
(* without its last name.                                                    *)

IsAt(at, t, p, N) == at = [n \in 0 .. N |-> IF n = 0 THEN Root ELSE Entry(t, at[n - 1], p[n])]

LEMMA AtExists ==
  ASSUME NEW t, NEW p, NEW N \in Nat
  PROVE  \E at : IsAt(at, t, p, N)
<1> DEFINE T == {n \in Nat : \E at : IsAt(at, t, p, n)}
<1>1. 0 \in T
  <2> DEFINE f == [n \in 0 .. 0 |-> Root]
  <2>1. IsAt(f, t, p, 0)
    BY DEF IsAt
  <2> QED BY <2>1
<1>2. ASSUME NEW n \in 1 .. N, n - 1 \in T
      PROVE  n \in T
  <2>1. PICK f : IsAt(f, t, p, n - 1)
    BY <1>2
  <2> DEFINE g == [k \in 0 .. n |-> IF k = n THEN Entry(t, f[n - 1], p[n]) ELSE f[k]]
  <2>2. \A k \in 0 .. n : g[k] = IF k = 0 THEN Root ELSE Entry(t, g[k - 1], p[k])
    <3> SUFFICES ASSUME NEW k \in 0 .. n
                 PROVE  g[k] = IF k = 0 THEN Root ELSE Entry(t, g[k - 1], p[k])
      OBVIOUS
    <3>1. \A j \in 0 .. n - 1 : f[j] = IF j = 0 THEN Root ELSE Entry(t, f[j - 1], p[j])
      BY <2>1 DEF IsAt
    <3>2. \A j \in 0 .. n - 1 : g[j] = f[j]
      OBVIOUS
    <3>3. CASE k = n
      <4>1. g[k] = Entry(t, f[n - 1], p[n]) /\ n - 1 \in 0 .. n - 1
        BY <3>3
      <4> QED BY <3>2, <3>3, <4>1
    <3>4. CASE k # n /\ k # 0
      <4>1. k \in 0 .. n - 1 /\ k - 1 \in 0 .. n - 1
        BY <3>4
      <4> QED BY <3>1, <3>2, <3>4, <4>1
    <3>5. CASE k = 0
      <4>1. 0 \in 0 .. n - 1
        OBVIOUS
      <4> QED BY <3>1, <3>2, <3>5, <4>1
    <3> QED BY <3>3, <3>4, <3>5
  <2>3. IsAt(g, t, p, n)
    BY <2>2 DEF IsAt
  <2> QED BY <2>3
<1> HIDE DEF T
<1>3. \A n \in 0 .. N : n \in T
  BY <1>1, <1>2, Induct
<1> QED BY <1>3 DEF T

Agree(q, p, N) == \A n \in 1 .. N : q[n] = p[n]

LEMMA AtUnique ==
  ASSUME NEW t, NEW p, NEW q, NEW f, NEW g, NEW N \in Nat, NEW M \in Nat,
         IsAt(f, t, p, N), IsAt(g, t, q, M), M <= N, Agree(q, p, M)
  PROVE  \A n \in 0 .. M : g[n] = f[n]
<1> DEFINE T == {n \in Nat : n <= M => g[n] = f[n]}
<1>1. /\ \A n \in 0 .. N : f[n] = IF n = 0 THEN Root ELSE Entry(t, f[n - 1], p[n])
      /\ \A n \in 0 .. M : g[n] = IF n = 0 THEN Root ELSE Entry(t, g[n - 1], q[n])
  BY DEF IsAt
<1>2. 0 \in T
  BY <1>1
<1>3. ASSUME NEW n \in 1 .. M, n - 1 \in T
      PROVE  n \in T
  <2>1. n \in 0 .. M /\ n \in 0 .. N /\ n # 0 /\ g[n - 1] = f[n - 1] /\ q[n] = p[n]
    BY <1>3 DEF Agree
  <2>2. g[n] = Entry(t, g[n - 1], q[n]) /\ f[n] = Entry(t, f[n - 1], p[n])
    BY <1>1, <2>1
  <2> QED BY <2>1, <2>2
<1> HIDE DEF T
<1>4. \A n \in 0 .. M : n \in T
  BY <1>2, <1>3, Induct
<1> QED BY <1>4 DEF T

LEMMA AtIs ==
  ASSUME NEW t, NEW q \in Paths
  PROVE  \E f : IsAt(f, t, q, Len(q)) /\ At(t, q) = f[Len(q)]
<1>1. Len(q) \in Nat
  BY NamespaceAssumption, LenProperties
<1>2. IsAt(CHOOSE f : IsAt(f, t, q, Len(q)), t, q, Len(q))
  BY <1>1, AtExists
<1>3. At(t, q) = (CHOOSE f : IsAt(f, t, q, Len(q)))[Len(q)]
  BY DEF At, IsAt
<1> QED BY <1>2, <1>3

\* The entry at a path is in that at the path without its last name.
LEMMA AtStep ==
  ASSUME NEW t, NEW p \in Paths
  PROVE  At(t, p) = IF p = <<>> THEN Root ELSE Entry(t, At(t, Front(p)), Last(p))
<1>1. PICK f : IsAt(f, t, p, Len(p)) /\ At(t, p) = f[Len(p)]
  BY AtIs
<1>2. CASE p = <<>>
  BY <1>1, <1>2 DEF IsAt
<1>3. CASE p # <<>>
  <2>1. /\ Len(p) \in Nat /\ Len(p) > 0 /\ Front(p) \in Paths /\ Len(Front(p)) = Len(p) - 1
        /\ Len(Front(p)) \in Nat /\ Len(Front(p)) <= Len(p) /\ p \in Seq(Names)
    BY <1>3, PathFacts
  <2>2. PICK g : IsAt(g, t, Front(p), Len(Front(p))) /\ At(t, Front(p)) = g[Len(Front(p))]
    BY <2>1, AtIs
  <2>3. Front(p) = SubSeq(p, 1, Len(p) - 1) /\ Last(p) = p[Len(p)]
    BY DEF Front, Last
  <2> DEFINE q == Front(p)
  <2>4. Agree(q, p, Len(q))
    BY <2>1, <2>3, SubSeqProperties DEF Agree
  <2>5. \A n \in 0 .. Len(q) : g[n] = f[n]
    <3> HIDE DEF q
    <3>1. IsAt(g, t, q, Len(q)) /\ Len(q) \in Nat /\ Len(q) <= Len(p)
      BY <2>1, <2>2 DEF q
    <3> QED BY <1>1, <2>1, <2>4, <3>1, AtUnique
  <2>6. f[Len(p)] = Entry(t, f[Len(p) - 1], Last(p))
    <3>1. Len(p) \in 0 .. Len(p) /\ Len(p) # 0
      BY <2>1
    <3>2. SubSeq(p, 1, Len(p)) = p
      BY <2>1, SubSeqFull
    <3> QED BY <1>1, <2>3, <3>1, <3>2 DEF IsAt
  <2>7. f[Len(p) - 1] = At(t, Front(p))
    BY <2>1, <2>2, <2>5
  <2> QED BY <1>1, <1>3, <2>3, <2>6, <2>7
<1> QED BY <1>2, <1>3

IsWay(at, r, t, p, N) ==
  at = [n \in 0 .. N |-> IF n = 0 THEN [id |-> Root, r |-> r]
                        ELSE Into(at[n - 1], t, SubSeq(p, 1, n))]

LEMMA WayExists ==
  ASSUME NEW r, NEW t, NEW p, NEW N \in Nat
  PROVE  \E at : IsWay(at, r, t, p, N)
<1> DEFINE T == {n \in Nat : \E at : IsWay(at, r, t, p, n)}
<1>1. 0 \in T
  <2> DEFINE f == [n \in 0 .. 0 |-> [id |-> Root, r |-> r]]
  <2>1. IsWay(f, r, t, p, 0)
    BY DEF IsWay
  <2> QED BY <2>1
<1>2. ASSUME NEW n \in 1 .. N, n - 1 \in T
      PROVE  n \in T
  <2>1. PICK f : IsWay(f, r, t, p, n - 1)
    BY <1>2
  <2> DEFINE g == [k \in 0 .. n |-> IF k = n THEN Into(f[n - 1], t, SubSeq(p, 1, n)) ELSE f[k]]
  <2>2. \A k \in 0 .. n : g[k] = IF k = 0 THEN [id |-> Root, r |-> r] ELSE Into(g[k - 1], t, SubSeq(p, 1, k))
    <3> SUFFICES ASSUME NEW k \in 0 .. n
                 PROVE  g[k] = IF k = 0 THEN [id |-> Root, r |-> r] ELSE Into(g[k - 1], t, SubSeq(p, 1, k))
      OBVIOUS
    <3>1. \A j \in 0 .. n - 1 : f[j] = IF j = 0 THEN [id |-> Root, r |-> r] ELSE Into(f[j - 1], t, SubSeq(p, 1, j))
      BY <2>1 DEF IsWay
    <3>2. \A j \in 0 .. n - 1 : g[j] = f[j]
      OBVIOUS
    <3>3. CASE k = n
      <4>1. g[k] = Into(f[n - 1], t, SubSeq(p, 1, n)) /\ n - 1 \in 0 .. n - 1
        BY <3>3
      <4> QED BY <3>2, <3>3, <4>1
    <3>4. CASE k # n /\ k # 0
      <4>1. k \in 0 .. n - 1 /\ k - 1 \in 0 .. n - 1
        BY <3>4
      <4> QED BY <3>1, <3>2, <3>4, <4>1
    <3>5. CASE k = 0
      <4>1. 0 \in 0 .. n - 1
        OBVIOUS
      <4> QED BY <3>1, <3>2, <3>5, <4>1
    <3> QED BY <3>3, <3>4, <3>5
  <2>3. IsWay(g, r, t, p, n)
    BY <2>2 DEF IsWay
  <2> QED BY <2>3
<1> HIDE DEF T
<1>3. \A n \in 0 .. N : n \in T
  BY <1>1, <1>2, Induct
<1> QED BY <1>3 DEF T

LEMMA WayUnique ==
  ASSUME NEW r, NEW t, NEW p, NEW q, NEW f, NEW g, NEW N \in Nat, NEW M \in Nat,
         IsWay(f, r, t, p, N), IsWay(g, r, t, q, M), M <= N, \A n \in 1 .. M : SubSeq(q, 1, n) = SubSeq(p, 1, n)
  PROVE  \A n \in 0 .. M : g[n] = f[n]
<1> DEFINE T == {n \in Nat : n <= M => g[n] = f[n]}
<1>1. /\ \A n \in 0 .. N : f[n] = IF n = 0 THEN [id |-> Root, r |-> r] ELSE Into(f[n - 1], t, SubSeq(p, 1, n))
      /\ \A n \in 0 .. M : g[n] = IF n = 0 THEN [id |-> Root, r |-> r] ELSE Into(g[n - 1], t, SubSeq(q, 1, n))
  BY DEF IsWay
<1>2. 0 \in T
  BY <1>1
<1>3. ASSUME NEW n \in 1 .. M, n - 1 \in T
      PROVE  n \in T
  <2>1. n \in 0 .. M /\ n \in 0 .. N /\ n # 0 /\ g[n - 1] = f[n - 1] /\ SubSeq(q, 1, n) = SubSeq(p, 1, n)
    BY <1>3
  <2>2. g[n] = Into(g[n - 1], t, SubSeq(q, 1, n)) /\ f[n] = Into(f[n - 1], t, SubSeq(p, 1, n))
    BY <1>1, <2>1
  <2>3. g[n] = f[n]
    BY <2>1, <2>2, Zenon
  <2> QED BY <2>3
<1> HIDE DEF T
<1>4. \A n \in 0 .. M : n \in T
  BY <1>2, <1>3, Induct
<1> QED BY <1>4 DEF T

LEMMA DescendIs ==
  ASSUME NEW r, NEW t, NEW q \in Paths
  PROVE  \E f : IsWay(f, r, t, q, Len(q)) /\ Descend(r, t, q) = f[Len(q)]
<1>1. Len(q) \in Nat
  BY NamespaceAssumption, LenProperties
<1>2. IsWay(CHOOSE f : IsWay(f, r, t, q, Len(q)), r, t, q, Len(q))
  BY <1>1, WayExists
<1>3. Descend(r, t, q) = (CHOOSE f : IsWay(f, r, t, q, Len(q)))[Len(q)]
  BY DEF Descend, IsWay
<1> QED BY <1>2, <1>3

\* The loop comes to a path by the path without its last name.
LEMMA DescendStep ==
  ASSUME NEW r, NEW t, NEW p \in Paths
  PROVE  Descend(r, t, p) = IF p = <<>> THEN [id |-> Root, r |-> r] ELSE Into(Descend(r, t, Front(p)), t, p)
<1>1. PICK f : IsWay(f, r, t, p, Len(p)) /\ Descend(r, t, p) = f[Len(p)]
  BY DescendIs
<1>2. CASE p = <<>>
  BY <1>1, <1>2 DEF IsWay
<1>3. CASE p # <<>>
  <2>1. /\ Len(p) \in Nat /\ Len(p) > 0 /\ Front(p) \in Paths /\ Len(Front(p)) = Len(p) - 1
        /\ Len(Front(p)) \in Nat /\ Len(Front(p)) <= Len(p) /\ p \in Seq(Names)
    BY <1>3, PathFacts
  <2>2. PICK g : IsWay(g, r, t, Front(p), Len(Front(p))) /\ Descend(r, t, Front(p)) = g[Len(Front(p))]
    BY <2>1, DescendIs
  <2>3. Front(p) = SubSeq(p, 1, Len(p) - 1) /\ Last(p) = p[Len(p)]
    BY DEF Front, Last
  <2> DEFINE q == Front(p)
  <2>4. \A n \in 1 .. Len(q) : SubSeq(q, 1, n) = SubSeq(p, 1, n)
    BY <2>1, <2>3, SubSeqProperties
  <2>5. \A n \in 0 .. Len(q) : g[n] = f[n]
    <3> HIDE DEF q
    <3>1. IsWay(g, r, t, q, Len(q)) /\ Len(q) \in Nat /\ Len(q) <= Len(p)
      BY <2>1, <2>2 DEF q
    <3> QED BY SMTT(30), <1>1, <2>1, <2>4, <3>1, WayUnique
  <2>6. f[Len(p)] = Into(f[Len(p) - 1], t, p)
    <3>1. Len(p) \in 0 .. Len(p) /\ Len(p) # 0
      BY <2>1
    <3>2. SubSeq(p, 1, Len(p)) = p
      BY <2>1, SubSeqFull
    <3> QED BY <1>1, <2>3, <3>1, <3>2 DEF IsWay
  <2>7. f[Len(p) - 1] = Descend(r, t, Front(p))
    BY <2>1, <2>2, <2>5
  <2> QED BY <1>1, <1>3, <2>3, <2>6, <2>7
<1> QED BY <1>2, <1>3

-------------------------------------------------------------------------------
(* What the operators that look things up return.                            *)

LEMMA DescendFacts ==
  ASSUME NEW r \in Redises, NEW t, NEW p \in Paths
  PROVE  /\ Descend(r, t, p).id \in Answers /\ Descend(r, t, p).r \in Redises
         /\ Descend(r, t, p).r.meta = r.meta /\ Descend(r, t, p).r.list = r.list
<1> DEFINE Fine(d) == d.id \in Answers /\ d.r \in Redises /\ d.r.meta = r.meta /\ d.r.list = r.list
           T == {n \in Nat : \A q \in Paths : Len(q) = n => Fine(Descend(r, t, q))}
<1>1. ASSUME NEW q \in Paths, NEW d, Fine(d)
      PROVE  Fine(Into(d, t, q))
  <2> DEFINE id == IF d.r.path[q] # NONE THEN d.r.path[q] ELSE get_id_from_db(t, d.id, Last(q))
  <2>1. id \in Answers
    BY <1>1, DbFacts DEF Redises, Answers, Dirs
  <2>2. Into(d, t, q) = IF d.id = NONE THEN d
                        ELSE [id |-> id, r |-> IF id = NONE THEN d.r ELSE SetPath(d.r, q, id)]
    BY DEF Into
  <2> HIDE DEF id
  <2>3. SetPath(d.r, q, id) \in Redises /\ SetPath(d.r, q, id).meta = r.meta
        /\ SetPath(d.r, q, id).list = r.list
    BY ZenonT(60), <1>1, <2>1, SetPathFacts
  <2> QED BY <1>1, <2>1, <2>2, <2>3
<1>2. 0 \in T
  <2>1. \A q \in Paths : Len(q) = 0 => q = <<>>
    BY NamespaceAssumption, EmptySeq
  <2>2. Fine([id |-> Root, r |-> r])
    BY Ends
  <2>3. Descend(r, t, <<>>) = [id |-> Root, r |-> r]
    BY NamespaceAssumption, DescendStep
  <2> QED BY <2>1, <2>2, <2>3
<1>3. ASSUME NEW n \in 1 .. Len(p), n - 1 \in T
      PROVE  n \in T
  <2> SUFFICES ASSUME NEW q \in Paths, Len(q) = n
               PROVE  Fine(Descend(r, t, q))
    OBVIOUS
  <2>1. q # <<>> /\ Front(q) \in Paths /\ Len(Front(q)) = n - 1
    <3>1. q # <<>>
      BY EmptySeq
    <3> QED BY <3>1, PathFacts
  <2>2. Fine(Descend(r, t, Front(q)))
    BY <1>3, <2>1
  <2> QED BY <1>1, <2>1, <2>2, DescendStep
<1>4. Len(p) \in Nat
  BY NamespaceAssumption, LenProperties
<1> HIDE DEF T
<1>5. \A n \in 0 .. Len(p) : n \in T
  BY <1>2, <1>3, <1>4, Induct
<1>6. Len(p) \in T
  BY <1>4, <1>5
<1> QED BY <1>6 DEF T

LEMMA LookupFacts ==
  ASSUME NEW r \in Redises, NEW t, NEW p \in Paths
  PROVE  LET a == psql_path_to_id(r, t, p)
         IN /\ a.id \in Answers /\ a.r \in Redises
            /\ a.r.meta = r.meta /\ a.r.list = r.list
<1> DEFINE a == psql_path_to_id(r, t, p)
<1>1. CASE r.path[p] # NONE
  BY <1>1 DEF psql_path_to_id, Redises, Answers
<1>2. CASE r.path[p] = NONE /\ p = <<>>
  <2>1. a = [id |-> Root, r |-> SetPath(r, p, Root)]
    BY <1>2 DEF psql_path_to_id
  <2>2. /\ SetPath(r, p, Root) \in Redises
        /\ SetPath(r, p, Root).meta = r.meta /\ SetPath(r, p, Root).list = r.list
    BY SetPathFacts, Ends
  <2> QED BY <2>1, <2>2, Ends
<1>3. CASE r.path[p] = NONE /\ p # <<>> /\ r.path[Front(p)] # NONE
  <2> DEFINE id == get_id_from_db(t, r.path[Front(p)], Last(p))
  <2>1. a = [id |-> id, r |-> IF id = NONE THEN r ELSE SetPath(r, p, id)]
    BY <1>3 DEF psql_path_to_id
  <2>2. id \in Answers
    BY DbFacts DEF Answers, Dirs
  <2> HIDE DEF id
  <2>3. /\ SetPath(r, p, id) \in Redises
        /\ SetPath(r, p, id).meta = r.meta /\ SetPath(r, p, id).list = r.list
    BY <2>2, SetPathFacts
  <2> HIDE DEF a
  <2>4. CASE id = NONE
    <3>1. a.r = r /\ a.id = id
      BY <2>1, <2>4
    <3> QED BY <2>2, <3>1 DEF a
  <2>5. CASE id # NONE
    <3>1. a.r = SetPath(r, p, id) /\ a.id = id
      BY <2>1, <2>5
    <3> QED BY <2>2, <2>3, <3>1 DEF a
  <2> QED BY <2>4, <2>5
<1>4. CASE r.path[p] = NONE /\ p # <<>> /\ r.path[Front(p)] = NONE
  <2>1. a = [id |-> IF Len(p) = 1 THEN Bad ELSE Descend(r, t, Front(p)).id,
             r |-> Descend(r, t, Front(p)).r]
    BY <1>4 DEF psql_path_to_id
  <2>2. Front(p) \in Paths
    BY <1>4, PathFacts
  <2> QED BY <2>1, <2>2, DescendFacts, Ends
<1> QED BY <1>1, <1>2, <1>3, <1>4

\* The attributes that a tree has.
LEMMA AttributesFacts ==
  ASSUME NEW t \in Trees, NEW d, d = Root \/ d \in Shown(t)
  PROVE  /\ Attributes(t, d) \in Metas /\ Attributes(t, d) # NONE
         /\ Attributes(t, d).mode = "dir" <=> IsDir(t, d)
<1>1. CASE d = Root
  BY <1>1, NothingAssumption DEF Attributes, Metas, Dirs, IsDir
<1>2. CASE d # Root
  <2>1. d \in Ids /\ t[d] # NONE /\ t[d].kind \in Kinds /\ t[d].parent \in Dirs
    BY <1>2, TreeFacts DEF Shown
  <2>2. Mode(t[d].kind) \in {"dir", "reg", "link"} /\ (Mode(t[d].kind) = "dir" <=> t[d].kind = "dir")
    BY <2>1 DEF Mode, Kinds
  <2>3. Attributes(t, d) = [mode |-> Mode(t[d].kind), parent |-> t[d].parent]
    BY <1>2 DEF Attributes
  <2>4. IsDir(t, d) <=> t[d].kind = "dir"
    BY <1>2 DEF IsDir
  <2> QED BY <2>1, <2>2, <2>3, <2>4, NothingAssumption DEF Metas
<1> QED BY <1>1, <1>2

\* psql_read_meta answers with the copy that is in Redis afterwards, which was
\* there before or is what the tree has.
Reads(m, r, t, d) ==
  /\ m.id \in Answers /\ m.meta \in Metas \cup {NONE} /\ m.r \in Redises
  /\ m.r.path = r.path /\ m.r.list = r.list
  /\ m.meta # NONE => m.id = d /\ d \in Dirs /\ m.r.meta[d] = m.meta
  /\ m.id \in Dirs => m.meta # NONE
  /\ m.r = r \/ /\ t # Down /\ d \in Dirs /\ r.meta[d] = NONE
                /\ d = Root \/ d \in Shown(t)
                /\ m.r.meta = [r.meta EXCEPT ![d] = Attributes(t, d)]

LEMMA ReadMetaFacts ==
  ASSUME NEW r \in Redises, NEW t \in Trees \cup {Down}, NEW d \in Answers
  PROVE  Reads(psql_read_meta(r, t, d), r, t, d)
<1> DEFINE m == psql_read_meta(r, t, d)
<1>1. CASE d \notin Dirs
  <2>1. m = [id |-> d, meta |-> NONE, r |-> r]
    BY <1>1 DEF psql_read_meta
  <2> QED BY <1>1, <2>1 DEF Reads
<1>2. CASE d \in Dirs /\ r.meta[d] # NONE
  <2>1. m = [id |-> d, meta |-> r.meta[d], r |-> r]
    BY <1>2 DEF psql_read_meta
  <2>2. r.meta[d] \in Metas
    BY <1>2 DEF Redises
  <2> QED BY <1>2, <2>1, <2>2 DEF Reads
<1>3. CASE d \in Dirs /\ r.meta[d] = NONE
  <2>1. CASE t = Down
    <3>1. m = [id |-> Bad, meta |-> NONE, r |-> r]
      BY <1>3, <2>1 DEF psql_read_meta
    <3> QED BY <3>1, Ends DEF Reads
  <2>2. CASE t # Down /\ d # Root /\ d \notin Shown(t)
    <3>1. m = [id |-> NONE, meta |-> NONE, r |-> r]
      BY <1>3, <2>2 DEF psql_read_meta
    <3> QED BY <3>1, Ends DEF Reads
  <2>3. CASE t # Down /\ (d = Root \/ d \in Shown(t))
    <3>1. m = [id |-> d, meta |-> Attributes(t, d), r |-> SetMeta(r, d, Attributes(t, d))]
      BY <1>3, <2>3 DEF psql_read_meta
    <3>2. Attributes(t, d) \in Metas /\ Attributes(t, d) # NONE
      BY <2>3, AttributesFacts
    <3>3. /\ SetMeta(r, d, Attributes(t, d)) \in Redises
          /\ SetMeta(r, d, Attributes(t, d)).path = r.path
          /\ SetMeta(r, d, Attributes(t, d)).list = r.list
          /\ SetMeta(r, d, Attributes(t, d)).meta = [r.meta EXCEPT ![d] = Attributes(t, d)]
      BY <1>3, <3>2, SetMetaFacts
    <3>4. r.meta \in [Dirs -> Metas \cup {NONE}]
      BY DEF Redises
    <3> QED BY <1>3, <2>3, <3>1, <3>2, <3>3, <3>4 DEF Reads
  <2> QED BY <2>1, <2>2, <2>3
<1> QED BY <1>1, <1>2, <1>3

\* What Redis knows of directories stays right.
LEMMA ReadMetaKnows ==
  ASSUME NEW r \in Redises, NEW t \in Trees, NEW d \in Answers, NEW X \in SUBSET Ids,
         Knows(r, t), Unused(r, t, X)
  PROVE  LET m == psql_read_meta(r, t, d)
         IN /\ Knows(m.r, t) /\ Unused(m.r, t, X)
            /\ Is(m, "dir") => m.id = d /\ IsDir(t, d)
            /\ m.meta # NONE /\ ~Is(m, "dir") => m.id = d /\ d \in Ids /\ ~IsDir(t, d)
<1> DEFINE m == psql_read_meta(r, t, d)
<1>1. /\ m.r \in Redises
      /\ m.meta # NONE => m.id = d /\ d \in Dirs /\ m.r.meta[d] = m.meta
      /\ m.r = r \/ /\ d \in Dirs /\ r.meta[d] = NONE
                    /\ d = Root \/ d \in Shown(t)
                    /\ m.r.meta = [r.meta EXCEPT ![d] = Attributes(t, d)]
  BY ReadMetaFacts DEF Reads
<1> HIDE DEF m
<1>2. Knows(m.r, t) /\ Unused(m.r, t, X)
  <2>1. CASE m.r = r
    BY <2>1
  <2>2. CASE m.r # r
    <3>1. d \in Dirs /\ (d = Root \/ d \in Shown(t)) /\ m.r.meta = [r.meta EXCEPT ![d] = Attributes(t, d)]
      BY <1>1, <2>2
    <3>2. Attributes(t, d).mode = "dir" <=> IsDir(t, d)
      BY <3>1, AttributesFacts
    <3>3. r.meta \in [Dirs -> Metas \cup {NONE}]
      BY DEF Redises
    <3>4. Knows(m.r, t)
      BY <3>1, <3>2, <3>3 DEF Knows
    <3>5. d \notin X
      BY <3>1, NamespaceAssumption DEF Unused, Shown
    <3>6. Unused(m.r, t, X)
      BY <3>1, <3>3, <3>5, Ends DEF Unused
    <3> QED BY <3>4, <3>6
  <2> QED BY <2>1, <2>2
<1>3. m.meta # NONE => m.id = d /\ d \in Dirs /\ (m.meta.mode = "dir" <=> IsDir(t, d))
  BY <1>1, <1>2 DEF Knows
<1>4. d \in Dirs /\ ~IsDir(t, d) => d \in Ids
  BY DEF IsDir, Dirs
<1> QED BY <1>2, <1>3, <1>4 DEF Is, m

\* The same by the path.
LEMMA FromPathFacts ==
  ASSUME NEW r \in Redises, NEW t \in Trees \cup {Down}, NEW p \in Paths
  PROVE  LET m == psql_read_meta_from_path(r, t, p)
         IN /\ m.id \in Answers /\ m.meta \in Metas \cup {NONE} /\ m.r \in Redises
            /\ m.r.list = r.list
            /\ m.meta # NONE => m.id \in Dirs /\ m.r.meta[m.id] = m.meta
            /\ m.id \in Dirs => m.meta # NONE
<1> DEFINE a == psql_path_to_id(r, t, p)
<1>1. a.id \in Answers /\ a.r \in Redises /\ a.r.list = r.list
  BY LookupFacts
<1>2. psql_read_meta_from_path(r, t, p) = psql_read_meta(a.r, t, a.id)
  BY DEF psql_read_meta_from_path
<1> HIDE DEF a
<1>3. Reads(psql_read_meta(a.r, t, a.id), a.r, t, a.id)
  BY <1>1, ReadMetaFacts
<1> QED BY <1>1, <1>2, <1>3 DEF Reads

LEMMA FromPathKnows ==
  ASSUME NEW r \in Redises, NEW t \in Trees, NEW p \in Paths, NEW X \in SUBSET Ids,
         Knows(r, t), Unused(r, t, X)
  PROVE  LET m == psql_read_meta_from_path(r, t, p)
         IN /\ Knows(m.r, t) /\ Unused(m.r, t, X)
            /\ Is(m, "dir") => IsDir(t, m.id)
            /\ m.meta # NONE /\ ~Is(m, "dir") => m.id \in Ids /\ ~IsDir(t, m.id)
<1> DEFINE a == psql_path_to_id(r, t, p)
<1>1. a.id \in Answers /\ a.r \in Redises /\ a.r.meta = r.meta
  BY LookupFacts
<1>2. Knows(a.r, t) /\ Unused(a.r, t, X)
  BY <1>1 DEF Knows, Unused
<1>3. psql_read_meta_from_path(r, t, p) = psql_read_meta(a.r, t, a.id)
  BY DEF psql_read_meta_from_path
<1> HIDE DEF a
<1> QED BY <1>1, <1>2, <1>3, ReadMetaKnows

-------------------------------------------------------------------------------
(* Calls of the portal and statements, one by one.                           *)

LEMMA WorkFacts ==
  ASSUME NEW s \in Work
  PROVE  /\ s.t \in Trees /\ s.u \in Trees /\ s.r \in Redises /\ s.unused \in SUBSET Ids
         /\ s.failures \in 0 .. MaxFailures /\ s.id \in Answers
         /\ s = [t |-> s.t, u |-> s.u, r |-> s.r, unused |-> s.unused, failures |-> s.failures, id |-> s.id]
  BY DEF Work

\* Parts of s that change.
WithTrees(s, t, u) == [s EXCEPT !.t = t, !.u = u]
WithRedis(s, r) == [s EXCEPT !.r = r]
Forgetting(s, ps, ms, ls) == [s EXCEPT !.r = Del(@, ps, ms, ls)]
Failed(s) == [s EXCEPT !.failures = @ + 1]

LEMMA RedisChanges ==
  ASSUME NEW s, Good(s), NEW r \in Redises,
         Knows(r, s.t), Unused(r, s.t, s.unused),
         NEW x, x = WithRedis(s, r)
  PROVE  /\ Good(x) /\ x.t = s.t /\ x.u = s.u /\ x.r = r
         /\ x.unused = s.unused /\ x.failures = s.failures /\ x.id = s.id
<1>1. s \in Work
  BY DEF Good
<1>2. /\ x \in Work /\ x.t = s.t /\ x.u = s.u /\ x.r = r
      /\ x.unused = s.unused /\ x.failures = s.failures /\ x.id = s.id
  BY <1>1 DEF Work, WithRedis
<1>3. Unused(r, s.u, s.unused)
  BY DEF Unused, Good
<1>4. Good(x)
  BY <1>2, <1>3 DEF Good
<1> QED BY <1>2, <1>4

LEMMA Forgets ==
  ASSUME NEW s, Good(s), NEW ps, NEW ms, NEW ls,
         NEW x, x = Forgetting(s, ps, ms, ls)
  PROVE  /\ Good(x) /\ x.t = s.t /\ x.u = s.u /\ x.r = Del(s.r, ps, ms, ls)
         /\ x.unused = s.unused /\ x.failures = s.failures /\ x.id = s.id
<1>1. s \in Work /\ s.r \in Redises /\ s.unused \in SUBSET Ids
  BY WorkFacts DEF Good
<1>2. Del(s.r, ps, ms, ls) \in Redises /\ Knows(Del(s.r, ps, ms, ls), s.t)
      /\ Unused(Del(s.r, ps, ms, ls), s.t, s.unused)
  BY <1>1, DelFacts DEF Good
<1>3. x = WithRedis(s, Del(s.r, ps, ms, ls))
  BY <1>1 DEF Work, Forgetting, WithRedis
<1> QED BY <1>2, <1>3, RedisChanges

LEMMA Fails ==
  ASSUME NEW s, Good(s), s.failures < MaxFailures,
         NEW x, x = Failed(s)
  PROVE  /\ Good(x) /\ x.t = s.t /\ x.u = s.u /\ x.r = s.r
         /\ x.unused = s.unused /\ x.failures = s.failures + 1 /\ x.id = s.id
<1>1. s \in Work /\ MaxFailures \in Nat
  BY NamespaceAssumption DEF Good
<1>2. /\ x \in Work /\ x.t = s.t /\ x.u = s.u /\ x.r = s.r
      /\ x.unused = s.unused /\ x.failures = s.failures + 1 /\ x.id = s.id
  BY <1>1 DEF Work, Failed
<1>3. Good(x)
  BY <1>2 DEF Good
<1> QED BY <1>2, <1>3

\* Both trees change, and the directories do not.
LEMMA BothChange ==
  ASSUME NEW s, Good(s), NEW t \in Trees, NEW u \in Trees,
         Fits(t), Fits(u), SameDirs(t, s.t), SameDirs(u, s.u),
         \A i \in s.unused : t[i] = NONE /\ u[i] = NONE,
         NEW x, x = WithTrees(s, t, u)
  PROVE  /\ Good(x) /\ SameDirs(x.t, s.t)
         /\ x.t = t /\ x.u = u /\ x.r = s.r
         /\ x.unused = s.unused /\ x.failures = s.failures /\ x.id = s.id
<1>1. s \in Work
  BY DEF Good
<1>2. /\ x \in Work /\ x.t = t /\ x.u = u /\ x.r = s.r
      /\ x.unused = s.unused /\ x.failures = s.failures /\ x.id = s.id
  BY <1>1 DEF Work, WithTrees
<1>3. SameDirs(t, u)
  BY DEF SameDirs, Good
<1>4. Knows(s.r, t)
  BY DEF Knows, SameDirs, Good
<1>5. Unused(s.r, t, s.unused) /\ Unused(s.r, u, s.unused)
  BY DEF Unused, Good
<1>6. Good(x)
  BY <1>2, <1>3, <1>4, <1>5 DEF Good
<1> QED BY <1>2, <1>6

\* What comes of a call of the portal: it changes both trees, or fails.
Called(x, s, t, u) ==
  \/ x = WithTrees(s, t, u)
  \/ s.failures < MaxFailures /\ x = Failed(s)

\* The portal deletes an entry in which none is shown.
LEMMA DropFacts ==
  ASSUME NEW t \in Trees, Fits(t), NEW i \in Ids, \A j \in Shown(t) : t[j].parent # i
  PROVE  /\ Drop(t, i) \in Trees /\ Fits(Drop(t, i))
         /\ \A d \in Dirs : IsDir(Drop(t, i), d) <=> IsDir(t, d) /\ d # i
         /\ \A j \in Ids : t[j] = NONE => Drop(t, i)[j] = NONE
<1> DEFINE X == {j \in Ids : j = i \/ (t[j] # NONE /\ t[j].parent = i)}
<1>1. Drop(t, i) \in Trees
  BY DEF Drop, Trees
<1>2. \A j \in Ids : Drop(t, i)[j] = IF j \in X THEN NONE ELSE t[j]
  BY DEF Drop
<1>3. \A j \in Shown(t) : t[j].parent \notin X
  <2> SUFFICES ASSUME NEW j \in Shown(t), t[j].parent \in X
               PROVE  FALSE
    OBVIOUS
  <2>1. t[j].parent # i /\ IsDir(t, t[j].parent)
    BY DEF Fits, Sound
  <2>2. t[j].parent \in Shown(t)
    BY <2>1, NamespaceAssumption DEF IsDir
  <2> QED BY <2>1, <2>2
<1>4. Fits(Drop(t, i)) /\ \A d \in Dirs : IsDir(Drop(t, i), d) <=> IsDir(t, d) /\ d \notin X
  <2> HIDE DEF X
  <2>1. X \in SUBSET Ids
    BY DEF X
  <2> QED BY <1>1, <1>2, <1>3, <2>1, RowsGo
<1>5. \A d \in Dirs : IsDir(t, d) => (d \in X <=> d = i)
  BY NamespaceAssumption DEF IsDir
<1> QED BY <1>1, <1>2, <1>4, <1>5

LEMMA DropGood ==
  ASSUME NEW s, Good(s), NEW i \in Ids, ~IsDir(s.t, i),
         NEW x, Called(x, s, Drop(s.t, i), Drop(s.u, i))
  PROVE  /\ Good(x) /\ SameDirs(x.t, s.t)
         /\ x.r = s.r /\ x.unused = s.unused /\ x.id = s.id
<1>1. CASE s.failures < MaxFailures /\ x = Failed(s)
  BY <1>1, Fails DEF SameDirs
<1>2. CASE x = WithTrees(s, Drop(s.t, i), Drop(s.u, i))
  <2>1. s.t \in Trees /\ s.u \in Trees /\ Fits(s.t) /\ Fits(s.u) /\ ~IsDir(s.u, i) /\ i \in Dirs
    BY WorkFacts DEF Good, SameDirs, Dirs
  <2>2. \A t \in {s.t, s.u} :
          /\ Drop(t, i) \in Trees /\ Fits(Drop(t, i)) /\ SameDirs(Drop(t, i), t)
          /\ \A j \in Ids : t[j] = NONE => Drop(t, i)[j] = NONE
    <3> SUFFICES ASSUME NEW t \in {s.t, s.u}
                 PROVE  /\ Drop(t, i) \in Trees /\ Fits(Drop(t, i)) /\ SameDirs(Drop(t, i), t)
                        /\ \A j \in Ids : t[j] = NONE => Drop(t, i)[j] = NONE
      OBVIOUS
    <3>1. t \in Trees /\ Fits(t) /\ ~IsDir(t, i)
      BY <2>1
    <3>2. \A j \in Shown(t) : t[j].parent # i
      BY <3>1, NoChildren DEF Fits
    <3> QED BY <3>1, <3>2, DropFacts DEF SameDirs
  <2>3. \A j \in s.unused : j \in Ids /\ s.t[j] = NONE /\ s.u[j] = NONE
    BY WorkFacts DEF Good, Unused
  <2> DEFINE a == Drop(s.t, i)
             b == Drop(s.u, i)
  <2>4. /\ a \in Trees /\ b \in Trees /\ Fits(a) /\ Fits(b) /\ SameDirs(a, s.t) /\ SameDirs(b, s.u)
        /\ \A j \in s.unused : a[j] = NONE /\ b[j] = NONE
    BY <2>2, <2>3
  <2>5. x = WithTrees(s, a, b)
    BY <1>2
  <2> HIDE DEF a, b
  <2> QED BY <2>4, <2>5, BothChange
<1> QED BY <1>1, <1>2 DEF Called

-------------------------------------------------------------------------------
(* Entries that are made.                                                    *)

Put(t, i, w) == [t EXCEPT ![i] = w]

\* A row that is no directory becomes another row, or goes.
LEMMA RowChanges ==
  ASSUME NEW t \in Trees, Fits(t), NEW i \in Ids, ~IsDir(t, i), NEW w \in Rows \cup {NONE},
         w # NONE /\ w.del => w.kind = "portal",
         w # NONE /\ ~w.del => IsDir(t, w.parent),
         NEW v, v = Put(t, i, w)
  PROVE  /\ v \in Trees /\ Fits(v)
         /\ \A d \in Dirs \ {i} : IsDir(v, d) <=> IsDir(t, d)
         /\ IsDir(v, i) <=> w # NONE /\ w.kind = "dir"
         /\ v[i] = w /\ \A j \in Ids \ {i} : v[j] = t[j]
<1>1. v \in Trees /\ v[i] = w /\ \A j \in Ids \ {i} : v[j] = t[j]
  BY DEF Trees, Put
<1>2. \A j \in Shown(t) : t[j].parent # i
  BY NoChildren DEF Fits
<1>3. /\ v[i] # NONE /\ v[i].del => v[i].kind = "portal"
      /\ v[i] # NONE /\ ~v[i].del => IsDir(t, v[i].parent) /\ v[i].parent # i
  BY <1>1
<1>4. Fits(v) /\ \A d \in Dirs \ {i} : IsDir(v, d) <=> IsDir(t, d)
  BY <1>1, <1>2, <1>3, LeafChanges
<1>5. IsDir(v, i) <=> w # NONE /\ w.kind = "dir"
  BY <1>1, <1>4, DirFacts DEF Fits
<1> QED BY <1>1, <1>4, <1>5

\* What making a file leaves alone: the rows there are, and the directories.
Others(x, s) ==
  /\ x.unused \subseteq s.unused
  /\ \A i \in Ids \ s.unused : x.t[i] = s.t[i] /\ x.u[i] = s.u[i]

Taking(s, i) == [s EXCEPT !.id = i, !.unused = @ \ {i}]

LEMMA TakingGood ==
  ASSUME NEW s, Good(s), NEW i \in s.unused, NEW x, x = Taking(s, i)
  PROVE  /\ Good(x) /\ x.t = s.t /\ x.u = s.u /\ x.r = s.r
         /\ x.unused = s.unused \ {i} /\ x.failures = s.failures /\ x.id = i
         /\ i \in Ids /\ x.t[i] = NONE /\ x.u[i] = NONE /\ x.r.meta[i] = NONE
<1>1. s \in Work /\ i \in Ids /\ i \in Answers
  BY WorkFacts, Ends DEF Good
<1>2. /\ x \in Work /\ x.t = s.t /\ x.u = s.u /\ x.r = s.r
      /\ x.unused = s.unused \ {i} /\ x.failures = s.failures /\ x.id = i
  BY <1>1 DEF Work, Taking
<1>3. Good(x)
  BY <1>2 DEF Good, Unused
<1>4. s.t[i] = NONE /\ s.u[i] = NONE /\ s.r.meta[i] = NONE
  BY DEF Good, Unused
<1> QED BY <1>1, <1>2, <1>3, <1>4

\* A row with an id that was not given out yet, in both trees.
LEMMA BothGetRow ==
  ASSUME NEW s, Good(s), NEW i \in Ids, i \notin s.unused,
         s.t[i] = NONE, s.u[i] = NONE, s.r.meta[i] = NONE,
         NEW d \in Dirs, IsDir(s.t, d), NEW n \in Names, NEW k \in Portal,
         NEW x, x = WithTrees(s, Put(s.t, i, Row(i, d, n, k)), Put(s.u, i, Row(i, d, n, k)))
  PROVE  /\ Good(x) /\ x.r = s.r /\ x.unused = s.unused /\ x.failures = s.failures /\ x.id = s.id
         /\ \A j \in Ids \ {i} : x.t[j] = s.t[j] /\ x.u[j] = s.u[j]
         /\ k = "portal" => SameDirs(x.t, s.t)
<1> DEFINE w == Row(i, d, n, k)
           a == Put(s.t, i, w)
           b == Put(s.u, i, w)
<1>1. s \in Work /\ s.t \in Trees /\ s.u \in Trees /\ s.r \in Redises /\ s.unused \in SUBSET Ids
  BY WorkFacts DEF Good
<1>2. w \in Rows /\ w # NONE /\ w.parent = d /\ w.kind = k /\ ~w.del
  BY RowFacts DEF Portal, Kinds
<1>3. Fits(s.t) /\ Fits(s.u) /\ IsDir(s.u, d) /\ ~IsDir(s.t, i) /\ ~IsDir(s.u, i)
  BY <1>1, DirFacts DEF Good, SameDirs, Fits
<1> HIDE DEF w
<1>4. /\ a \in Trees /\ Fits(a) /\ a[i] = w /\ \A j \in Ids \ {i} : a[j] = s.t[j]
      /\ \A e \in Dirs \ {i} : IsDir(a, e) <=> IsDir(s.t, e)
      /\ IsDir(a, i) <=> k = "dir"
  BY <1>1, <1>2, <1>3, RowChanges
<1>5. /\ b \in Trees /\ Fits(b) /\ b[i] = w /\ \A j \in Ids \ {i} : b[j] = s.u[j]
      /\ \A e \in Dirs \ {i} : IsDir(b, e) <=> IsDir(s.u, e)
      /\ IsDir(b, i) <=> k = "dir"
  BY <1>1, <1>2, <1>3, RowChanges
<1>6. x = WithTrees(s, a, b)
  BY DEF w
<1> HIDE DEF a, b
<1>7. /\ x \in Work /\ x.t = a /\ x.u = b /\ x.r = s.r
      /\ x.unused = s.unused /\ x.failures = s.failures /\ x.id = s.id
  BY <1>1, <1>4, <1>5, <1>6 DEF Work, WithTrees
<1>8. SameDirs(a, b)
  BY <1>4, <1>5 DEF SameDirs, Good
<1>9. Knows(s.r, a)
  BY <1>4 DEF Knows, Good
<1>10. Unused(s.r, a, s.unused) /\ Unused(s.r, b, s.unused)
  BY <1>1, <1>4, <1>5 DEF Unused, Good
<1>11. Good(x)
  BY <1>4, <1>5, <1>7, <1>8, <1>9, <1>10 DEF Good
<1>12. k = "portal" => SameDirs(a, s.t)
  BY <1>3, <1>4, Ends DEF SameDirs
<1> QED BY <1>4, <1>5, <1>7, <1>11, <1>12

Undone(y, s) == [y EXCEPT !.t = s.t, !.u = s.u, !.id = Root]

LEMMA AddIs ==
  ASSUME NEW s, Good(s), NEW d, NEW n, NEW k, NEW x \in Add(s, d, n, k)
  PROVE  \E i \in s.unused : \E y :
           /\ Called(y, Taking(s, i), Put(s.t, i, Row(i, d, n, k)), Put(s.u, i, Row(i, d, n, k)))
           /\ \/ /\ y.failures = s.failures /\ IsDir(s.t, d) /\ x = y
              \/ x = Undone(y, s)
<1>1. s \in Work
  BY DEF Good
<1>2. PICK i \in s.unused : \E y \in Call(Taking(s, i), LAMBDA t : Put(t, i, Row(i, d, n, k))) :
        x = IF y.failures # s.failures \/ ~IsDir(s.t, d) \/ Taken(s.t, d, n, Portal)
              THEN [y EXCEPT !.t = s.t, !.u = s.u, !.id = Root] ELSE y
  BY DEF Add, Taking, Put
<1>3. PICK y \in Call(Taking(s, i), LAMBDA t : Put(t, i, Row(i, d, n, k))) :
        x = IF y.failures # s.failures \/ ~IsDir(s.t, d) \/ Taken(s.t, d, n, Portal)
              THEN [y EXCEPT !.t = s.t, !.u = s.u, !.id = Root] ELSE y
  BY <1>2
<1>4. Taking(s, i).t = s.t /\ Taking(s, i).u = s.u
  BY <1>1 DEF Taking, Work
<1>5. Called(y, Taking(s, i), Put(s.t, i, Row(i, d, n, k)), Put(s.u, i, Row(i, d, n, k)))
  BY <1>3, <1>4 DEF Call, Called, WithTrees, Failed
<1> QED BY <1>3, <1>5 DEF Undone

\* The portal makes an entry, or does not.
LEMMA AddGood ==
  ASSUME NEW s, Good(s), NEW d \in Dirs, NEW n \in Names, NEW k \in Portal, NEW x \in Add(s, d, n, k)
  PROVE  /\ Good(x) /\ x.r = s.r /\ x.id \in Dirs /\ Others(x, s)
         /\ k = "portal" => SameDirs(x.t, s.t)
<1>1. PICK i, y :
           /\ i \in s.unused
           /\ Called(y, Taking(s, i), Put(s.t, i, Row(i, d, n, k)), Put(s.u, i, Row(i, d, n, k)))
           /\ \/ /\ y.failures = s.failures /\ IsDir(s.t, d) /\ x = y
              \/ x = Undone(y, s)
  BY AddIs
<1>9. i \in s.unused
  BY <1>1
<1> DEFINE z == Taking(s, i)
           a == Put(s.t, i, Row(i, d, n, k))
           b == Put(s.u, i, Row(i, d, n, k))
<1>2. /\ Good(z) /\ z.t = s.t /\ z.u = s.u /\ z.r = s.r
      /\ z.unused = s.unused \ {i} /\ z.failures = s.failures /\ z.id = i
      /\ i \in Ids /\ z.t[i] = NONE /\ z.u[i] = NONE /\ z.r.meta[i] = NONE
  BY <1>9, TakingGood
<1>3. z \in Work /\ s \in Work
  BY <1>2 DEF Good
<1>4. a \in Trees /\ b \in Trees
  BY <1>2, <1>3, RowFacts, WorkFacts DEF Put, Trees, Portal, Kinds
<1>5. Called(y, z, a, b)
  BY <1>1
<1> HIDE DEF z
<1>6. y \in Work /\ y.unused = z.unused /\ y.r = z.r /\ y.id = i
      /\ (y.failures = s.failures => y = WithTrees(z, a, b))
  <2> HIDE DEF a, b
  <2>1. z.failures \in Nat /\ s.failures = z.failures /\ MaxFailures \in Nat
    BY <1>2, <1>3, NamespaceAssumption DEF Work
  <2>2. CASE y = WithTrees(z, a, b)
    BY <2>2, <1>2, <1>3, <1>4 DEF WithTrees, Work
  <2>3. CASE z.failures < MaxFailures /\ y = Failed(z)
    BY <2>1, <2>3, <1>2, <1>3 DEF Failed, Work
  <2> QED BY <1>5, <2>2, <2>3 DEF Called
<1>7. CASE y.failures = s.failures /\ IsDir(s.t, d) /\ x = y
  <2>1. x = WithTrees(z, Put(z.t, i, Row(i, d, n, k)), Put(z.u, i, Row(i, d, n, k)))
    BY <1>2, <1>6, <1>7
  <2>2. /\ Good(x) /\ x.r = z.r /\ x.unused = z.unused /\ x.id = z.id
        /\ \A j \in Ids \ {i} : x.t[j] = z.t[j] /\ x.u[j] = z.u[j]
        /\ k = "portal" => SameDirs(x.t, z.t)
    BY <1>2, <1>7, <2>1, BothGetRow
  <2> QED BY <1>2, <1>9, <2>2, Ends DEF Others
<1>8. CASE x = Undone(y, s)
  <2>1. /\ x \in Work /\ x.t = s.t /\ x.u = s.u /\ x.id = Root
        /\ x.r = s.r /\ x.unused = s.unused \ {i}
    BY <1>2, <1>3, <1>6, <1>8, Ends DEF Work, Undone
  <2>2. Good(x)
    BY <2>1 DEF Good, Unused
  <2> QED BY <2>1, <2>2, Ends DEF Others, SameDirs
<1> QED BY <1>1, <1>7, <1>8

\* A row of the table of pgfuse, in the tree of the transaction.
LEMMA InsertGood ==
  ASSUME NEW s, Good(s), NEW d \in Dirs, IsDir(s.t, d), NEW n \in Names, NEW k \in {"temp", "link"},
         NEW x \in Insert(s, d, n, k)
  PROVE  Good(x) /\ SameDirs(x.t, s.t) /\ x.r = s.r /\ Others(x, s) /\ x.id = s.id
<1>1. s \in Work /\ s.t \in Trees /\ s.u \in Trees /\ s.unused \in SUBSET Ids
  BY WorkFacts DEF Good
<1>2. PICK i \in s.unused : x = [s EXCEPT !.t[i] = Row(i, d, n, k), !.unused = @ \ {i}]
  BY DEF Insert
<1> DEFINE w == Row(i, d, n, k)
           a == Put(s.t, i, w)
<1>3. i \in Ids /\ i \in Dirs /\ w \in Rows /\ w # NONE /\ w.parent = d /\ w.kind = k /\ ~w.del
  BY <1>1, RowFacts DEF Kinds, Dirs
<1>4. s.t[i] = NONE /\ ~IsDir(s.t, i) /\ Fits(s.t)
  BY <1>1, <1>3, DirFacts DEF Good, Unused, Fits
<1> HIDE DEF w
<1>5. /\ a \in Trees /\ Fits(a) /\ \A j \in Ids \ {i} : a[j] = s.t[j]
      /\ \A e \in Dirs \ {i} : IsDir(a, e) <=> IsDir(s.t, e)
      /\ ~IsDir(a, i)
  BY <1>1, <1>3, <1>4, RowChanges
<1>6. x.t = a /\ x.unused = s.unused \ {i} /\ x.u = s.u /\ x.r = s.r /\ x.id = s.id
      /\ x.failures = s.failures /\ x = [s EXCEPT !.t = a, !.unused = s.unused \ {i}]
  BY <1>1, <1>2 DEF Work, Put, w
<1> HIDE DEF a
<1>7. x \in Work
  BY <1>1, <1>5, <1>6 DEF Work
<1>8. SameDirs(a, s.t)
  BY <1>4, <1>5 DEF SameDirs
<1>9. Knows(s.r, a) /\ SameDirs(a, s.u)
  BY <1>8 DEF Knows, SameDirs, Good
<1>10. Unused(s.r, a, s.unused \ {i}) /\ Unused(s.r, s.u, s.unused \ {i})
  BY <1>1, <1>5 DEF Unused, Good
<1>11. Good(x)
  BY <1>5, <1>6, <1>7, <1>9, <1>10 DEF Good
<1> QED BY <1>1, <1>3, <1>5, <1>6, <1>8, <1>11 DEF Others

\* What making a file leaves: rows stay rows, directories directories, and
\* attributes in Redis.
Kept(x, s) ==
  /\ Good(x) /\ SameDirs(x.t, s.t)
  /\ x.unused \subseteq s.unused /\ x.r.meta = s.r.meta
  /\ \A i \in Ids \ s.unused : (x.t[i] = NONE <=> s.t[i] = NONE) /\ x.u[i] = s.u[i]

LEMMA PathSet ==
  ASSUME NEW s, Good(s), NEW p \in Paths, NEW a \in Answers, NEW x, x = WithRedis(s, SetPath(s.r, p, a))
  PROVE  /\ Good(x) /\ x.t = s.t /\ x.u = s.u /\ x.r.meta = s.r.meta /\ x.r.list = s.r.list
         /\ x.unused = s.unused /\ x.failures = s.failures /\ x.id = s.id
<1>1. s \in Work /\ s.r \in Redises
  BY WorkFacts DEF Good
<1> DEFINE r == SetPath(s.r, p, a)
<1>2. r \in Redises /\ r.meta = s.r.meta /\ r.list = s.r.list
  BY ZenonT(60), <1>1, SetPathFacts
<1> HIDE DEF r
<1>3. Knows(r, s.t) /\ Unused(r, s.t, s.unused)
  BY <1>2 DEF Knows, Unused, Good
<1>4. x = WithRedis(s, r)
  BY DEF r
<1> QED BY <1>2, <1>3, <1>4, RedisChanges

\* A hidden file is shown again.
LEMMA RevealGood ==
  ASSUME NEW s, Good(s), NEW d \in Dirs, IsDir(s.t, d), NEW n, NEW i \in Hidden(s.t, d, n),
         NEW x, x = [s EXCEPT !.t = Reveal(@, i), !.id = i]
  PROVE  Kept(x, s) /\ x.r = s.r
<1>1. s \in Work /\ s.t \in Trees /\ s.u \in Trees /\ s.unused \in SUBSET Ids
  BY WorkFacts DEF Good
<1>2. i \in Ids /\ s.t[i] # NONE /\ s.t[i].del /\ s.t[i].parent = d /\ i \in Answers
  BY Ends DEF Hidden
<1>3. s.t[i] \in Rows /\ s.t[i].kind = "portal" /\ ~IsDir(s.t, i) /\ Fits(s.t)
  BY <1>1, <1>2, TreeFacts, DirFacts DEF Good, Fits, HiddenAreFiles
<1> DEFINE w == [s.t[i] EXCEPT !.del = FALSE]
           a == Put(s.t, i, w)
<1>4. w \in Rows /\ w # NONE /\ w.parent = d /\ w.kind = "portal" /\ ~w.del
  BY <1>2, <1>3, NothingAssumption DEF Rows
<1> HIDE DEF w
<1>5. /\ a \in Trees /\ Fits(a) /\ \A j \in Ids \ {i} : a[j] = s.t[j]
      /\ \A e \in Dirs \ {i} : IsDir(a, e) <=> IsDir(s.t, e)
      /\ ~IsDir(a, i) /\ a[i] = w
  BY <1>1, <1>2, <1>3, <1>4, RowChanges
<1>6. a = Reveal(s.t, i)
  BY DEF Reveal, Put, w
<1> HIDE DEF a
<1>7. /\ x \in Work /\ x.t = a /\ x.unused = s.unused /\ x.u = s.u /\ x.r = s.r /\ x.id = i
      /\ x.failures = s.failures
  BY <1>1, <1>2, <1>5, <1>6 DEF Work
<1>8. SameDirs(a, s.t)
  BY <1>3, <1>5 DEF SameDirs
<1>9. Knows(s.r, a) /\ SameDirs(a, s.u)
  BY <1>8 DEF Knows, SameDirs, Good
<1>10. i \notin s.unused
  BY <1>2 DEF Unused, Good
<1>11. Unused(s.r, a, s.unused)
  BY <1>1, <1>5, <1>10 DEF Unused, Good
<1>12. Good(x)
  BY <1>5, <1>7, <1>9, <1>11 DEF Good
<1> QED BY <1>2, <1>4, <1>5, <1>7, <1>8, <1>12 DEF Kept

LEMMA CreateFileGood ==
  ASSUME NEW s, Good(s), NEW p \in Paths, NEW d \in Dirs, IsDir(s.t, d), NEW n \in Names,
         NEW x \in psql_create_file(s, p, d, n)
  PROVE  Kept(x, s)
<1>1. PICK y : /\ x = Forgetting(y, {}, {}, {d})
               /\ \/ y \in Insert(s, d, n, "temp")
                  \/ \E z \in Add(s, d, n, "portal") : y = WithRedis(z, SetPath(z.r, p, z.id))
                  \/ \E i \in Hidden(s.t, d, n) : y = [s EXCEPT !.t = Reveal(@, i), !.id = i]
  <2>1. PICK y \in IF n \in TempNames THEN Insert(s, d, n, "temp")
                   ELSE IF Hidden(s.t, d, n) = {}
                     THEN {[z EXCEPT !.r = SetPath(@, p, z.id)] : z \in Add(s, d, n, "portal")}
                   ELSE {[s EXCEPT !.t = Reveal(@, i), !.id = i] : i \in Hidden(s.t, d, n)} :
             x = Forgetting(y, {}, {}, {d})
    BY DEF psql_create_file, Forgetting
  <2>2. CASE n \in TempNames
    BY <2>1, <2>2
  <2>3. CASE n \notin TempNames /\ Hidden(s.t, d, n) = {}
    <3>1. PICK z \in Add(s, d, n, "portal") : y = [z EXCEPT !.r = SetPath(@, p, z.id)]
      BY <2>1, <2>3
    <3>2. z \in Work
      BY AddGood DEF Good, Portal
    <3>3. y = WithRedis(z, SetPath(z.r, p, z.id))
      BY <3>1, <3>2 DEF WithRedis, Work
    <3> QED BY <2>1, <3>3
  <2>4. CASE n \notin TempNames /\ Hidden(s.t, d, n) # {}
    BY <2>1, <2>4
  <2> QED BY <2>2, <2>3, <2>4
<1>2. Kept(y, s)
  <2>1. CASE y \in Insert(s, d, n, "temp")
    BY <2>1, InsertGood DEF Kept, Others
  <2>2. CASE \E z \in Add(s, d, n, "portal") : y = WithRedis(z, SetPath(z.r, p, z.id))
    <3>1. PICK z \in Add(s, d, n, "portal") : y = WithRedis(z, SetPath(z.r, p, z.id))
      BY <2>2
    <3>2. Good(z) /\ z.r = s.r /\ z.id \in Answers /\ Others(z, s) /\ SameDirs(z.t, s.t)
      BY AddGood, Ends DEF Portal
    <3>3. /\ Good(y) /\ y.t = z.t /\ y.u = z.u /\ y.r.meta = z.r.meta
          /\ y.unused = z.unused
      BY <3>1, <3>2, PathSet
    <3> QED BY <3>2, <3>3 DEF Kept, Others
  <2>3. CASE \E i \in Hidden(s.t, d, n) : y = [s EXCEPT !.t = Reveal(@, i), !.id = i]
    BY <2>3, RevealGood
  <2> QED BY <1>1, <2>1, <2>2, <2>3
<1>3. /\ Good(x) /\ x.t = y.t /\ x.u = y.u /\ x.r = Del(y.r, {}, {}, {d})
      /\ x.unused = y.unused
  <2>1. Good(y) /\ x = Forgetting(y, {}, {}, {d})
    BY <1>1, <1>2, Zenon DEF Kept
  <2> QED BY <2>1, Forgets
<1>4. x.r.meta = y.r.meta
  <2>1. y.r \in Redises
    BY <1>2, WorkFacts DEF Good, Kept
  <2> QED BY <1>3, <2>1 DEF Del, Redises
<1> QED BY <1>2, <1>3, <1>4 DEF Kept

-------------------------------------------------------------------------------
(* Entries that go, move, change their name or are hidden.                   *)

LEMMA OneChanges ==
  ASSUME NEW s, Good(s), NEW t \in Trees, Fits(t), SameDirs(t, s.t),
         \A i \in s.unused : t[i] = NONE,
         NEW x, x = [s EXCEPT !.t = t]
  PROVE  /\ Good(x) /\ SameDirs(x.t, s.t)
         /\ x.t = t /\ x.u = s.u /\ x.r = s.r
         /\ x.unused = s.unused /\ x.failures = s.failures /\ x.id = s.id
<1>1. s \in Work /\ s.u \in Trees /\ Fits(s.u) /\ SameDirs(s.u, s.u)
  BY WorkFacts DEF Good, SameDirs
<1>2. x = WithTrees(s, t, s.u)
  BY <1>1 DEF WithTrees, Work
<1>3. \A i \in s.unused : t[i] = NONE /\ s.u[i] = NONE
  BY DEF Good, Unused
<1> QED BY <1>1, <1>2, <1>3, BothChange

Deletes(s, i) == [s EXCEPT !.t[i] = NONE, !.u[i].data = NONE]

LEMMA RowDeleted ==
  ASSUME NEW s, Good(s), NEW i \in Ids, ~IsDir(s.t, i), s.u[i] # NONE, NEW x, x = Deletes(s, i)
  PROVE  Good(x) /\ SameDirs(x.t, s.t) /\ x.r = s.r /\ x.unused = s.unused
<1>1. s \in Work /\ s.t \in Trees /\ s.u \in Trees /\ s.unused \in SUBSET Ids /\ Fits(s.t) /\ Fits(s.u)
  BY WorkFacts DEF Good
<1> DEFINE a == Put(s.t, i, NONE)
           b == [s.u EXCEPT ![i].data = NONE]
<1>2. /\ a \in Trees /\ Fits(a) /\ a[i] = NONE /\ \A j \in Ids \ {i} : a[j] = s.t[j]
      /\ \A d \in Dirs \ {i} : IsDir(a, d) <=> IsDir(s.t, d)
      /\ ~IsDir(a, i)
  BY <1>1, RowChanges
<1>3. s.u[i] \in Rows
  BY <1>1, TreeFacts
<1>4. b \in Trees /\ b[i] = [s.u[i] EXCEPT !.data = NONE] /\ \A j \in Ids \ {i} : b[j] = s.u[j]
  BY <1>1, <1>3 DEF Trees, Rows
<1>5. \A j \in Ids : /\ b[j] # NONE <=> s.u[j] # NONE
                     /\ s.u[j] # NONE => /\ b[j].kind = s.u[j].kind /\ b[j].del = s.u[j].del
                                         /\ b[j].parent = s.u[j].parent
  BY <1>3, <1>4, NothingAssumption DEF Rows
<1>6. x = WithTrees(s, a, b)
  BY <1>1 DEF Deletes, WithTrees, Put, Work
<1> HIDE DEF a, b
<1>7. Fits(b) /\ SameDirs(b, s.u)
  BY <1>1, <1>4, <1>5, SameShape
<1>8. SameDirs(a, s.t)
  BY <1>2 DEF SameDirs
<1>9. \A j \in s.unused : a[j] = NONE /\ b[j] = NONE
  BY <1>1, <1>2, <1>5 DEF Good, Unused
<1> QED BY <1>1, <1>2, <1>4, <1>6, <1>7, <1>8, <1>9, BothChange

LEMMA DeleteFileGood ==
  ASSUME NEW s, Good(s), NEW i \in Ids, ~IsDir(s.t, i), s.t[i] # NONE => s.u[i] # NONE,
         NEW x \in psql_delete_file(s, i)
  PROVE  Good(x) /\ SameDirs(x.t, s.t) /\ x.unused = s.unused
<1>1. PICK y : /\ x = Forgetting(y, {}, {i}, {})
               /\ \/ y = s
                  \/ Called(y, s, Drop(s.t, i), Drop(s.u, i))
                  \/ s.t[i] # NONE /\ y = Deletes(s, i)
  <2>1. PICK y \in IF s.t[i] = NONE THEN {s}
                   ELSE IF s.t[i].kind \in Portal THEN Call(s, LAMBDA t : Drop(t, i))
                   ELSE {Deletes(s, i)} : x = Forgetting(y, {}, {i}, {})
    BY DEF psql_delete_file, Forgetting, Deletes
  <2>2. CASE y \in Call(s, LAMBDA t : Drop(t, i))
    BY <2>1, <2>2 DEF Call, Called, WithTrees, Failed
  <2>3. CASE y \notin Call(s, LAMBDA t : Drop(t, i))
    BY <2>1, <2>3
  <2> QED BY <2>2, <2>3
<1>2. Good(y) /\ SameDirs(y.t, s.t) /\ y.unused = s.unused
  <2>1. CASE y = s
    BY <2>1 DEF SameDirs
  <2>2. CASE Called(y, s, Drop(s.t, i), Drop(s.u, i))
    BY <2>2, DropGood
  <2>3. CASE s.t[i] # NONE /\ y = Deletes(s, i)
    BY <2>3, RowDeleted
  <2> QED BY <1>1, <2>1, <2>2, <2>3
<1> QED BY <1>1, <1>2, Forgets

\* A tree of the same entries, in which the directories are the same.
Tame(v, t) ==
  /\ v \in Trees /\ Fits(v) /\ SameDirs(v, t)
  /\ \A j \in Ids : v[j] = NONE <=> t[j] = NONE

LEMMA TameSelf ==
  ASSUME NEW t \in Trees, Fits(t)
  PROVE  Tame(t, t)
  BY DEF Tame, SameDirs

LEMMA TameCall ==
  ASSUME NEW s, Good(s), NEW a, NEW b, Tame(a, s.t), Tame(b, s.u), NEW x, Called(x, s, a, b)
  PROVE  Good(x) /\ SameDirs(x.t, s.t) /\ x.r = s.r /\ x.unused = s.unused /\ x.id = s.id
<1>1. CASE s.failures < MaxFailures /\ x = Failed(s)
  BY <1>1, Fails DEF SameDirs
<1>2. CASE x = WithTrees(s, a, b)
  <2>1. \A j \in s.unused : a[j] = NONE /\ b[j] = NONE
    BY WorkFacts DEF Good, Unused, Tame
  <2> QED BY <1>2, <2>1, BothChange DEF Tame
<1> QED BY <1>1, <1>2 DEF Called

LEMMA EntitleTame ==
  ASSUME NEW t \in Trees, Fits(t), NEW i, NEW k, NEW n \in Names
  PROVE  Tame(Entitle(t, i, k, n), t)
<1> DEFINE v == [t EXCEPT ![i].name = n]
<1>1. CASE Entitle(t, i, k, n) = t
  BY <1>1, TameSelf
<1>2. CASE Is_a(t, i, k) /\ Entitle(t, i, k, n) = v
  <2>1. i \in Ids /\ t[i] \in Rows
    BY <1>2, TreeFacts DEF Is_a
  <2>2. v \in Trees /\ v[i] = [t[i] EXCEPT !.name = n] /\ \A j \in Ids \ {i} : v[j] = t[j]
    BY <2>1 DEF Trees, Rows
  <2>3. \A j \in Ids : /\ v[j] # NONE <=> t[j] # NONE
                       /\ t[j] # NONE => /\ v[j].kind = t[j].kind /\ v[j].del = t[j].del
                                         /\ v[j].parent = t[j].parent
    BY <2>1, <2>2, NothingAssumption DEF Rows
  <2> HIDE DEF v
  <2>4. Fits(v) /\ SameDirs(v, t)
    BY <2>2, <2>3, SameShape
  <2> QED BY <1>2, <2>2, <2>3, <2>4 DEF Tame
<1> QED BY <1>1, <1>2 DEF Entitle

LEMMA MoveTame ==
  ASSUME NEW t \in Trees, Fits(t), NEW i, NEW k, NEW d
  PROVE  Tame(Move(t, i, k, d), t)
<1> DEFINE v == [t EXCEPT ![i].parent = d]
<1>1. CASE Move(t, i, k, d) = t
  BY <1>1, TameSelf
<1>2. CASE Is_a(t, i, k) /\ IsDir(t, d) /\ ~Below(t, d, i) /\ Move(t, i, k, d) = v
  <2>1. i \in Ids /\ t[i] # NONE /\ t[i] \in Rows /\ d \in Dirs
    BY <1>2, TreeFacts, DirFacts DEF Is_a, Fits
  <2>2. v \in Trees /\ v[i] = [t[i] EXCEPT !.parent = d] /\ \A j \in Ids \ {i} : v[j] = t[j]
    BY <2>1 DEF Trees, Rows
  <2>3. \A j \in Ids : v[j] = NONE <=> t[j] = NONE
    BY <2>1, <2>2, NothingAssumption DEF Rows
  <2>4. Fits(v) /\ SameDirs(v, t)
    BY <1>2, <2>1, <2>2, DirMoves
  <2> HIDE DEF v
  <2> QED BY <1>2, <2>2, <2>3, <2>4 DEF Tame
<1> QED BY <1>1, <1>2 DEF Move

\* The data is written.
LEMMA WriteGood ==
  ASSUME NEW s, Good(s), NEW j, NEW data \in Ids \cup {NONE}, NEW x, x = Write(s, j, data)
  PROVE  Good(x) /\ SameDirs(x.t, s.t) /\ x.r = s.r /\ x.unused = s.unused /\ x.id = s.id
         /\ x.failures = s.failures
         /\ \A l \in Ids : /\ x.t[l] = NONE <=> s.t[l] = NONE
                           /\ x.u[l] = NONE <=> s.u[l] = NONE
                           /\ s.t[l] # NONE => x.t[l].kind = s.t[l].kind
<1> DEFINE To(t) == IF j \in Ids /\ t[j] # NONE THEN [t EXCEPT ![j].data = data] ELSE t
<1>1. s \in Work /\ s.t \in Trees /\ s.u \in Trees /\ Fits(s.t) /\ Fits(s.u)
  BY WorkFacts DEF Good
<1>3. x = WithTrees(s, To(s.t), To(s.u))
  BY <1>1 DEF Write, WithTrees, Work
<1>4. ASSUME NEW t \in Trees, Fits(t)
      PROVE  Tame(To(t), t) /\ \A l \in Ids : t[l] # NONE => To(t)[l].kind = t[l].kind
  <2>1. CASE ~(j \in Ids /\ t[j] # NONE)
    BY <1>4, <2>1, TameSelf
  <2>2. CASE j \in Ids /\ t[j] # NONE
    <3> DEFINE v == [t EXCEPT ![j].data = data]
    <3>1. t[j] \in Rows
      BY <2>2, TreeFacts
    <3>2. v \in Trees /\ v[j] = [t[j] EXCEPT !.data = data] /\ \A l \in Ids \ {j} : v[l] = t[l]
      BY <2>2, <3>1 DEF Trees, Rows
    <3>3. To(t) = v
      BY <2>2
    <3> HIDE DEF v
    <3>4. \A l \in Ids : /\ v[l] # NONE <=> t[l] # NONE
                         /\ t[l] # NONE => /\ v[l].kind = t[l].kind /\ v[l].del = t[l].del
                                           /\ v[l].parent = t[l].parent
      <4>1. /\ v[j] # NONE /\ v[j].kind = t[j].kind /\ v[j].del = t[j].del
            /\ v[j].parent = t[j].parent
        BY <3>1, <3>2, NothingAssumption DEF Rows
      <4> QED BY <2>2, <3>2, <4>1
    <3> HIDE DEF To
    <3>5. Fits(v) /\ SameDirs(v, t)
      BY <1>4, <3>2, <3>4, SameShape
    <3> QED BY <3>2, <3>3, <3>4, <3>5 DEF Tame
  <2> QED BY <2>1, <2>2
<1> DEFINE a == To(s.t)
           b == To(s.u)
<1>5. Tame(a, s.t) /\ Tame(b, s.u) /\ \A l \in Ids : s.t[l] # NONE => a[l].kind = s.t[l].kind
  BY <1>1, <1>4
<1>6. x = WithTrees(s, a, b)
  BY <1>3
<1> HIDE DEF a, b
<1>7. Good(x) /\ SameDirs(x.t, s.t) /\ x.r = s.r /\ x.unused = s.unused /\ x.id = s.id
  BY <1>5, <1>6, TameCall DEF Called
<1>8. x.t = a /\ x.u = b /\ x.failures = s.failures
  BY <1>1, <1>6 DEF WithTrees, Work
<1> QED BY <1>5, <1>7, <1>8 DEF Tame

LEMMA FailIs ==
  ASSUME NEW s, s \in Work, NEW x \in Fail(s)
  PROVE  s.failures < MaxFailures /\ x = Failed(s)
<1>1. s.failures # MaxFailures /\ x = Failed(s)
  BY DEF Fail, Failed
<1> QED BY <1>1, WorkFacts, NamespaceAssumption

\* What comes of copy_mmap: something is written to j, or nothing is.
Written(x, y, j) == x = y \/ \E data \in Ids \cup {NONE} : x = Write(y, j, data)

LEMMA CopyIs ==
  ASSUME NEW s, s \in Work, NEW i, NEW j, NEW ok, NEW x \in copy_mmap(s, i, j, ok)
  PROVE  \/ ok /\ Written(x, s, j)
         \/ ~ok /\ s.failures < MaxFailures /\ Written(x, Failed(s), j)
<1> DEFINE data == Data(s.t, i)
<1>1. data \in Ids \cup {NONE}
  BY WorkFacts, TreeFacts DEF Data
<1>2. CASE ok
  <2>1. x = s \/ x = Write(s, j, data) \/ x = Write(s, j, NONE)
    BY <1>2 DEF copy_mmap
  <2> QED BY <1>1, <1>2, <2>1 DEF Written
<1>3. CASE ~ok
  <2>1. PICK y \in Fail(s) : x = y \/ x = Write(y, j, NONE)
    BY <1>3 DEF copy_mmap
  <2>2. s.failures < MaxFailures /\ y = Failed(s)
    BY <2>1, FailIs
  <2> QED BY <1>3, <2>1, <2>2 DEF Written
<1> QED BY <1>2, <1>3

\* The data is copied, or not.
LEMMA CopyGood ==
  ASSUME NEW s, Good(s), NEW i, NEW j, NEW ok, NEW x \in copy_mmap(s, i, j, ok)
  PROVE  Good(x) /\ SameDirs(x.t, s.t) /\ x.r = s.r /\ x.unused = s.unused /\ x.id = s.id
         /\ \A l \in Ids : /\ x.t[l] = NONE <=> s.t[l] = NONE
                           /\ x.u[l] = NONE <=> s.u[l] = NONE
                           /\ s.t[l] # NONE => x.t[l].kind = s.t[l].kind
<1> DEFINE y == IF ok THEN s ELSE Failed(s)
<1>1. s \in Work
  BY DEF Good
<1>2. (ok \/ s.failures < MaxFailures) /\ Written(x, y, j)
  BY <1>1, CopyIs
<1>3. Good(y) /\ y.t = s.t /\ y.u = s.u /\ y.r = s.r /\ y.unused = s.unused /\ y.id = s.id
  <2>1. CASE ok
    BY <2>1
  <2>2. CASE ~ok
    BY <1>2, <2>2, Fails
  <2> QED BY <2>1, <2>2
<1> HIDE DEF y
<1>4. CASE x = y
  BY <1>3, <1>4 DEF SameDirs
<1>5. CASE \E data \in Ids \cup {NONE} : x = Write(y, j, data)
  <2>1. PICK data \in Ids \cup {NONE} : x = Write(y, j, data)
    BY <1>5
  <2> QED BY <1>3, <2>1, WriteGood
<1> QED BY <1>2, <1>4, <1>5 DEF Written

\* The row of a file of the portal changes, in a tree.
LEMMA FileChanges ==
  ASSUME NEW t \in Trees, Fits(t), NEW i, Is_a(t, i, "portal"), NEW w \in Rows,
         w.kind = "portal", ~w.del => IsDir(t, w.parent)
  PROVE  Tame(Put(t, i, w), t)
<1>1. i \in Ids /\ t[i] # NONE /\ ~IsDir(t, i) /\ w # NONE
  BY DirFacts, NothingAssumption DEF Is_a, Fits
<1> DEFINE a == Put(t, i, w)
<1>2. /\ a \in Trees /\ Fits(a) /\ a[i] = w /\ \A j \in Ids \ {i} : a[j] = t[j]
      /\ \A d \in Dirs \ {i} : IsDir(a, d) <=> IsDir(t, d)
      /\ ~IsDir(a, i)
  BY <1>1, RowChanges
<1> HIDE DEF a
<1>3. Tame(a, t)
  BY <1>1, <1>2 DEF Tame, SameDirs
<1> QED BY <1>3 DEF a

WithTree(s, t) == [s EXCEPT !.t = t]

LEMMA TameOne ==
  ASSUME NEW s, Good(s), NEW t, Tame(t, s.t), NEW x, x = WithTree(s, t)
  PROVE  /\ Good(x) /\ SameDirs(x.t, s.t)
         /\ x.t = t /\ x.u = s.u /\ x.r = s.r
         /\ x.unused = s.unused /\ x.failures = s.failures /\ x.id = s.id
<1>1. \A i \in s.unused : t[i] = NONE
  BY WorkFacts DEF Good, Unused, Tame
<1> QED BY <1>1, OneChanges DEF Tame, WithTree

\* A file of the portal is hidden, or shown in a directory.
Hides(s, i) == set_del_dlfileentry(s, i, TRUE)
Shows(s, i) == set_del_dlfileentry(s, i, FALSE)

LEMMA HideGood ==
  ASSUME NEW s, Good(s), NEW i, NEW x, x = Hides(s, i)
  PROVE  Good(x) /\ SameDirs(x.t, s.t) /\ x.unused = s.unused
<1> DEFINE w == [s.t[i] EXCEPT !.del = TRUE]
           a == IF Is_a(s.t, i, "portal") THEN Put(s.t, i, w) ELSE s.t
           y == WithTree(s, a)
<1>1. s \in Work /\ s.t \in Trees /\ Fits(s.t)
  BY WorkFacts DEF Good
<1>2. x = Forgetting(y, {}, {i}, {})
  BY <1>1 DEF Hides, set_del_dlfileentry, Forgetting, WithTree, Put, Work
<1>3. Is_a(s.t, i, "portal") => w \in Rows /\ w.kind = "portal" /\ w.del
  <2>1. Is_a(s.t, i, "portal") => s.t[i] \in Rows /\ s.t[i].kind = "portal"
    BY <1>1, TreeFacts DEF Is_a
  <2> QED BY <2>1 DEF Rows
<1> HIDE DEF w
<1>4. Tame(a, s.t)
  BY <1>1, <1>3, FileChanges, TameSelf
<1> HIDE DEF a
<1>5. Good(y) /\ SameDirs(y.t, s.t) /\ y.unused = s.unused
  BY <1>4, TameOne
<1> HIDE DEF y
<1> QED BY <1>2, <1>5, Forgets

\* A transaction that has failed.
RolledBack(s) == [s EXCEPT !.t = s.u]

LEMMA RolledGood ==
  ASSUME NEW s, Good(s), NEW x, x = RolledBack(s)
  PROVE  /\ Good(x) /\ SameDirs(x.t, s.t)
         /\ x.t = s.u /\ x.u = s.u /\ x.r = s.r
         /\ x.unused = s.unused /\ x.failures = s.failures /\ x.id = s.id
<1>1. s.u \in Trees /\ Fits(s.u) /\ SameDirs(s.u, s.t) /\ \A i \in s.unused : s.u[i] = NONE
  BY WorkFacts DEF Good, SameDirs, Unused
<1> QED BY <1>1, OneChanges DEF RolledBack

LEMMA HideIs ==
  ASSUME NEW s, s \in Work, NEW i, NEW x \in Hide(s, i)
  PROVE  \/ x = Hides(s, i)
         \/ s.failures < MaxFailures /\ x = Forgetting(RolledBack(Failed(s)), {}, {i}, {})
<1>1. CASE x = Hides(s, i)
  BY <1>1
<1>2. CASE x # Hides(s, i)
  <2>1. PICK y \in Fail(s) : x = [y EXCEPT !.t = y.u, !.r = Del(@, {}, {i}, {})]
    BY <1>2 DEF Hide, Hides
  <2>2. s.failures < MaxFailures /\ y = Failed(s)
    BY <2>1, FailIs
  <2>3. y = [t |-> s.t, u |-> s.u, r |-> s.r, unused |-> s.unused, failures |-> s.failures + 1, id |-> s.id]
    BY <2>2 DEF Failed, Work
  <2>4. x = Forgetting(RolledBack(y), {}, {i}, {})
    BY <2>1, <2>3 DEF Forgetting, RolledBack
  <2> QED BY <2>2, <2>4
<1> QED BY <1>1, <1>2

LEMMA HidGood ==
  ASSUME NEW s, Good(s), NEW i, NEW x \in Hide(s, i)
  PROVE  Good(x) /\ SameDirs(x.t, s.t) /\ x.unused = s.unused
<1>1. s \in Work
  BY DEF Good
<1>2. CASE x = Hides(s, i)
  BY <1>2, HideGood
<1>3. CASE s.failures < MaxFailures /\ x = Forgetting(RolledBack(Failed(s)), {}, {i}, {})
  <2> DEFINE y == Failed(s)
             z == RolledBack(y)
  <2>1. Good(y) /\ y.t = s.t /\ y.unused = s.unused
    BY <1>3, Fails
  <2>2. x = Forgetting(z, {}, {i}, {})
    BY <1>3
  <2> HIDE DEF y
  <2>3. Good(z) /\ SameDirs(z.t, y.t) /\ z.unused = y.unused
    BY <2>1, RolledGood
  <2> HIDE DEF z
  <2> QED BY <2>1, <2>2, <2>3, Forgets
<1> QED BY <1>1, <1>2, <1>3, HideIs

LEMMA ShowGood ==
  ASSUME NEW s, Good(s), NEW i, Is_a(s.t, i, "portal") => IsDir(s.t, s.t[i].parent),
         NEW x, x = Shows(s, i)
  PROVE  Good(x) /\ Tame(x.t, s.t) /\ x.unused = s.unused /\ x.u = s.u
<1> DEFINE w == [s.t[i] EXCEPT !.del = FALSE]
           a == IF Is_a(s.t, i, "portal") THEN Put(s.t, i, w) ELSE s.t
<1>1. s \in Work /\ s.t \in Trees /\ Fits(s.t)
  BY WorkFacts DEF Good
<1>2. x = WithTree(s, a)
  BY <1>1 DEF Shows, set_del_dlfileentry, WithTree, Put, Work
<1>3. Is_a(s.t, i, "portal") => w \in Rows /\ w.kind = "portal" /\ w.parent = s.t[i].parent
  <2>1. Is_a(s.t, i, "portal") => s.t[i] \in Rows /\ s.t[i].kind = "portal"
    BY <1>1, TreeFacts DEF Is_a
  <2> QED BY <2>1 DEF Rows
<1> HIDE DEF w
<1>4. Tame(a, s.t)
  BY <1>1, <1>3, FileChanges, TameSelf
<1> HIDE DEF a
<1> QED BY <1>2, <1>4, TameOne

LEMMA DeleteRowGood ==
  ASSUME NEW s, Good(s), NEW i \in Ids, ~IsDir(s.t, i), NEW x, x = DeleteRow(s, i)
  PROVE  Good(x) /\ SameDirs(x.t, s.t) /\ x.unused = s.unused /\ x.r = s.r
<1>1. CASE x = s
  BY <1>1 DEF SameDirs
<1>2. CASE x # s
  <2> DEFINE a == Put(s.t, i, NONE)
  <2>1. s \in Work /\ s.t \in Trees /\ Fits(s.t) /\ s.unused \in SUBSET Ids
    BY WorkFacts DEF Good
  <2>2. /\ a \in Trees /\ Fits(a) /\ a[i] = NONE /\ \A j \in Ids \ {i} : a[j] = s.t[j]
        /\ \A d \in Dirs \ {i} : IsDir(a, d) <=> IsDir(s.t, d)
        /\ ~IsDir(a, i)
    BY <2>1, RowChanges
  <2>3. x = [s EXCEPT !.t = a]
    BY <1>2, <2>1 DEF DeleteRow, Put, Work
  <2> HIDE DEF a
  <2>4. SameDirs(a, s.t)
    BY <2>2 DEF SameDirs
  <2>5. \A j \in s.unused : a[j] = NONE
    BY <2>1, <2>2 DEF Good, Unused
  <2> QED BY <2>2, <2>3, <2>4, <2>5, OneChanges
<1> QED BY <1>1, <1>2

-------------------------------------------------------------------------------
(* The cases of a rename.                                                    *)

LEMMA RenameDirGood ==
  ASSUME NEW s, Good(s), NEW i, NEW d, NEW to_d, NEW n \in Names, NEW x \in RenameDir(s, i, d, to_d, n)
  PROVE  Good(x)
<1>1. PICK y, z : /\ Called(y, s, Entitle(s.t, i, "dir", n), Entitle(s.u, i, "dir", n))
                  /\ z = y \/ Called(z, y, Move(y.t, i, "dir", to_d), Move(y.u, i, "dir", to_d))
                  /\ x = Forgetting(z, {}, {i}, {})
  <2>1. PICK z \in UNION {IF d = to_d THEN {y} ELSE Call(y, LAMBDA t : Move(t, i, "dir", to_d)) :
                  y \in Call(s, LAMBDA t : Entitle(t, i, "dir", n))} : x = Forgetting(z, {}, {i}, {})
    BY DEF RenameDir, Forgetting
  <2>2. PICK y \in Call(s, LAMBDA t : Entitle(t, i, "dir", n)) :
          z \in IF d = to_d THEN {y} ELSE Call(y, LAMBDA t : Move(t, i, "dir", to_d))
    BY <2>1
  <2>3. Called(y, s, Entitle(s.t, i, "dir", n), Entitle(s.u, i, "dir", n))
    BY <2>2 DEF Call, Called, WithTrees, Failed
  <2>4. z = y \/ Called(z, y, Move(y.t, i, "dir", to_d), Move(y.u, i, "dir", to_d))
    BY <2>2 DEF Call, Called, WithTrees, Failed
  <2> QED BY <2>1, <2>3, <2>4
<1>2. Good(y)
  <2>1. s.t \in Trees /\ s.u \in Trees /\ Fits(s.t) /\ Fits(s.u)
    BY WorkFacts DEF Good
  <2>2. Tame(Entitle(s.t, i, "dir", n), s.t) /\ Tame(Entitle(s.u, i, "dir", n), s.u)
    BY <2>1, EntitleTame
  <2> QED BY <1>1, <2>2, TameCall
<1>3. Good(z)
  <2>1. y.t \in Trees /\ y.u \in Trees /\ Fits(y.t) /\ Fits(y.u)
    BY <1>2, WorkFacts DEF Good
  <2>2. Tame(Move(y.t, i, "dir", to_d), y.t) /\ Tame(Move(y.u, i, "dir", to_d), y.u)
    BY <2>1, MoveTame
  <2> QED BY <1>1, <1>2, <2>2, TameCall
<1> QED BY <1>1, <1>3, Forgets

\* Attributes are read, and kept in Redis.
LEMMA ReadGood ==
  ASSUME NEW s, Good(s), NEW d \in Answers, NEW x, x = WithRedis(s, psql_read_meta(s.r, s.t, d).r)
  PROVE  Good(x) /\ x.t = s.t /\ x.u = s.u /\ x.unused = s.unused
         /\ x.r = psql_read_meta(s.r, s.t, d).r /\ x.id = s.id /\ x.failures = s.failures
<1> DEFINE m == psql_read_meta(s.r, s.t, d)
<1>1. s.r \in Redises /\ s.t \in Trees /\ s.unused \in SUBSET Ids /\ Knows(s.r, s.t)
      /\ Unused(s.r, s.t, s.unused)
  BY WorkFacts DEF Good
<1>2. m.r \in Redises
  BY <1>1, ReadMetaFacts DEF Reads
<1>3. Knows(m.r, s.t) /\ Unused(m.r, s.t, s.unused)
  BY <1>1, ReadMetaKnows
<1> QED BY <1>2, <1>3, RedisChanges

LEMMA ParentsGood ==
  ASSUME NEW s, Good(s), NEW d \in Answers, NEW to_d \in Answers, NEW x, x = Parents(s, d, to_d)
  PROVE  /\ Good(x.s) /\ x.s.t = s.t /\ x.s.u = s.u /\ x.s.unused = s.unused
         /\ x.dirs => IsDir(s.t, d) /\ IsDir(s.t, to_d)
<1> DEFINE a == psql_read_meta(s.r, s.t, d)
           y == WithRedis(s, a.r)
           b == psql_read_meta(y.r, y.t, to_d)
           z == WithRedis(y, b.r)
<1>1. s \in Work /\ s.r \in Redises /\ s.t \in Trees /\ s.unused \in SUBSET Ids
      /\ Knows(s.r, s.t) /\ Unused(s.r, s.t, s.unused)
  BY WorkFacts DEF Good
<1>2. Good(y) /\ y.t = s.t /\ y.u = s.u /\ y.unused = s.unused /\ y.r = a.r
  BY ReadGood
<1>3. Is(a, "dir") => IsDir(s.t, d)
  BY <1>1, ReadMetaKnows
<1>4. b = psql_read_meta(a.r, s.t, to_d) /\ z = [s EXCEPT !.r = b.r]
  BY <1>1, <1>2 DEF WithRedis, Work
<1>5. x.dirs = (Is(a, "dir") /\ Is(b, "dir"))
      /\ x.s = IF Is(a, "dir") THEN z ELSE y
  BY <1>4 DEF Parents, WithRedis
<1> HIDE DEF a, y
<1>6. y.r \in Redises /\ y.t \in Trees /\ y.unused \in SUBSET Ids
      /\ Knows(y.r, y.t) /\ Unused(y.r, y.t, y.unused)
  BY <1>2, WorkFacts DEF Good
<1>7. Is(b, "dir") => IsDir(y.t, to_d)
  BY <1>6, ReadMetaKnows
<1>8. Good(z) /\ z.t = y.t /\ z.u = y.u /\ z.unused = y.unused
  BY <1>2, ReadGood
<1> HIDE DEF b, z
<1> QED BY <1>2, <1>3, <1>5, <1>7, <1>8

LEMMA RenameTempGood ==
  ASSUME NEW s, Good(s), NEW i \in Ids, ~IsDir(s.t, i), NEW d \in Answers, NEW to_d \in Answers,
         NEW n \in Names, NEW x \in RenameTemp(s, i, d, to_d, n)
  PROVE  Good(x)
<1> DEFINE y == Parents(s, d, to_d).s
           w == [s.t[i] EXCEPT !.parent = to_d, !.name = n]
           a == Put(s.t, i, w)
           z == [y EXCEPT !.t = a]
<1>1. Good(y) /\ y.t = s.t /\ y.unused = s.unused
      /\ (Parents(s, d, to_d).dirs => IsDir(s.t, to_d))
  BY ParentsGood
<1>2. CASE x = y
  BY <1>1, <1>2
<1>3. CASE x # y
  <2>1. Parents(s, d, to_d).dirs /\ s.t[i] # NONE
        /\ x = [y EXCEPT !.t[i].parent = to_d, !.t[i].name = n, !.r = Del(@, {}, {i}, {})]
    BY <1>3 DEF RenameTemp
  <2>2. y \in Work /\ s.t \in Trees /\ IsDir(s.t, to_d) /\ Fits(s.t) /\ to_d \in Dirs
    BY <1>1, <2>1, WorkFacts, DirFacts DEF Good, Fits
  <2>3. s.t[i] \in Rows
    BY <2>1, <2>2, TreeFacts
  <2>4. x = Forgetting(z, {}, {i}, {})
    BY <1>1, <2>1, <2>2, <2>3 DEF Forgetting, Put, Work, Trees, Rows
  <2>5. w \in Rows /\ w # NONE /\ w.kind = s.t[i].kind /\ w.parent = to_d
        /\ (w.del => w.kind = "portal") /\ w.kind # "dir"
    <3>1. s.t[i].kind # "dir" /\ (s.t[i].del => s.t[i].kind = "portal")
      BY <2>1, <2>2, DirFacts DEF Fits, HiddenAreFiles
    <3> QED BY <2>2, <2>3, <3>1, NothingAssumption DEF Rows
  <2> HIDE DEF w
  <2>6. /\ a \in Trees /\ Fits(a) /\ a[i] = w /\ \A j \in Ids \ {i} : a[j] = s.t[j]
        /\ \A e \in Dirs \ {i} : IsDir(a, e) <=> IsDir(s.t, e)
        /\ ~IsDir(a, i)
    BY <2>2, <2>5, RowChanges
  <2>7. SameDirs(a, y.t) /\ \A j \in y.unused : a[j] = NONE
    <3>1. i \notin y.unused
      BY <1>1, <2>1 DEF Good, Unused
    <3> QED BY <1>1, <2>6, <3>1, WorkFacts DEF SameDirs, Good, Unused
  <2>8. z = [y EXCEPT !.t = a]
    OBVIOUS
  <2> HIDE DEF a, y, z
  <2>9. Good(z)
    BY <1>1, <2>6, <2>7, <2>8, OneChanges
  <2> QED BY <2>4, <2>9, Forgets
<1> QED BY <1>2, <1>3

LEMMA RenamePortalGood ==
  ASSUME NEW s, Good(s), NEW i, NEW d \in Answers, NEW to_d \in Answers, NEW n \in Names,
         NEW x \in RenamePortal(s, i, d, to_d, n)
  PROVE  Good(x)
<1> DEFINE p == Parents(s, d, to_d).s
<1>1. Good(p)
  BY ParentsGood
<1>2. CASE x = p
  BY <1>1, <1>2
<1>3. CASE x # p
  <2>1. PICK y : /\ y = p \/ Called(y, p, Move(p.t, i, "portal", to_d), Move(p.u, i, "portal", to_d))
                 /\ Called(x, y, Entitle(y.t, i, "portal", n), Entitle(y.u, i, "portal", n))
    <3>1. PICK y \in IF d = to_d THEN {p} ELSE Call(p, LAMBDA t : Move(t, i, "portal", to_d)) :
                 x \in Call(y, LAMBDA t : Entitle(t, i, "portal", n))
      BY <1>3 DEF RenamePortal
    <3>2. y = p \/ Called(y, p, Move(p.t, i, "portal", to_d), Move(p.u, i, "portal", to_d))
      BY <3>1 DEF Call, Called, WithTrees, Failed
    <3>3. Called(x, y, Entitle(y.t, i, "portal", n), Entitle(y.u, i, "portal", n))
      BY <3>1 DEF Call, Called, WithTrees, Failed
    <3> QED BY <3>2, <3>3
  <2> HIDE DEF p
  <2>2. Good(y)
    <3>1. p.t \in Trees /\ p.u \in Trees /\ Fits(p.t) /\ Fits(p.u)
      BY <1>1, WorkFacts DEF Good
    <3>2. Tame(Move(p.t, i, "portal", to_d), p.t) /\ Tame(Move(p.u, i, "portal", to_d), p.u)
      BY <3>1, MoveTame
    <3> QED BY <1>1, <2>1, <3>2, TameCall
  <2>3. y.t \in Trees /\ y.u \in Trees /\ Fits(y.t) /\ Fits(y.u)
    BY <2>2, WorkFacts DEF Good
  <2>4. Tame(Entitle(y.t, i, "portal", n), y.t) /\ Tame(Entitle(y.u, i, "portal", n), y.u)
    BY <2>3, EntitleTame
  <2> QED BY <2>1, <2>2, <2>4, TameCall
<1> QED BY <1>2, <1>3

LEMMA IdChanges ==
  ASSUME NEW s, Good(s), NEW a \in Answers, NEW x, x = [s EXCEPT !.id = a]
  PROVE  Good(x) /\ x.t = s.t /\ x.u = s.u /\ x.r = s.r /\ x.unused = s.unused /\ x.id = a
         /\ x.failures = s.failures
<1>1. s \in Work
  BY DEF Good
<1>2. x \in Work /\ x.t = s.t /\ x.u = s.u /\ x.r = s.r /\ x.unused = s.unused /\ x.id = a
      /\ x.failures = s.failures
  BY <1>1 DEF Work
<1>3. Good(x)
  BY <1>2 DEF Good
<1> QED BY <1>2, <1>3

\* Attributes that tell what the entry is are written to Redis.
LEMMA MetaSet ==
  ASSUME NEW s, Good(s), NEW d \in Dirs, d \notin s.unused, NEW m \in Metas,
         m.mode = "dir" <=> IsDir(s.t, d),
         NEW x, x = WithRedis(s, SetMeta(s.r, d, m))
  PROVE  Good(x) /\ x.t = s.t /\ x.u = s.u /\ x.unused = s.unused /\ x.id = s.id
         /\ x.failures = s.failures /\ x.r = SetMeta(s.r, d, m)
<1> DEFINE r == SetMeta(s.r, d, m)
<1>1. s.r \in Redises /\ s.unused \in SUBSET Ids
  BY WorkFacts DEF Good
<1>2. r \in Redises /\ r.meta = [s.r.meta EXCEPT ![d] = m] /\ s.r.meta \in [Dirs -> Metas \cup {NONE}]
  BY <1>1, SetMetaFacts DEF Redises
<1>3. x = WithRedis(s, r)
  OBVIOUS
<1> HIDE DEF r
<1>4. Knows(r, s.t)
  BY <1>2 DEF Knows, Good
<1>5. Unused(r, s.t, s.unused)
  BY <1>1, <1>2, Ends DEF Unused, Good
<1>6. Good(x) /\ x.t = s.t /\ x.u = s.u /\ x.unused = s.unused /\ x.id = s.id
      /\ x.failures = s.failures /\ x.r = r
  BY <1>2, <1>3, <1>4, <1>5, RedisChanges
<1> QED BY <1>6 DEF r

LEMMA FindGood ==
  ASSUME NEW s, Good(s), NEW t, NEW to \in Paths, NEW x, x = FindPath(s, t, to)
  PROVE  /\ Good(x) /\ x.t = s.t /\ x.u = s.u /\ x.unused = s.unused /\ x.failures = s.failures
         /\ x.id = psql_path_to_id(s.r, t, to).id /\ x.r = psql_path_to_id(s.r, t, to).r
<1> DEFINE a == psql_path_to_id(s.r, t, to)
           y == WithRedis(s, a.r)
<1>1. s.r \in Redises /\ s \in Work
  BY WorkFacts DEF Good
<1>2. a.id \in Answers /\ a.r \in Redises /\ a.r.meta = s.r.meta
  BY <1>1, LookupFacts
<1>3. x = [y EXCEPT !.id = a.id]
  BY <1>1 DEF FindPath, WithRedis, Work
<1> HIDE DEF a
<1>4. Knows(a.r, s.t) /\ Unused(a.r, s.t, s.unused)
  BY <1>2 DEF Knows, Unused, Good
<1>5. Good(y) /\ y.t = s.t /\ y.u = s.u /\ y.unused = s.unused /\ y.r = a.r /\ y.failures = s.failures
  BY <1>2, <1>4, RedisChanges
<1> HIDE DEF y
<1>6. Good(x) /\ x.t = y.t /\ x.u = y.u /\ x.unused = y.unused /\ x.id = a.id /\ x.r = y.r
      /\ x.failures = y.failures
  BY <1>2, <1>3, <1>5, IdChanges
<1> QED BY <1>5, <1>6 DEF a

LEMMA FillGood ==
  ASSUME NEW s, Good(s), NEW i, NEW to \in Paths, NEW ok, NEW x \in Fill(s, i, to, ok)
  PROVE  /\ Good(x) /\ SameDirs(x.t, s.t) /\ x.unused = s.unused
         /\ x.id = psql_path_to_id(s.r, s.t, to).id
         /\ \A l \in Ids : /\ x.t[l] = NONE <=> s.t[l] = NONE
                           /\ x.u[l] = NONE <=> s.u[l] = NONE
                           /\ s.t[l] # NONE => x.t[l].kind = s.t[l].kind
<1> DEFINE y == FindPath(s, s.t, to)
<1>2. Good(y) /\ y.t = s.t /\ y.u = s.u /\ y.unused = s.unused /\ y.id = psql_path_to_id(s.r, s.t, to).id
  BY FindGood
<1>3. x \in copy_mmap(y, i, y.id, ok)
  BY DEF Fill
<1> HIDE DEF y
<1>4. Good(x) /\ SameDirs(x.t, y.t) /\ x.unused = y.unused /\ x.id = y.id
      /\ \A l \in Ids : /\ x.t[l] = NONE <=> y.t[l] = NONE
                        /\ x.u[l] = NONE <=> y.u[l] = NONE
                        /\ y.t[l] # NONE => x.t[l].kind = y.t[l].kind
  BY <1>2, <1>3, CopyGood
<1> QED BY <1>2, <1>4

LEMMA RenameAcrossGood ==
  ASSUME NEW s, Good(s), NEW i \in Dirs \ s.unused, i \in Ids /\ s.t[i] # NONE => s.u[i] # NONE,
         NEW m \in Metas, m.mode # "dir", NEW from, NEW to \in Paths, NEW to_d \in Dirs,
         IsDir(s.t, to_d), NEW n \in Names, NEW ok, NEW x \in RenameAcross(s, i, m, from, to, to_d, n, ok)
  PROVE  Good(x)
<1> DEFINE Showing(h) == [Shows(s, h) EXCEPT !.r = SetMeta(@, h, m)]
<1>1. CASE x = s
  BY <1>1
<1>2. CASE x # s
  <2>1. PICK y, z : /\ \/ y \in psql_create_file(s, to, to_d, n)
                       \/ \E h \in Hidden(s.t, to_d, n) : y = Showing(h)
                    /\ z \in Fill(y, i, to, ok)
                    /\ \/ OfPortal(s.t, i) /\ x \in Hide(z, i)
                       \/ x = z
                       \/ ~OfPortal(s.t, i) /\ x \in psql_delete_file(z, i)
    <3> DEFINE hidden == IF n \in TempNames THEN {} ELSE Hidden(s.t, to_d, n)
               Removed(z) ==
                 IF OfPortal(s.t, i) THEN Hide(z, i)
                 ELSE IF z.id \in Ids /\ ~OfPortal(z.t, z.id) THEN {z}
                 ELSE psql_delete_file(z, i)
    <3>1. PICK y \in IF hidden = {} THEN psql_create_file(s, to, to_d, n) ELSE {Showing(h) : h \in hidden} :
                 x \in UNION {Removed(z) : z \in Fill(y, i, to, ok)}
      BY ZenonT(60), <1>2 DEF RenameAcross, Shows
    <3>2. \/ y \in psql_create_file(s, to, to_d, n)
          \/ \E h \in Hidden(s.t, to_d, n) : y = Showing(h)
      BY <3>1
    <3>3. PICK z \in Fill(y, i, to, ok) : x \in Removed(z)
      BY <3>1
    <3> QED BY <3>2, <3>3
  <2>2. /\ Good(y) /\ SameDirs(y.t, s.t)
        /\ \A j \in Ids \ s.unused : (y.t[j] = NONE <=> s.t[j] = NONE) /\ y.u[j] = s.u[j]
    <3>1. CASE y \in psql_create_file(s, to, to_d, n)
      BY <3>1, CreateFileGood DEF Kept
    <3>2. CASE \E h \in Hidden(s.t, to_d, n) : y = Showing(h)
      <4>1. PICK h \in Hidden(s.t, to_d, n) : y = Showing(h)
        BY <3>2
      <4> DEFINE v == Shows(s, h)
      <4>2. s.t \in Trees /\ s.unused \in SUBSET Ids
        BY WorkFacts DEF Good
      <4>3. h \in Ids /\ h \in Dirs /\ s.t[h] # NONE /\ s.t[h].kind = "portal" /\ s.t[h].parent = to_d
            /\ h \notin s.unused /\ ~IsDir(s.t, h)
        BY <4>2, DirFacts DEF Hidden, Dirs, Good, Fits, HiddenAreFiles, Unused
      <4>4. /\ Good(v) /\ SameDirs(v.t, s.t) /\ v.unused = s.unused /\ v.u = s.u
            /\ \A j \in Ids : v.t[j] = NONE <=> s.t[j] = NONE
        BY <4>3, ShowGood DEF Tame
      <4>5. v \in Work /\ h \notin v.unused /\ (m.mode = "dir" <=> IsDir(v.t, h))
        BY <4>3, <4>4 DEF SameDirs, Good
      <4>6. y = WithRedis(v, SetMeta(v.r, h, m))
        BY <4>1, <4>5 DEF WithRedis, Work
      <4> HIDE DEF v
      <4>7. Good(y) /\ y.t = v.t /\ y.u = v.u
        BY <4>3, <4>4, <4>5, <4>6, MetaSet
      <4> QED BY <4>4, <4>7
    <3> QED BY <2>1, <3>1, <3>2
  <2>3. /\ Good(z) /\ SameDirs(z.t, s.t)
        /\ i \in Ids => (z.t[i] = NONE <=> s.t[i] = NONE) /\ (z.u[i] = NONE <=> s.u[i] = NONE)
    <3>1. /\ Good(z) /\ SameDirs(z.t, y.t)
          /\ \A l \in Ids : (z.t[l] = NONE <=> y.t[l] = NONE) /\ (z.u[l] = NONE <=> y.u[l] = NONE)
      <4>1. z \in Fill(y, i, to, ok)
        BY <2>1
      <4> QED BY <2>2, <4>1, FillGood
    <3> QED BY <2>2, <3>1 DEF SameDirs
  <2>4. CASE OfPortal(s.t, i) /\ x \in Hide(z, i)
    BY <2>3, <2>4, HidGood
  <2>5. CASE x = z
    BY <2>3, <2>5
  <2>6. CASE ~OfPortal(s.t, i) /\ x \in psql_delete_file(z, i)
    <3>1. i \in Ids /\ ~IsDir(s.t, i)
      BY <2>6 DEF OfPortal, IsDir, Shown, Portal, Dirs
    <3>2. ~IsDir(z.t, i) /\ (z.t[i] # NONE => z.u[i] # NONE)
      BY <2>3, <3>1 DEF SameDirs
    <3> QED BY <2>3, <2>6, <3>1, <3>2, DeleteFileGood
  <2> QED BY <2>1, <2>4, <2>5, <2>6
<1> QED BY <1>1, <1>2

\* The data is unlinked, but the row stays.
Unlinks(s, i) == [s EXCEPT !.u[i].data = NONE]

LEMMA UnlinksGood ==
  ASSUME NEW s, Good(s), NEW i \in Ids, s.u[i] # NONE, NEW x, x = Unlinks(s, i)
  PROVE  Good(x)
<1> DEFINE b == [s.u EXCEPT ![i].data = NONE]
<1>1. s \in Work /\ s.t \in Trees /\ s.u \in Trees /\ s.unused \in SUBSET Ids /\ Fits(s.t) /\ Fits(s.u)
  BY WorkFacts DEF Good
<1>3. s.u[i] \in Rows
  BY <1>1, TreeFacts
<1>4. b \in Trees /\ b[i] = [s.u[i] EXCEPT !.data = NONE] /\ \A j \in Ids \ {i} : b[j] = s.u[j]
  BY <1>1, <1>3 DEF Trees, Rows
<1>5. \A j \in Ids : /\ b[j] # NONE <=> s.u[j] # NONE
                     /\ s.u[j] # NONE => /\ b[j].kind = s.u[j].kind /\ b[j].del = s.u[j].del
                                         /\ b[j].parent = s.u[j].parent
  BY <1>3, <1>4, NothingAssumption DEF Rows
<1>6. x = WithTrees(s, s.t, b)
  BY <1>1 DEF Unlinks, WithTrees, Work
<1> HIDE DEF b
<1>7. Fits(b) /\ SameDirs(b, s.u) /\ SameDirs(s.t, s.t)
  BY <1>1, <1>4, <1>5, SameShape DEF SameDirs
<1>9. \A j \in s.unused : s.t[j] = NONE /\ b[j] = NONE
  BY <1>1, <1>5 DEF Good, Unused
<1> QED BY <1>1, <1>4, <1>6, <1>7, <1>9, BothChange

\* The steps of RenameLost.
ShownAgain(y, f, s, m, to_d, n) ==
  y = f \/ \E h \in Hidden(s.t, to_d, n) : y = WithRedis(f, SetMeta(f.r, h, m))

LostFrom(f, y, z, w, s, i, m, to, to_d, n, ok) ==
  /\ f \in Fail(s)
  /\ ShownAgain(y, f, s, m, to_d, n)
  /\ z = FindPath(y, Down, to) \/ z \in copy_mmap(FindPath(y, Down, to), i, FindPath(y, Down, to).id, ok)
  /\ w = z \/ (z.u[i] # NONE /\ w = Unlinks(z, i))

LEMMA LostIs ==
  ASSUME NEW s, s \in Work, NEW i, NEW m, NEW to, NEW to_d, NEW n, NEW ok,
         NEW x \in RenameLost(s, i, m, to, to_d, n, ok)
  PROVE  \E f, y, z, w : LostFrom(f, y, z, w, s, i, m, to, to_d, n, ok) /\ x = RolledBack(w)
<1> DEFINE Begun(f) == {f} \cup {[f EXCEPT !.r = SetMeta(@, h, m)] : h \in Hidden(s.t, to_d, n)}
           Filled(y) == LET v == FindPath(y, Down, to) IN {v} \cup copy_mmap(v, i, v.id, ok)
           Removed(z) ==
             {z} \cup (IF (z.id \in Ids /\ ~OfPortal(s.t, z.id)) \/ z.u[i] = NONE THEN {}
                       ELSE {[z EXCEPT !.u[i].data = NONE]})
<1>1. x \in UNION {UNION {UNION {{RolledBack(w) : w \in Removed(z)} : z \in Filled(y)} : y \in Begun(f)} : f \in Fail(s)}
  BY DEF RenameLost, RolledBack
<1> HIDE DEF Begun, Filled, Removed
<1>2. PICK f \in Fail(s) : x \in UNION {UNION {{RolledBack(w) : w \in Removed(z)} : z \in Filled(y)} : y \in Begun(f)}
  BY <1>1
<1>3. PICK y \in Begun(f) : x \in UNION {{RolledBack(w) : w \in Removed(z)} : z \in Filled(y)}
  BY <1>2
<1>4. PICK z \in Filled(y) : x \in {RolledBack(w) : w \in Removed(z)}
  BY <1>3
<1>5. PICK w \in Removed(z) : x = RolledBack(w)
  BY <1>4
<1>6. y = f \/ \E h \in Hidden(s.t, to_d, n) : y = WithRedis(f, SetMeta(f.r, h, m))
  <2>1. CASE y = f
    BY <2>1
  <2>2. CASE y # f
    <3>1. PICK h \in Hidden(s.t, to_d, n) : y = [f EXCEPT !.r = SetMeta(@, h, m)]
      BY <1>3, <2>2 DEF Begun
    <3>2. f \in Work \/ f = Failed(s)
      BY FailIs
    <3>3. y = WithRedis(f, SetMeta(f.r, h, m))
      BY <3>1, <3>2 DEF WithRedis, Failed, Work
    <3> QED BY <3>3
  <2> QED BY <2>1, <2>2
<1>7. z = FindPath(y, Down, to) \/ z \in copy_mmap(FindPath(y, Down, to), i, FindPath(y, Down, to).id, ok)
  BY <1>4 DEF Filled
<1>8. w = z \/ (z.u[i] # NONE /\ w = Unlinks(z, i))
  BY <1>5 DEF Removed, Unlinks
<1>9. LostFrom(f, y, z, w, s, i, m, to, to_d, n, ok)
  BY <1>6, <1>7, <1>8 DEF LostFrom, ShownAgain
<1> QED BY <1>5, <1>9

LEMMA LostBegins ==
  ASSUME NEW s, Good(s), NEW m \in Metas, m.mode # "dir", NEW to_d, NEW n,
         NEW f \in Fail(s), NEW y, ShownAgain(y, f, s, m, to_d, n)
  PROVE  Good(y) /\ y.t = s.t /\ y.u = s.u /\ y.failures = s.failures + 1
<1>1. s \in Work
  BY DEF Good
<1>3. Good(f) /\ f.t = s.t /\ f.u = s.u /\ f.unused = s.unused /\ f.failures = s.failures + 1
  <2>1. s.failures < MaxFailures /\ f = Failed(s)
    BY <1>1, FailIs
  <2> QED BY <2>1, Fails
<1>4. CASE y = f
  BY <1>3, <1>4
<1>5. CASE \E h \in Hidden(s.t, to_d, n) : y = WithRedis(f, SetMeta(f.r, h, m))
  <2>1. PICK h \in Hidden(s.t, to_d, n) : y = WithRedis(f, SetMeta(f.r, h, m))
    BY <1>5
  <2>2. s.t \in Trees /\ s.unused \in SUBSET Ids
    BY WorkFacts DEF Good
  <2>3. h \in Ids /\ h \in Dirs /\ h \notin s.unused /\ ~IsDir(s.t, h)
    BY <2>2, DirFacts DEF Hidden, Dirs, Good, Fits, HiddenAreFiles, Unused
  <2> QED BY <1>3, <2>1, <2>3, MetaSet
<1> QED BY <1>4, <1>5 DEF ShownAgain

LEMMA RenameLostGood ==
  ASSUME NEW s, Good(s), NEW i \in Ids,
         NEW m \in Metas, m.mode # "dir", NEW to \in Paths, NEW to_d,
         NEW n, NEW ok, NEW x \in RenameLost(s, i, m, to, to_d, n, ok)
  PROVE  Good(x)
<1>1. s \in Work
  BY DEF Good
<1>2. PICK f, y, z, w : LostFrom(f, y, z, w, s, i, m, to, to_d, n, ok) /\ x = RolledBack(w)
  BY <1>1, LostIs
<1>3. f \in Fail(s) /\ ShownAgain(y, f, s, m, to_d, n)
  BY <1>2 DEF LostFrom
<1>4. Good(y)
  BY <1>3, LostBegins
<1>5. Good(z)
  <2> DEFINE v == FindPath(y, Down, to)
  <2>1. Good(v)
    BY <1>4, FindGood
  <2>2. z = v \/ z \in copy_mmap(v, i, v.id, ok)
    BY <1>2 DEF LostFrom
  <2> HIDE DEF v
  <2> QED BY <2>1, <2>2, CopyGood
<1>6. Good(w)
  <2>1. w = z \/ (z.u[i] # NONE /\ w = Unlinks(z, i))
    BY <1>2 DEF LostFrom
  <2> QED BY <1>5, <2>1, UnlinksGood
<1> QED BY <1>2, <1>6, RolledGood

LEMMA PsqlRenameGood ==
  ASSUME NEW s, Good(s), NEW i \in Dirs \ s.unused, i \in Ids /\ s.t[i] # NONE => s.u[i] # NONE,
         NEW d \in Dirs, NEW to_d \in Dirs, IsDir(s.t, to_d),
         NEW from \in Paths, NEW to \in Paths, to # <<>>, NEW ok,
         NEW x \in psql_rename(s, i, d, to_d, from, to, ok)
  PROVE  Good(x)
<1> DEFINE m == psql_read_meta_from_path(s.r, s.t, from)
           y == WithRedis(s, m.r)
           n == Last(to)
<1>1. s.r \in Redises /\ s.t \in Trees /\ s.unused \in SUBSET Ids /\ Knows(s.r, s.t)
      /\ Unused(s.r, s.t, s.unused)
  BY WorkFacts DEF Good
<1>2. m.r \in Redises /\ m.meta \in Metas \cup {NONE}
  BY <1>1, FromPathFacts
<1>3. Knows(m.r, s.t) /\ Unused(m.r, s.t, s.unused)
  BY <1>1, FromPathKnows
<1>4. Good(y) /\ y.t = s.t /\ y.u = s.u /\ y.unused = s.unused
  BY <1>2, <1>3, RedisChanges
<1>5. n \in Names /\ d \in Answers /\ to_d \in Answers
  BY PathFacts, Ends
<1>6. \/ x = y
      \/ x \in RenameDir(y, i, d, to_d, n)
      \/ ~OfPortal(s.t, i) /\ x \in RenameTemp(y, i, d, to_d, n)
      \/ x \in RenamePortal(y, i, d, to_d, n)
      \/ m.meta # NONE /\ ~Is(m, "dir") /\ x \in RenameAcross(y, i, m.meta, from, to, to_d, n, ok)
      \/ /\ m.meta # NONE /\ ~Is(m, "dir") /\ ~OfPortal(s.t, i)
         /\ x \in RenameLost(y, i, m.meta, to, to_d, n, ok)
  BY DEF psql_rename, WithRedis
<1>7. ~OfPortal(s.t, i) => i \in Ids /\ ~IsDir(s.t, i)
  BY DEF OfPortal, IsDir, Shown, Portal, Dirs
<1>8. m.meta # NONE /\ ~Is(m, "dir") => m.meta \in Metas /\ m.meta.mode # "dir"
  BY <1>2 DEF Is
<1> HIDE DEF m, y, n
<1>9. CASE x \in RenameDir(y, i, d, to_d, n)
  BY <1>4, <1>5, <1>9, RenameDirGood
<1>10. CASE ~OfPortal(s.t, i) /\ x \in RenameTemp(y, i, d, to_d, n)
  BY <1>4, <1>5, <1>7, <1>10, RenameTempGood
<1>11. CASE x \in RenamePortal(y, i, d, to_d, n)
  BY <1>4, <1>5, <1>11, RenamePortalGood
<1>12. CASE m.meta # NONE /\ ~Is(m, "dir") /\ x \in RenameAcross(y, i, m.meta, from, to, to_d, n, ok)
  BY <1>4, <1>5, <1>8, <1>12, RenameAcrossGood
<1>13. CASE /\ m.meta # NONE /\ ~Is(m, "dir") /\ ~OfPortal(s.t, i)
            /\ x \in RenameLost(y, i, m.meta, to, to_d, n, ok)
  BY <1>4, <1>7, <1>8, <1>13, RenameLostGood
<1> QED BY <1>4, <1>6, <1>9, <1>10, <1>11, <1>12, <1>13

\* The steps of Replace between files of the portal.
Moved(y, s, i, j, d) ==
  \E z : /\ Called(z, s, Drop(s.t, j), Drop(s.u, j))
        /\ Called(y, z, Move(z.t, i, "portal", d), Move(z.u, i, "portal", d))

\* Those between temporary files.
CopiedOver(y, s, i, j, ok) == \E c \in copy_mmap(s, i, j, ok) : y = DeleteRow(c, i)

LEMMA ReplaceIs ==
  ASSUME NEW s, NEW i, NEW j, NEW m, NEW ok, NEW x \in Replace(s, i, j, m, ok)
  PROVE  \E y : /\ x = Forgetting(y, {}, {i, j}, {})
                /\ \/ OfPortal(s.t, i) /\ OfPortal(s.t, j) /\ Moved(y, s, i, j, m.parent)
                   \/ ~OfPortal(s.t, i) /\ ~OfPortal(s.t, j) /\ CopiedOver(y, s, i, j, ok)
<1> DEFINE Calls == UNION {Call(z, LAMBDA t : Move(t, i, "portal", m.parent)) : z \in Call(s, LAMBDA t : Drop(t, j))}
<1>1. PICK y : /\ x = Forgetting(y, {}, {i, j}, {})
               /\ OfPortal(s.t, i) <=> OfPortal(s.t, j)
               /\ OfPortal(s.t, i) => y \in Calls
               /\ ~OfPortal(s.t, i) => y \in {DeleteRow(c, i) : c \in copy_mmap(s, i, j, ok)}
  BY DEF Replace, Forgetting
<1>2. CASE OfPortal(s.t, i)
  <2>1. PICK z \in Call(s, LAMBDA t : Drop(t, j)) : y \in Call(z, LAMBDA t : Move(t, i, "portal", m.parent))
    BY <1>1, <1>2
  <2>2. Called(z, s, Drop(s.t, j), Drop(s.u, j))
    BY <2>1 DEF Call, Called, WithTrees, Failed
  <2>3. Called(y, z, Move(z.t, i, "portal", m.parent), Move(z.u, i, "portal", m.parent))
    BY <2>1 DEF Call, Called, WithTrees, Failed
  <2>4. Moved(y, s, i, j, m.parent)
    BY <2>2, <2>3 DEF Moved
  <2> QED BY <1>1, <1>2, <2>4
<1>3. CASE ~OfPortal(s.t, i)
  BY <1>1, <1>3 DEF CopiedOver
<1> QED BY <1>2, <1>3

LEMMA ReplaceGood ==
  ASSUME NEW s, Good(s), NEW i \in Ids, NEW j \in Ids, ~IsDir(s.t, i), ~IsDir(s.t, j),
         NEW m, NEW ok, NEW x \in Replace(s, i, j, m, ok)
  PROVE  Good(x)
<1>1. PICK y : /\ x = Forgetting(y, {}, {i, j}, {})
               /\ \/ OfPortal(s.t, i) /\ OfPortal(s.t, j) /\ Moved(y, s, i, j, m.parent)
                  \/ ~OfPortal(s.t, i) /\ ~OfPortal(s.t, j) /\ CopiedOver(y, s, i, j, ok)
  BY ReplaceIs
<1>2. CASE Moved(y, s, i, j, m.parent)
  <2>1. PICK z : /\ Called(z, s, Drop(s.t, j), Drop(s.u, j))
                 /\ Called(y, z, Move(z.t, i, "portal", m.parent), Move(z.u, i, "portal", m.parent))
    BY <1>2 DEF Moved
  <2>2. Good(z)
    BY <2>1, DropGood
  <2>3. z.t \in Trees /\ z.u \in Trees /\ Fits(z.t) /\ Fits(z.u)
    BY <2>2, WorkFacts DEF Good
  <2>4. Tame(Move(z.t, i, "portal", m.parent), z.t) /\ Tame(Move(z.u, i, "portal", m.parent), z.u)
    BY <2>3, MoveTame
  <2>5. Good(y)
    BY <2>1, <2>2, <2>4, TameCall
  <2> QED BY <1>1, <2>5, Forgets
<1>3. CASE CopiedOver(y, s, i, j, ok)
  <2>1. PICK c \in copy_mmap(s, i, j, ok) : y = DeleteRow(c, i)
    BY <1>3 DEF CopiedOver
  <2>2. Good(c) /\ SameDirs(c.t, s.t)
    BY <2>1, CopyGood
  <2>3. ~IsDir(c.t, i)
    BY <2>2, Ends DEF SameDirs
  <2>4. Good(y)
    BY <2>1, <2>2, <2>3, DeleteRowGood
  <2> QED BY <1>1, <2>4, Forgets
<1> QED BY <1>1, <1>2, <1>3

LEMMA ReplaceFailsIs ==
  ASSUME NEW s, NEW i, NEW j, NEW from_m, NEW ok, NEW x \in ReplaceFails(s, i, j, from_m, ok)
  PROVE  \E c \in copy_mmap(s, i, j, ok) :
           \/ ~(OfPortal(s.t, i) <=> OfPortal(s.t, j)) /\ x = c
           \/ /\ ~OfPortal(s.t, i) /\ ~OfPortal(s.t, j)
              /\ x \in Fail([c EXCEPT !.r = SetMeta(@, j, from_m)])
<1>1. OfPortal(s.t, i) \in BOOLEAN /\ OfPortal(s.t, j) \in BOOLEAN
  BY DEF OfPortal
<1>2. CASE OfPortal(s.t, i) # OfPortal(s.t, j)
  <2>1. x \in copy_mmap(s, i, j, ok)
    BY <1>2 DEF ReplaceFails
  <2> QED BY <1>1, <1>2, <2>1
<1>3. CASE OfPortal(s.t, i) = OfPortal(s.t, j)
  <2>1. ~OfPortal(s.t, i) /\ x \in UNION {Fail([c EXCEPT !.r = SetMeta(@, j, from_m)]) : c \in copy_mmap(s, i, j, ok)}
    BY <1>3 DEF ReplaceFails
  <2>2. PICK c \in copy_mmap(s, i, j, ok) : x \in Fail([c EXCEPT !.r = SetMeta(@, j, from_m)])
    BY <2>1
  <2> QED BY <1>3, <2>1, <2>2
<1> QED BY <1>2, <1>3

LEMMA ReplaceFailsGood ==
  ASSUME NEW s, Good(s), NEW i \in Ids, NEW j \in Ids \ s.unused, ~IsDir(s.t, j),
         NEW from_m \in Metas, from_m.mode # "dir", NEW ok,
         NEW x \in ReplaceFails(s, i, j, from_m, ok)
  PROVE  Good(x)
<1>1. PICK c \in copy_mmap(s, i, j, ok) : x = c \/ x \in Fail([c EXCEPT !.r = SetMeta(@, j, from_m)])
  BY ReplaceFailsIs
<1>2. Good(c) /\ SameDirs(c.t, s.t) /\ c.unused = s.unused
  BY CopyGood
<1>3. CASE x = c
  BY <1>2, <1>3
<1>4. CASE x \in Fail([c EXCEPT !.r = SetMeta(@, j, from_m)])
  <2> DEFINE y == WithRedis(c, SetMeta(c.r, j, from_m))
  <2>1. c \in Work
    BY <1>2 DEF Good
  <2>2. x \in Fail(y)
    BY <1>4, <2>1 DEF WithRedis, Work
  <2>3. j \in Dirs /\ j \notin c.unused /\ (from_m.mode = "dir" <=> IsDir(c.t, j))
    BY <1>2, Ends DEF SameDirs
  <2>4. Good(y)
    BY <1>2, <2>3, MetaSet
  <2> HIDE DEF y
  <2>5. y.failures < MaxFailures /\ x = Failed(y)
    BY <2>2, <2>4, FailIs DEF Good
  <2> QED BY <2>4, <2>5, Fails
<1> QED BY <1>1, <1>3, <1>4

-------------------------------------------------------------------------------
(* The requests.  Start, and what is left by Refuse and Finish.              *)

LEMMA StartGood ==
  ASSUME RInv, NEW r \in Redises, Knows(r, tree), Unused(r, tree, unused)
  PROVE  /\ Good(Start(r))
         /\ Start(r).t = tree /\ Start(r).u = tree /\ Start(r).r = r
         /\ Start(r).unused = unused /\ Start(r).failures = failures /\ Start(r).id = NONE
<1>1. /\ Start(r).t = tree /\ Start(r).u = tree /\ Start(r).r = r
      /\ Start(r).unused = unused /\ Start(r).failures = failures /\ Start(r).id = NONE
  BY DEF Start
<1>2. Start(r) \in Work
  BY Ends DEF Start, Work, RInv, TypeOK
<1> HIDE DEF Start
<1>3. Good(Start(r))
  BY <1>1, <1>2 DEF Good, RInv, SameDirs
<1> QED BY <1>1, <1>3

LEMMA Ending ==
  ASSUME NEW s, Good(s), tree' \in {s.t, s.u}, unused' = s.unused, failures' \in 0 .. MaxFailures,
         redis' \in Redises, Knows(redis', s.t), Unused(redis', s.t, s.unused)
  PROVE  RInv'
<1>1. s.t \in Trees /\ s.u \in Trees /\ s.unused \in SUBSET Ids
  BY WorkFacts DEF Good
<1>2. Knows(redis', s.u) /\ Unused(redis', s.u, s.unused)
  BY DEF Good, Knows, Unused, SameDirs
<1>3. Fits(tree') /\ Knows(redis', tree') /\ Unused(redis', tree', unused')
  BY <1>2 DEF Good
<1>4. TypeOK'
  BY <1>1, <1>3 DEF TypeOK, Unused
<1> QED BY <1>3, <1>4 DEF RInv

LEMMA RefuseInv ==
  ASSUME NEW s, Good(s), Refuse(s)
  PROVE  RInv'
<1>1. s.r \in Redises /\ s.failures \in 0 .. MaxFailures
  BY WorkFacts DEF Good
<1> QED BY <1>1, Ending DEF Refuse, Good

LEMMA FinishInv ==
  ASSUME NEW s, Good(s), NEW r \in Redises, Knows(r, s.t), Unused(r, s.t, s.unused), Finish(s, r)
  PROVE  RInv'
<1>1. s.r \in Redises /\ s.failures \in 0 .. MaxFailures
  BY WorkFacts DEF Good
<1>2. s.failures < MaxFailures => s.failures + 1 \in 0 .. MaxFailures
  BY <1>1, NamespaceAssumption
<1>3. CASE tree' = s.t /\ redis' = r /\ failures' = s.failures
  BY <1>1, <1>3, Ending DEF Finish
<1>4. CASE redis' = s.r /\ tree' \in {s.t, s.u} /\ failures' \in 0 .. MaxFailures
  BY <1>1, <1>4, Ending DEF Finish, Good
<1> QED BY <1>2, <1>3, <1>4 DEF Finish

LEMMA FinishDel ==
  ASSUME NEW s, Good(s), NEW ps, NEW ms, NEW ls, Finish(s, Del(s.r, ps, ms, ls))
  PROVE  RInv'
<1>1. s.r \in Redises /\ s.unused \in SUBSET Ids
  BY WorkFacts DEF Good
<1> DEFINE r == Del(s.r, ps, ms, ls)
<1>2. r \in Redises /\ Knows(r, s.t) /\ Unused(r, s.t, s.unused)
  BY <1>1, DelFacts DEF Good
<1>3. Finish(s, r)
  OBVIOUS
<1> HIDE DEF r
<1> QED BY <1>2, <1>3, FinishInv

\* The attributes of the entry at a path, and the work that starts with what is
\* in Redis then.
LEMMA Looks ==
  ASSUME RInv, NEW r \in Redises, Knows(r, tree), Unused(r, tree, unused), NEW p \in Paths,
         NEW m, m = psql_read_meta_from_path(r, tree, p)
  PROVE  /\ m.r \in Redises /\ Knows(m.r, tree) /\ Unused(m.r, tree, unused) /\ Good(Start(m.r))
         /\ m.id \in Answers /\ m.meta \in Metas \cup {NONE}
         /\ m.meta # NONE => m.id \in Dirs \ unused
         /\ Is(m, "dir") => IsDir(tree, m.id) /\ m.id \in Dirs
         /\ m.meta # NONE /\ ~Is(m, "dir") => m.id \in Ids /\ ~IsDir(tree, m.id) /\ m.meta.mode # "dir"
<1>1. tree \in Trees /\ tree \in Trees \cup {Down} /\ unused \in SUBSET Ids
  BY DEF RInv, TypeOK
<1>2. /\ m.r \in Redises /\ m.id \in Answers /\ m.meta \in Metas \cup {NONE}
      /\ m.meta # NONE => m.id \in Dirs /\ m.r.meta[m.id] = m.meta
  BY <1>1, FromPathFacts
<1>3. /\ Knows(m.r, tree) /\ Unused(m.r, tree, unused)
      /\ Is(m, "dir") => IsDir(tree, m.id)
      /\ m.meta # NONE /\ ~Is(m, "dir") => m.id \in Ids /\ ~IsDir(tree, m.id)
  BY <1>1, FromPathKnows
<1>4. Good(Start(m.r))
  BY <1>2, <1>3, StartGood
<1>5. m.meta # NONE => m.id \notin unused
  BY <1>2, <1>3 DEF Unused
<1> QED BY <1>2, <1>3, <1>4, <1>5 DEF Is

LEMMA KnownPath ==
  ASSUME NEW p \in Paths, Known(p)
  PROVE  p # <<>> /\ Front(p) \in Paths /\ Last(p) \in Names
  BY PathFacts DEF Known

-------------------------------------------------------------------------------
(* Each request keeps the invariant.                                         *)

LEMMA RInvFacts ==
  ASSUME RInv
  PROVE  tree \in Trees /\ redis \in Redises /\ unused \in SUBSET Ids /\ failures \in 0 .. MaxFailures
         /\ Knows(redis, tree) /\ Unused(redis, tree, unused)
  BY DEF RInv, TypeOK

LEMMA GetattrInv ==
  ASSUME RInv, NEW p \in Paths, Getattr(p)
  PROVE  RInv'
<1>1. Good(Start(psql_read_meta_from_path(redis, tree, p).r))
  BY RInvFacts, Looks
<1> QED BY <1>1, RefuseInv DEF Getattr

LEMMA GetattrFailsInv ==
  ASSUME RInv, NEW p \in Paths, GetattrFails(p)
  PROVE  RInv'
<1> DEFINE a == psql_path_to_id(redis, Down, p)
           m == psql_read_meta(a.r, Down, a.id)
<1>1. a.id \in Answers /\ a.r \in Redises /\ a.r.meta = redis.meta
  BY RInvFacts, LookupFacts
<1>2. redis' = m.r
  BY DEF GetattrFails, psql_read_meta_from_path
<1> HIDE DEF a
<1>3. m.r \in Redises /\ m.r = a.r
  <2>1. Reads(m, a.r, Down, a.id)
    BY <1>1, ReadMetaFacts
  <2> HIDE DEF m
  <2> QED BY <2>1 DEF Reads
<1> HIDE DEF m
<1>4. redis' \in Redises /\ Knows(redis', tree) /\ Unused(redis', tree, unused)
  BY <1>1, <1>2, <1>3, RInvFacts DEF Knows, Unused
<1>5. tree' = tree /\ unused' = unused /\ failures' \in 0 .. MaxFailures
  BY RInvFacts, NamespaceAssumption DEF GetattrFails
<1> QED BY <1>4, <1>5 DEF RInv, TypeOK

LEMMA OpendirInv ==
  ASSUME RInv, NEW p \in Paths, Opendir(p)
  PROVE  RInv'
<1> DEFINE a == psql_path_to_id(redis, tree, p)
<1>1. a.r \in Redises /\ a.r.meta = redis.meta
  BY RInvFacts, LookupFacts
<1>2. Refuse(Start(a.r))
  BY DEF Opendir
<1> HIDE DEF a
<1>3. Good(Start(a.r))
  BY <1>1, RInvFacts, StartGood DEF Knows, Unused
<1> QED BY <1>2, <1>3, RefuseInv

LEMMA ReaddirInv ==
  ASSUME RInv, NEW d \in Dirs, Readdir(d)
  PROVE  RInv'
<1>1. PICK names \in SUBSET {tree[i].name : i \in Children(tree, d)} :
        redis' = [redis EXCEPT !.list[d] = names]
  BY DEF Readdir
<1>2. names \subseteq Names
  BY RInvFacts, TreeFacts DEF Children, Shown
<1>3. redis' \in Redises /\ redis'.meta = redis.meta
  BY <1>1, <1>2, RInvFacts DEF Redises
<1>4. tree' = tree /\ unused' = unused /\ failures' \in 0 .. MaxFailures
  BY RInvFacts, NamespaceAssumption DEF Readdir
<1>5. Knows(redis', tree) /\ Unused(redis', tree, unused)
  BY <1>3, RInvFacts DEF Knows, Unused
<1> QED BY <1>3, <1>4, <1>5 DEF RInv, TypeOK

LEMMA CreateInv ==
  ASSUME RInv, NEW p \in Paths, Create(p)
  PROVE  RInv'
<1> DEFINE m == psql_read_meta_from_path(redis, tree, Front(p))
           n == Last(p)
<1>1. Front(p) \in Paths /\ n \in Names
  BY KnownPath DEF Create, Absent
<1>2. /\ Good(Start(m.r))
      /\ Is(m, "dir") => IsDir(tree, m.id) /\ m.id \in Dirs
      /\ m.r \in Redises /\ Knows(m.r, tree) /\ Unused(m.r, tree, unused)
  BY <1>1, RInvFacts, Looks
<1>3. Start(m.r).t = tree
  BY DEF Start
<1>4. CASE Refuse(Start(m.r))
  BY <1>2, <1>4, RefuseInv
<1>5. CASE ~Refuse(Start(m.r))
  <2>1. /\ Is(m, "dir")
        /\ \E s \in psql_create_file(Start(m.r), p, m.id, n) :
             LET a == IF s.id \in Ids THEN [id |-> s.id, r |-> s.r]
                                      ELSE psql_path_to_id(s.r, s.t, p)
                 x == [s EXCEPT !.r = a.r]
             IN IF a.id \in Dirs THEN Finish(x, x.r) ELSE Refuse(x)
    BY <1>5 DEF Create
  <2> HIDE DEF m, n
  <2>2. PICK s \in psql_create_file(Start(m.r), p, m.id, n) :
             LET a == IF s.id \in Ids THEN [id |-> s.id, r |-> s.r]
                                      ELSE psql_path_to_id(s.r, s.t, p)
                 x == [s EXCEPT !.r = a.r]
             IN IF a.id \in Dirs THEN Finish(x, x.r) ELSE Refuse(x)
    BY <2>1
  <2>3. Good(s)
    BY <1>1, <1>2, <1>3, <2>1, CreateFileGood DEF Kept
  <2> DEFINE b == IF s.id \in Ids THEN s.r ELSE psql_path_to_id(s.r, s.t, p).r
             x == WithRedis(s, b)
  <2>4. Finish(x, x.r) \/ Refuse(x)
    BY <2>2 DEF WithRedis
  <2>5. s.r \in Redises /\ Knows(s.r, s.t) /\ Unused(s.r, s.t, s.unused)
    BY <2>3, WorkFacts DEF Good
  <2>6. b \in Redises /\ b.meta = s.r.meta
    <3>1. psql_path_to_id(s.r, s.t, p).r \in Redises /\ psql_path_to_id(s.r, s.t, p).r.meta = s.r.meta
      BY <2>5, LookupFacts
    <3> QED BY <2>5, <3>1
  <2> HIDE DEF b
  <2>7. Knows(b, s.t) /\ Unused(b, s.t, s.unused)
    BY <2>5, <2>6 DEF Knows, Unused
  <2>8. Good(x) /\ x.r \in Redises /\ Knows(x.r, x.t) /\ Unused(x.r, x.t, x.unused)
    BY <2>3, <2>6, <2>7, RedisChanges
  <2> HIDE DEF x
  <2> QED BY <2>4, <2>8, FinishInv, RefuseInv
<1> QED BY <1>4, <1>5

LEMMA MkdirInv ==
  ASSUME RInv, NEW p \in Paths, Mkdir(p)
  PROVE  RInv'
<1> DEFINE m == psql_read_meta_from_path(redis, tree, Front(p))
           n == Last(p)
           z == Start(m.r)
           hidden == Hidden(tree, m.id, n)
           Cleared == IF hidden = {} THEN {z}
                      ELSE UNION {Call([z EXCEPT !.r = Del(@, {}, {i}, {})], LAMBDA t : Drop(t, i)) : i \in hidden}
<1>1. Front(p) \in Paths /\ n \in Names
  BY KnownPath DEF Mkdir, Absent
<1>2. /\ Good(z)
      /\ Is(m, "dir") => IsDir(tree, m.id) /\ m.id \in Dirs
      /\ m.r \in Redises /\ Knows(m.r, tree) /\ Unused(m.r, tree, unused)
  BY <1>1, RInvFacts, Looks
<1>3. z.t = tree
  BY DEF Start
<1>4. CASE Refuse(z)
  BY <1>2, <1>4, RefuseInv
<1>5. CASE ~Refuse(z)
  <2>1. /\ Is(m, "dir")
        /\ \E s \in Cleared : \E x \in Add(s, m.id, n, "dir") :
             LET y == [x EXCEPT !.r = SetPath(@, p, x.id)]
             IN Finish(y, Del(y.r, {}, {}, {m.id}))
    BY <1>5 DEF Mkdir
  <2>2. PICK s \in Cleared : \E x \in Add(s, m.id, n, "dir") :
             LET y == [x EXCEPT !.r = SetPath(@, p, x.id)]
             IN Finish(y, Del(y.r, {}, {}, {m.id}))
    BY <2>1
  <2>3. s = z \/ \E i \in hidden : Called(s, Forgetting(z, {}, {i}, {}), Drop(z.t, i), Drop(z.u, i))
    <3>1. z \in Work
      BY <1>2 DEF Good
    <3>2. CASE s = z
      BY <3>2
    <3>3. CASE s # z
      <4>1. PICK i \in hidden : s \in Call(Forgetting(z, {}, {i}, {}), LAMBDA t : Drop(t, i))
        BY <2>2, <3>3 DEF Forgetting
      <4> HIDE DEF z, hidden
      <4>2. Forgetting(z, {}, {i}, {}).t = z.t /\ Forgetting(z, {}, {i}, {}).u = z.u
        BY <3>1 DEF Forgetting, Work
      <4> QED BY <4>1, <4>2 DEF Call, Called, WithTrees, Failed
    <3> QED BY <3>2, <3>3
  <2> HIDE DEF Cleared, m, n, z
  <2>4. Good(s)
    <3>1. CASE s = z
      BY <1>2, <3>1
    <3>2. CASE \E i \in hidden : Called(s, Forgetting(z, {}, {i}, {}), Drop(z.t, i), Drop(z.u, i))
      <4>1. PICK i \in hidden : Called(s, Forgetting(z, {}, {i}, {}), Drop(z.t, i), Drop(z.u, i))
        BY <3>2
      <4>2. i \in Ids /\ ~IsDir(tree, i)
        BY RInvFacts, DirFacts DEF Hidden, RInv, Fits, HiddenAreFiles
      <4> DEFINE y == Forgetting(z, {}, {i}, {})
      <4>3. Good(y) /\ y.t = z.t /\ y.u = z.u
        BY <1>2, Forgets
      <4> HIDE DEF y
      <4>4. Called(s, y, Drop(y.t, i), Drop(y.u, i)) /\ ~IsDir(y.t, i)
        BY <1>3, <4>1, <4>2, <4>3 DEF y
      <4> QED BY <4>2, <4>3, <4>4, DropGood
    <3> QED BY <2>3, <3>1, <3>2
  <2>5. PICK x \in Add(s, m.id, n, "dir") :
             LET y == [x EXCEPT !.r = SetPath(@, p, x.id)]
             IN Finish(y, Del(y.r, {}, {}, {m.id}))
    BY <2>2
  <2>6. Good(x) /\ x.id \in Answers
    <3>1. "dir" \in Portal /\ m.id \in Dirs
      BY <1>2, <2>1 DEF Portal
    <3> QED BY <1>1, <2>4, <3>1, AddGood, Ends
  <2> DEFINE y == WithRedis(x, SetPath(x.r, p, x.id))
  <2>7. Finish(y, Del(y.r, {}, {}, {m.id}))
    <3>1. x \in Work
      BY <2>6 DEF Good
    <3>2. y = [x EXCEPT !.r = SetPath(@, p, x.id)]
      BY <3>1 DEF WithRedis, Work
    <3> QED BY <2>5, <3>2
  <2>8. Good(y)
    BY <2>6, PathSet
  <2> HIDE DEF y
  <2> QED BY <2>7, <2>8, FinishDel
<1> QED BY <1>4, <1>5

LEMMA SymlinkInv ==
  ASSUME RInv, NEW p \in Paths, Symlink(p)
  PROVE  RInv'
<1> DEFINE m == psql_read_meta_from_path(redis, tree, Front(p))
           n == Last(p)
           z == Start(m.r)
<1>1. Front(p) \in Paths /\ n \in Names
  BY KnownPath DEF Symlink, Absent
<1>2. /\ Good(z)
      /\ Is(m, "dir") => IsDir(tree, m.id) /\ m.id \in Dirs
      /\ m.r \in Redises /\ Knows(m.r, tree) /\ Unused(m.r, tree, unused)
  BY <1>1, RInvFacts, Looks
<1>3. z.t = tree
  BY DEF Start
<1>4. CASE Refuse(z)
  BY <1>2, <1>4, RefuseInv
<1>5. CASE ~Refuse(z)
  <2>1. /\ Is(m, "dir")
        /\ \E s \in Insert(z, m.id, n, "link") :
             LET a == psql_read_meta_from_path(s.r, s.t, p)
                 x == [s EXCEPT !.r = a.r]
             IN IF a.meta = NONE THEN Refuse(x) ELSE Finish(x, x.r)
    BY <1>5 DEF Symlink
  <2> HIDE DEF m, n, z
  <2>2. PICK s \in Insert(z, m.id, n, "link") :
             LET a == psql_read_meta_from_path(s.r, s.t, p)
                 x == [s EXCEPT !.r = a.r]
             IN IF a.meta = NONE THEN Refuse(x) ELSE Finish(x, x.r)
    BY <2>1
  <2>3. Good(s)
    BY <1>1, <1>2, <1>3, <2>1, InsertGood
  <2> DEFINE b == psql_read_meta_from_path(s.r, s.t, p).r
             x == WithRedis(s, b)
  <2>4. Finish(x, x.r) \/ Refuse(x)
    BY <2>2 DEF WithRedis
  <2>5. s.r \in Redises /\ s.t \in Trees /\ Knows(s.r, s.t) /\ Unused(s.r, s.t, s.unused) /\ s.unused \in SUBSET Ids
    BY <2>3, WorkFacts DEF Good
  <2>6. b \in Redises
    BY <2>5, FromPathFacts
  <2>7. Knows(b, s.t) /\ Unused(b, s.t, s.unused)
    BY <2>5, FromPathKnows
  <2> HIDE DEF b
  <2>8. Good(x) /\ x.r \in Redises /\ Knows(x.r, x.t) /\ Unused(x.r, x.t, x.unused)
    BY <2>3, <2>6, <2>7, RedisChanges
  <2> HIDE DEF x
  <2> QED BY <2>4, <2>8, FinishInv, RefuseInv
<1> QED BY <1>4, <1>5

LEMMA UnlinkInv ==
  ASSUME RInv, NEW p \in Paths, Unlink(p)
  PROVE  RInv'
<1> DEFINE m == psql_read_meta_from_path(redis, tree, p)
           z == Start(m.r)
<1>1. /\ Good(z)
      /\ m.meta # NONE /\ ~Is(m, "dir") => m.id \in Ids /\ ~IsDir(tree, m.id)
      /\ m.r \in Redises /\ Knows(m.r, tree) /\ Unused(m.r, tree, unused)
  BY RInvFacts, Looks
<1>2. z.t = tree /\ z.u = tree
  BY DEF Start
<1>3. CASE Refuse(z)
  BY <1>1, <1>3, RefuseInv
<1>4. CASE ~Refuse(z)
  <2>1. /\ m.meta # NONE /\ ~Is(m, "dir")
        /\ \E s \in psql_delete_file(z, m.id) : Finish(s, Del(s.r, {p}, {}, {m.meta.parent}))
    BY <1>4 DEF Unlink
  <2> HIDE DEF m, z
  <2>2. PICK s \in psql_delete_file(z, m.id) : Finish(s, Del(s.r, {p}, {}, {m.meta.parent}))
    BY <2>1
  <2>3. Good(s)
    BY <1>1, <1>2, <2>1, DeleteFileGood
  <2> QED BY <2>2, <2>3, FinishDel
<1> QED BY <1>3, <1>4

\* The portal deletes an empty directory, and its attributes go.
LEMMA RmdirGood ==
  ASSUME NEW z, Good(z), NEW i \in Ids, \A j \in Shown(z.t) : z.t[j].parent # i, z.u = z.t,
         NEW s, Called(s, z, Drop(z.t, i), Drop(z.u, i)), NEW ls, NEW x, x = Forgetting(s, {}, {i}, ls)
  PROVE  Good(x)
<1>1. z \in Work /\ z.t \in Trees /\ z.r \in Redises /\ z.unused \in SUBSET Ids /\ Fits(z.t)
  BY WorkFacts DEF Good
<1>2. CASE s.t = z.t /\ Good(s)
  BY <1>2, Forgets
<1>3. CASE s = WithTrees(z, Drop(z.t, i), Drop(z.u, i))
  <2> DEFINE a == Drop(z.t, i)
             r == Del(z.r, {}, {i}, ls)
  <2>1. /\ a \in Trees /\ Fits(a)
        /\ \A d \in Dirs : IsDir(a, d) <=> IsDir(z.t, d) /\ d # i
        /\ \A j \in Ids : z.t[j] = NONE => a[j] = NONE
    BY <1>1, DropFacts
  <2>2. s = WithTrees(z, a, a)
    BY <1>3
  <2>3. /\ r \in Redises /\ Unused(r, z.t, z.unused)
        /\ \A d \in Dirs : r.meta[d] = IF d \in {i} THEN NONE ELSE z.r.meta[d]
    BY <1>1, DelFacts DEF Good
  <2>4. x.r = r /\ x.t = a /\ x.u = a /\ x.unused = z.unused /\ x.failures = z.failures /\ x.id = z.id
        /\ x \in Work
    <3> HIDE DEF a
    <3>1. s.r = z.r /\ s.t = a /\ s.u = a /\ s.unused = z.unused /\ s.failures = z.failures /\ s.id = z.id
          /\ s \in Work
      BY <1>1, <2>1, <2>2 DEF WithTrees, Work
    <3> QED BY <2>3, <3>1 DEF Forgetting, Work
  <2> HIDE DEF a, r
  <2>5. Knows(r, a)
    BY <2>1, <2>3 DEF Knows, Good
  <2>6. Unused(r, a, z.unused)
    BY <1>1, <2>1, <2>3 DEF Unused
  <2> QED BY <2>1, <2>4, <2>5, <2>6 DEF Good, SameDirs
<1>4. CASE z.failures < MaxFailures /\ s = Failed(z)
  BY <1>2, <1>4, Fails
<1> QED BY <1>3, <1>4 DEF Called

LEMMA RmdirInv ==
  ASSUME RInv, NEW p \in Paths, Rmdir(p)
  PROVE  RInv'
<1> DEFINE m == psql_read_meta_from_path(redis, tree, p)
           z == Start(m.r)
<1>1. /\ Good(z)
      /\ Is(m, "dir") => IsDir(tree, m.id)
      /\ m.r \in Redises /\ Knows(m.r, tree) /\ Unused(m.r, tree, unused)
  BY RInvFacts, Looks
<1>2. z.t = tree /\ z.u = tree
  BY DEF Start
<1>3. CASE Refuse(z)
  BY <1>1, <1>3, RefuseInv
<1>4. CASE ~Refuse(z)
  <2>1. /\ Is(m, "dir") /\ Empty(tree, m.id)
        /\ \E s \in Call(z, LAMBDA t : Drop(t, m.id)) :
             LET x == [s EXCEPT !.r = Del(@, {}, {m.id}, {m.id})]
             IN Finish(x, Del(x.r, {p}, {}, {m.meta.parent}))
    BY <1>4 DEF Rmdir
  <2> HIDE DEF m, z
  <2>2. PICK s \in Call(z, LAMBDA t : Drop(t, m.id)) :
             LET x == [s EXCEPT !.r = Del(@, {}, {m.id}, {m.id})]
             IN Finish(x, Del(x.r, {p}, {}, {m.meta.parent}))
    BY <2>1
  <2>3. Called(s, z, Drop(z.t, m.id), Drop(z.u, m.id))
    BY <2>2 DEF Call, Called, WithTrees, Failed
  <2> DEFINE x == Forgetting(s, {}, {m.id}, {m.id})
  <2>4. Finish(x, Del(x.r, {p}, {}, {m.meta.parent}))
    BY <2>2 DEF Forgetting
  <2> HIDE DEF x
  <2>5. m.id \in Ids /\ \A j \in Shown(z.t) : z.t[j].parent # m.id
    BY <1>1, <1>2, <2>1 DEF Empty, Children, IsDir, Shown
  <2>6. Good(x)
    BY <1>1, <1>2, <2>3, <2>5, RmdirGood DEF x
  <2> QED BY <2>4, <2>6, FinishDel
<1> QED BY <1>3, <1>4

LEMMA RenameInv ==
  ASSUME RInv, NEW from \in Paths, NEW to \in Paths, NEW ok, RenameTo(from, to, ok)
  PROVE  RInv'
<1> DEFINE f == psql_read_meta_from_path(redis, tree, from)
           g == psql_read_meta_from_path(f.r, tree, to)
           m == psql_read_meta_from_path(g.r, tree, Front(to))
           there == g.meta # NONE /\ g.id # Root
<1>1. to # <<>> /\ Front(to) \in Paths
  BY KnownPath DEF RenameTo, Allowed
<1>2. /\ Good(Start(f.r)) /\ f.r \in Redises /\ Knows(f.r, tree) /\ Unused(f.r, tree, unused)
      /\ f.id \in Answers /\ f.meta \in Metas \cup {NONE}
      /\ f.meta # NONE => f.id \in Dirs \ unused
      /\ f.meta # NONE /\ ~Is(f, "dir") => f.id \in Ids /\ ~IsDir(tree, f.id) /\ f.meta.mode # "dir"
  BY RInvFacts, Looks
<1> HIDE DEF f
<1>3. /\ Good(Start(g.r)) /\ g.r \in Redises /\ Knows(g.r, tree) /\ Unused(g.r, tree, unused)
      /\ g.id \in Answers /\ g.meta \in Metas \cup {NONE}
      /\ g.meta # NONE => g.id \in Dirs \ unused
      /\ g.meta # NONE /\ ~Is(g, "dir") => g.id \in Ids /\ ~IsDir(tree, g.id) /\ g.meta.mode # "dir"
  BY <1>2, RInvFacts, Looks
<1> HIDE DEF g
<1>4. /\ Good(Start(m.r))
      /\ Is(m, "dir") => IsDir(tree, m.id) /\ m.id \in Dirs
  BY <1>1, <1>3, RInvFacts, Looks
<1>5. \/ f.meta = NONE /\ Refuse(Start(f.r))
      \/ /\ f.meta # NONE
         /\ g.id = Bad \/ (there /\ ~Is(g, "reg"))
         /\ Refuse(Start(g.r))
      \/ /\ f.meta # NONE /\ ~Is(f, "dir")
         /\ there /\ Is(g, "reg")
         /\ \/ \E s \in Replace(Start(g.r), f.id, g.id, g.meta, ok) :
                Finish(s, Del(s.r, {from}, {}, {f.meta.parent}))
            \/ \E s \in ReplaceFails(Start(g.r), f.id, g.id, f.meta, ok) : Refuse(s)
      \/ /\ f.meta # NONE /\ ~there /\ g.id # Bad
         /\ \/ ~Is(m, "dir") /\ Refuse(Start(m.r))
            \/ /\ Is(m, "dir")
               /\ \E s \in psql_rename(Start(m.r), f.id, f.meta.parent, m.id, from, to, ok) :
                    Finish(s, Del(s.r, {from}, {}, {m.id, f.meta.parent}))
  BY DEF RenameTo, f, g
<1> HIDE DEF m
<1>6. \A x : Start(x).t = tree /\ Start(x).u = tree /\ Start(x).unused = unused
  BY DEF Start
<1>7. CASE Refuse(Start(f.r))
  BY <1>2, <1>7, RefuseInv
<1>8. CASE Refuse(Start(g.r))
  BY <1>3, <1>8, RefuseInv
<1>9. CASE Refuse(Start(m.r))
  BY <1>4, <1>9, RefuseInv
<1>10. CASE /\ f.meta # NONE /\ ~Is(f, "dir") /\ there /\ Is(g, "reg")
            /\ \E s \in Replace(Start(g.r), f.id, g.id, g.meta, ok) :
                 Finish(s, Del(s.r, {from}, {}, {f.meta.parent}))
  <2>1. PICK s \in Replace(Start(g.r), f.id, g.id, g.meta, ok) :
                 Finish(s, Del(s.r, {from}, {}, {f.meta.parent}))
    BY <1>10
  <2>2. ~Is(g, "dir")
    BY <1>10 DEF Is
  <2>3. Good(s)
    BY <1>2, <1>3, <1>6, <1>10, <2>2, ReplaceGood
  <2> QED BY <2>1, <2>3, FinishDel
<1>11. CASE /\ f.meta # NONE /\ ~Is(f, "dir") /\ there /\ Is(g, "reg")
            /\ \E s \in ReplaceFails(Start(g.r), f.id, g.id, f.meta, ok) : Refuse(s)
  <2>1. PICK s \in ReplaceFails(Start(g.r), f.id, g.id, f.meta, ok) : Refuse(s)
    BY <1>11
  <2>2. ~Is(g, "dir")
    BY <1>11 DEF Is
  <2>3. Good(s)
    BY <1>2, <1>3, <1>6, <1>11, <2>2, ReplaceFailsGood
  <2> QED BY <2>1, <2>3, RefuseInv
<1>12. CASE /\ f.meta # NONE /\ Is(m, "dir")
            /\ \E s \in psql_rename(Start(m.r), f.id, f.meta.parent, m.id, from, to, ok) :
                 Finish(s, Del(s.r, {from}, {}, {m.id, f.meta.parent}))
  <2>1. PICK s \in psql_rename(Start(m.r), f.id, f.meta.parent, m.id, from, to, ok) :
                 Finish(s, Del(s.r, {from}, {}, {m.id, f.meta.parent}))
    BY <1>12
  <2>2. f.meta.parent \in Dirs
    BY <1>2, <1>12 DEF Metas
  <2>3. Good(s)
    BY <1>1, <1>2, <1>4, <1>6, <1>12, <2>2, PsqlRenameGood
  <2> QED BY <2>1, <2>3, FinishDel
<1> QED BY <1>5, <1>7, <1>8, <1>9, <1>10, <1>11, <1>12

-------------------------------------------------------------------------------
LEMMA InitInv == Init => RInv
<1> SUFFICES ASSUME Init
             PROVE  RInv
  OBVIOUS
<1>1. TypeOK
  BY NamespaceAssumption, NothingAssumption DEF Init, TypeOK, Trees, Redises
<1>2. Fits(tree)
  BY DEF Init, Fits, HiddenAreFiles, Sound, Shown
<1>3. Knows(redis, tree) /\ Unused(redis, tree, unused)
  BY Ends DEF Init, Knows, Unused
<1> QED BY <1>1, <1>2, <1>3 DEF RInv

LEMMA NextInv == RInv /\ [Next]_vars => RInv'
<1> SUFFICES ASSUME RInv, [Next]_vars
             PROVE  RInv'
  OBVIOUS
<1>1. CASE UNCHANGED vars
  BY <1>1 DEF vars, RInv, TypeOK
<1>2. ASSUME NEW p \in Paths, Getattr(p)
      PROVE  RInv'
  BY <1>2, GetattrInv
<1>3. ASSUME NEW p \in Paths, GetattrFails(p)
      PROVE  RInv'
  BY <1>3, GetattrFailsInv
<1>4. ASSUME NEW p \in Paths, Opendir(p)
      PROVE  RInv'
  BY <1>4, OpendirInv
<1>5. ASSUME NEW p \in Paths, Create(p)
      PROVE  RInv'
  BY <1>5, CreateInv
<1>6. ASSUME NEW p \in Paths, Mkdir(p)
      PROVE  RInv'
  BY <1>6, MkdirInv
<1>7. ASSUME NEW p \in Paths, Symlink(p)
      PROVE  RInv'
  BY <1>7, SymlinkInv
<1>8. ASSUME NEW p \in Paths, Unlink(p)
      PROVE  RInv'
  BY <1>8, UnlinkInv
<1>9. ASSUME NEW p \in Paths, Rmdir(p)
      PROVE  RInv'
  BY <1>9, RmdirInv
<1>10. ASSUME NEW d \in Dirs, Readdir(d)
       PROVE  RInv'
  BY <1>10, ReaddirInv
<1>11. ASSUME NEW from \in Paths, NEW to \in Paths, Rename(from, to)
       PROVE  RInv'
  BY <1>11, RenameInv DEF Rename
<1> QED BY <1>1, <1>2, <1>3, <1>4, <1>5, <1>6, <1>7, <1>8, <1>9, <1>10, <1>11 DEF Next, NamespaceNext

\* Whatever commits, fails or dies, the tree is one of directories and of what
\* is in them, and Redis tells the directories from the rest.
THEOREM RenameInvariant == Spec => []RInv
  BY InitInv, NextInv, PTL DEF Spec

\* The rows, the keys and the ids given out are such.
THEOREM NamespaceTypeOK == Spec => []TypeOK
<1>1. RInv => TypeOK
  BY DEF RInv
<1> QED BY <1>1, RenameInvariant, PTL

\* The tree stays a tree: no request takes a directory away from under its
\* entries or moves one below itself (pgfuse.c, pgfuse_rmdir, pgfuse_rename).
THEOREM TreeStaysSound == Spec => []TreeIsSound
<1>1. RInv => TreeIsSound
  BY DEF RInv, Fits, Sound, TreeIsSound
<1> QED BY <1>1, RenameInvariant, PTL
-------------------------------------------------------------------------------
(* The portal has no name twice in a folder, also among what is hidden: a    *)
(* hidden file is the only one of its name, and once it is deleted the name  *)
(* is free.                                                                  *)

InPortal(t, i) == t[i] # NONE /\ t[i].kind \in Portal
Sole(t) == \A i, j \in Ids :
  InPortal(t, i) /\ InPortal(t, j) /\ t[i].parent = t[j].parent /\ t[i].name = t[j].name => i = j
\* Both trees, the one the transaction sees and the one left if it fails.
Once(s) == Sole(s.t) /\ Sole(s.u)

\* What the portal has in v it has in t, in the same place.
Thin(v, t) == \A i \in Ids : InPortal(v, i) => InPortal(t, i) /\ v[i].parent = t[i].parent /\ v[i].name = t[i].name

\* Rows that go leave the names apart.
LEMMA ThinSole ==
  ASSUME NEW t, NEW v, Sole(t), Thin(v, t)
  PROVE  Sole(v)
  BY DEF Sole, Thin

LEMMA DropSole ==
  ASSUME NEW t, Sole(t), NEW i
  PROVE  Sole(Drop(t, i))
<1>1. Thin(Drop(t, i), t)
  BY DEF Thin, InPortal, Drop
<1> QED BY <1>1, ThinSole

\* A row is put where it takes no name.
LEMMA PutSole ==
  ASSUME NEW t \in Trees, Sole(t), NEW i \in Ids, NEW w,
         w # NONE /\ w.kind \in Portal =>
           \/ InPortal(t, i) /\ w.parent = t[i].parent /\ w.name = t[i].name
           \/ ~Taken(t, w.parent, w.name, Portal)
  PROVE  Sole(Put(t, i, w))
<1> DEFINE v == Put(t, i, w)
<1>1. v[i] = w /\ \A j \in Ids \ {i} : v[j] = t[j]
  BY DEF Put, Trees
<1> HIDE DEF v
<1>2. CASE ~(w # NONE /\ w.kind \in Portal) \/ (InPortal(t, i) /\ w.parent = t[i].parent /\ w.name = t[i].name)
  <2>1. Thin(v, t)
    BY <1>1, <1>2 DEF Thin, InPortal
  <2> QED BY <2>1, ThinSole DEF v
<1>3. CASE ~Taken(t, w.parent, w.name, Portal)
  <2>1. \A j \in Ids \ {i} : ~(InPortal(v, j) /\ v[j].parent = v[i].parent /\ v[j].name = v[i].name)
    BY <1>1, <1>3 DEF InPortal, Taken
  <2>2. \A j, l \in Ids \ {i} : InPortal(v, j) /\ InPortal(v, l) /\ v[j].parent = v[l].parent /\ v[j].name = v[l].name
          => j = l
    BY <1>1 DEF InPortal, Sole
  <2>3. Sole(v)
    BY <2>1, <2>2 DEF Sole
  <2> QED BY <2>3 DEF v
<1> QED BY <1>2, <1>3

LEMMA EntitleSole ==
  ASSUME NEW t \in Trees, Sole(t), NEW i, NEW k, NEW n
  PROVE  Sole(Entitle(t, i, k, n))
<1>1. CASE Entitle(t, i, k, n) = t
  BY <1>1
<1>2. CASE Entitle(t, i, k, n) # t
  <2>1. i \in Ids /\ t[i] \in Rows /\ ~Taken(t, t[i].parent, n, Portal)
        /\ Entitle(t, i, k, n) = [t EXCEPT ![i].name = n]
    BY <1>2, TreeFacts DEF Entitle, Is_a
  <2> DEFINE w == [t[i] EXCEPT !.name = n]
  <2>2. w.parent = t[i].parent /\ w.name = n /\ Entitle(t, i, k, n) = Put(t, i, w)
    BY <2>1 DEF Rows, Put
  <2>3. ~Taken(t, w.parent, w.name, Portal)
    BY <2>1, <2>2
  <2> HIDE DEF w
  <2>4. Sole(Put(t, i, w))
    BY <2>1, <2>3, PutSole
  <2> QED BY <2>2, <2>4
<1> QED BY <1>1, <1>2

LEMMA MoveSole ==
  ASSUME NEW t \in Trees, Sole(t), NEW i, NEW k, NEW d
  PROVE  Sole(Move(t, i, k, d))
<1>1. CASE Move(t, i, k, d) = t
  BY <1>1
<1>2. CASE Move(t, i, k, d) # t
  <2>1. i \in Ids /\ t[i] \in Rows /\ ~Taken(t, d, t[i].name, Portal)
        /\ Move(t, i, k, d) = [t EXCEPT ![i].parent = d]
    BY <1>2, TreeFacts DEF Move, Is_a
  <2> DEFINE w == [t[i] EXCEPT !.parent = d]
  <2>2. w.parent = d /\ w.name = t[i].name /\ Move(t, i, k, d) = Put(t, i, w)
    BY <2>1 DEF Rows, Put
  <2>3. ~Taken(t, w.parent, w.name, Portal)
    BY <2>1, <2>2
  <2> HIDE DEF w
  <2>4. Sole(Put(t, i, w))
    BY <2>1, <2>3, PutSole
  <2> QED BY <2>2, <2>4
<1> QED BY <1>1, <1>2

\* A call to the portal, the DEL after it.
LEMMA CalledOnce ==
  ASSUME NEW s, Good(s), Once(s), NEW a, Sole(a), NEW b, Sole(b), NEW x, Called(x, s, a, b)
  PROVE  Once(x)
<1>1. s \in Work
  BY DEF Good
<1>2. CASE x = WithTrees(s, a, b)
  BY <1>1, <1>2 DEF WithTrees, Work, Once
<1>3. CASE x = Failed(s)
  BY <1>1, <1>3 DEF Failed, Work, Once
<1> QED BY <1>2, <1>3 DEF Called

LEMMA ForgetsOnce ==
  ASSUME NEW s, Good(s), Once(s), NEW ps, NEW ms, NEW ls, NEW x, x = Forgetting(s, ps, ms, ls)
  PROVE  Good(x) /\ Once(x)
  BY Forgets DEF Once

\* One tree changes.
LEMMA OneOnce ==
  ASSUME NEW s, Good(s), Once(s), NEW t, Sole(t), NEW x, x = WithTree(s, t)
  PROVE  Once(x)
  BY DEF WithTree, Good, Work, Once

\* The portal makes an entry in what both trees have.
LEMMA AddOnce ==
  ASSUME NEW s, Good(s), Once(s), s.u = s.t, NEW d \in Dirs, NEW n \in Names, NEW k \in Portal, NEW x \in Add(s, d, n, k)
  PROVE  Once(x)
<1>1. s \in Work /\ s.t \in Trees /\ k \in Kinds
  BY WorkFacts DEF Good, Portal, Kinds
<1>2. PICK i \in s.unused : \E y \in Call(Taking(s, i), LAMBDA t : Put(t, i, Row(i, d, n, k))) :
        x = IF y.failures # s.failures \/ ~IsDir(s.t, d) \/ Taken(s.t, d, n, Portal) THEN Undone(y, s) ELSE y
  BY DEF Add, Taking, Put, Undone
<1>3. PICK y \in Call(Taking(s, i), LAMBDA t : Put(t, i, Row(i, d, n, k))) :
        x = IF y.failures # s.failures \/ ~IsDir(s.t, d) \/ Taken(s.t, d, n, Portal) THEN Undone(y, s) ELSE y
  BY <1>2
<1> DEFINE z == Taking(s, i)
           a == Put(s.t, i, Row(i, d, n, k))
<1>4. Good(z) /\ z.t = s.t /\ z.u = s.t /\ i \in Ids
  BY TakingGood
<1>5. Called(y, z, a, a)
  BY <1>3, <1>4 DEF Call, Called, WithTrees, Failed
<1>6. ~Taken(s.t, d, n, Portal) => Sole(a)
  <2>1. Row(i, d, n, k).parent = d /\ Row(i, d, n, k).name = n
    BY DEF Row
  <2> QED BY <1>1, <1>4, <2>1, PutSole DEF Once
<1> HIDE DEF z, a
<1>7. z \in Work
  BY <1>4 DEF Good
<1>8. CASE x = Undone(y, s)
  <2>1. x.t = s.t /\ x.u = s.u
    <3>1. CASE y = WithTrees(z, a, a)
      BY <1>7, <1>8, <3>1 DEF WithTrees, Work, Undone
    <3>2. CASE y = Failed(z)
      BY <1>7, <1>8, <3>2 DEF Failed, Work, Undone
    <3> QED BY <1>5, <3>1, <3>2 DEF Called
  <2> QED BY <2>1 DEF Once
<1>9. CASE x = y /\ ~Taken(s.t, d, n, Portal)
  BY <1>4, <1>5, <1>6, <1>9, CalledOnce DEF Once
<1> QED BY <1>3, <1>8, <1>9

\* What psql_create_file and psql_delete_file do.
LEMMA InsertOnce ==
  ASSUME NEW s, Good(s), Once(s), NEW d, NEW n, NEW k \in {"temp", "link"}, NEW x \in Insert(s, d, n, k)
  PROVE  Once(x)
<1>1. s \in Work /\ s.t \in Trees
  BY WorkFacts DEF Good
<1>2. PICK i \in s.unused : x = [s EXCEPT !.t[i] = Row(i, d, n, k), !.unused = @ \ {i}]
  BY DEF Insert
<1>3. i \in Ids
  BY WorkFacts DEF Good
<1>4. x.t = Put(s.t, i, Row(i, d, n, k)) /\ x.u = s.u
  BY <1>1, <1>2 DEF Work, Put
<1>5. Row(i, d, n, k).kind \notin Portal
  BY DEF Row, Portal
<1>6. Sole(x.t)
  BY <1>1, <1>3, <1>4, <1>5, PutSole DEF Once
<1> QED BY <1>4, <1>6 DEF Once

\* A row keeps its place and its name.
LEMMA SamePlace ==
  ASSUME NEW t \in Trees, Sole(t), NEW i \in Ids, t[i] # NONE, NEW w,
         w.kind = t[i].kind, w.parent = t[i].parent, w.name = t[i].name
  PROVE  Sole(Put(t, i, w))
  BY PutSole DEF InPortal

LEMMA RevealSole ==
  ASSUME NEW t \in Trees, Sole(t), NEW i \in Ids, t[i] # NONE
  PROVE  Sole(Reveal(t, i))
<1> DEFINE w == [t[i] EXCEPT !.del = FALSE]
<1>1. w.kind = t[i].kind /\ w.parent = t[i].parent /\ w.name = t[i].name /\ Reveal(t, i) = Put(t, i, w)
  BY TreeFacts DEF Rows, Reveal, Put
<1> HIDE DEF w
<1>2. Sole(Put(t, i, w))
  BY <1>1, SamePlace
<1> QED BY <1>1, <1>2

LEMMA CreateFileOnce ==
  ASSUME NEW s, Good(s), Once(s), s.u = s.t, NEW p \in Paths, NEW d \in Dirs, IsDir(s.t, d), NEW n \in Names,
         NEW x \in psql_create_file(s, p, d, n)
  PROVE  Once(x)
<1>1. s \in Work /\ s.t \in Trees
  BY WorkFacts DEF Good
<1>2. PICK y : /\ x = Forgetting(y, {}, {}, {d})
               /\ \/ y \in Insert(s, d, n, "temp")
                  \/ \E z \in Add(s, d, n, "portal") : y = [z EXCEPT !.r = SetPath(@, p, z.id)]
                  \/ \E i \in Hidden(s.t, d, n) : y = [s EXCEPT !.t = Reveal(@, i), !.id = i]
  <2>1. PICK y \in IF n \in TempNames THEN Insert(s, d, n, "temp")
                   ELSE IF Hidden(s.t, d, n) = {}
                     THEN {[z EXCEPT !.r = SetPath(@, p, z.id)] : z \in Add(s, d, n, "portal")}
                   ELSE {[s EXCEPT !.t = Reveal(@, i), !.id = i] : i \in Hidden(s.t, d, n)} :
             x = Forgetting(y, {}, {}, {d})
    BY DEF psql_create_file, Forgetting
  <2>2. CASE n \in TempNames
    BY <2>1, <2>2
  <2>3. CASE n \notin TempNames /\ Hidden(s.t, d, n) = {}
    BY <2>1, <2>3
  <2>4. CASE n \notin TempNames /\ Hidden(s.t, d, n) # {}
    BY <2>1, <2>4
  <2> QED BY <2>2, <2>3, <2>4
<1>3. Good(y) /\ Once(y)
  <2>1. CASE y \in Insert(s, d, n, "temp")
    BY <2>1, InsertGood, InsertOnce
  <2>2. CASE \E z \in Add(s, d, n, "portal") : y = [z EXCEPT !.r = SetPath(@, p, z.id)]
    <3>1. PICK z \in Add(s, d, n, "portal") : y = [z EXCEPT !.r = SetPath(@, p, z.id)]
      BY <2>2
    <3>2. Good(z) /\ z.id \in Answers /\ Once(z)
      BY AddGood, AddOnce, Ends DEF Portal
    <3>3. y = WithRedis(z, SetPath(z.r, p, z.id))
      BY <3>1, <3>2 DEF WithRedis, Good, Work
    <3>4. Good(y) /\ y.t = z.t /\ y.u = z.u
      BY <3>2, <3>3, PathSet
    <3> QED BY <3>2, <3>4 DEF Once
  <2>3. CASE \E i \in Hidden(s.t, d, n) : y = [s EXCEPT !.t = Reveal(@, i), !.id = i]
    <3>1. PICK i \in Hidden(s.t, d, n) : y = [s EXCEPT !.t = Reveal(@, i), !.id = i]
      BY <2>3
    <3>2. Good(y)
      BY <3>1, RevealGood DEF Kept
    <3>3. y.t = Reveal(s.t, i) /\ y.u = s.u /\ i \in Ids /\ s.t[i] # NONE
      BY <1>1, <3>1 DEF Work, Hidden
    <3>4. Sole(y.t)
      BY <1>1, <3>3, RevealSole DEF Once
    <3> QED BY <3>2, <3>3, <3>4 DEF Once
  <2> QED BY <1>2, <2>1, <2>2, <2>3
<1>4. x = Forgetting(y, {}, {}, {d})
  BY <1>2
<1> QED BY <1>3, <1>4, ForgetsOnce

LEMMA DeleteFileOnce ==
  ASSUME NEW s, Good(s), Once(s), NEW i \in Ids, ~IsDir(s.t, i), s.t[i] # NONE => s.u[i] # NONE,
         NEW x \in psql_delete_file(s, i)
  PROVE  Once(x)
<1>1. s \in Work /\ s.t \in Trees /\ s.u \in Trees
  BY WorkFacts DEF Good
<1>2. PICK y : /\ x = Forgetting(y, {}, {i}, {})
               /\ \/ y = s
                  \/ Called(y, s, Drop(s.t, i), Drop(s.u, i))
                  \/ s.t[i] # NONE /\ y = Deletes(s, i)
  <2>1. PICK y \in IF s.t[i] = NONE THEN {s}
                   ELSE IF s.t[i].kind \in Portal THEN Call(s, LAMBDA t : Drop(t, i))
                   ELSE {Deletes(s, i)} : x = Forgetting(y, {}, {i}, {})
    BY DEF psql_delete_file, Forgetting, Deletes
  <2>2. CASE y \in Call(s, LAMBDA t : Drop(t, i))
    BY <2>1, <2>2 DEF Call, Called, WithTrees, Failed
  <2>3. CASE y \notin Call(s, LAMBDA t : Drop(t, i))
    BY <2>1, <2>3
  <2> QED BY <2>2, <2>3
<1>3. x.t = y.t /\ x.u = y.u
  <2>1. Good(y)
    <3>1. CASE y = s
      BY <3>1
    <3>2. CASE Called(y, s, Drop(s.t, i), Drop(s.u, i))
      BY <3>2, DropGood
    <3>3. CASE s.t[i] # NONE /\ y = Deletes(s, i)
      BY <3>3, RowDeleted
    <3> QED BY <1>2, <3>1, <3>2, <3>3
  <2> QED BY <1>2, <2>1, Forgets
<1>4. Once(y)
  <2>1. CASE y = s
    BY <2>1
  <2>2. CASE Called(y, s, Drop(s.t, i), Drop(s.u, i))
    BY <2>2, CalledOnce, DropSole DEF Once
  <2>3. CASE s.t[i] # NONE /\ y = Deletes(s, i)
    <3> DEFINE w == [s.u[i] EXCEPT !.data = NONE]
    <3>1. y.t = Put(s.t, i, NONE) /\ y.u = Put(s.u, i, w) /\ s.u[i] # NONE
      BY <1>1, <2>3 DEF Deletes, Put, Work
    <3>2. w.kind = s.u[i].kind /\ w.parent = s.u[i].parent /\ w.name = s.u[i].name
      BY <1>1, <3>1, TreeFacts DEF Rows
    <3> HIDE DEF w
    <3>3. Sole(Put(s.t, i, NONE)) /\ Sole(Put(s.u, i, w))
      BY <1>1, <3>1, <3>2, PutSole, SamePlace DEF Once
    <3> QED BY <3>1, <3>3 DEF Once
  <2> QED BY <1>2, <2>1, <2>2, <2>3
<1> QED BY <1>3, <1>4 DEF Once

\* What psql_rename does of it.
LEMMA DataSole ==
  ASSUME NEW t \in Trees, Sole(t), NEW j, j \in Ids, t[j] # NONE, NEW data
  PROVE  Sole([t EXCEPT ![j].data = data])
<1> DEFINE w == [t[j] EXCEPT !.data = data]
<1>1. /\ w.kind = t[j].kind /\ w.parent = t[j].parent /\ w.name = t[j].name
      /\ [t EXCEPT ![j].data = data] = Put(t, j, w)
  BY TreeFacts DEF Rows, Put
<1> HIDE DEF w
<1>2. Sole(Put(t, j, w))
  BY <1>1, SamePlace
<1> QED BY <1>1, <1>2

LEMMA CopyOnce ==
  ASSUME NEW s, Good(s), Once(s), NEW i, NEW j, NEW ok, NEW x \in copy_mmap(s, i, j, ok)
  PROVE  Good(x) /\ Once(x)
<1> DEFINE y == IF ok THEN s ELSE Failed(s)
<1>1. s \in Work /\ s.t \in Trees /\ s.u \in Trees
  BY WorkFacts DEF Good
<1>2. Written(x, y, j)
  BY <1>1, CopyIs
<1>3. /\ y = [t |-> y.t, u |-> y.u, r |-> y.r, unused |-> y.unused, failures |-> y.failures, id |-> y.id]
      /\ y.t = s.t /\ y.u = s.u
  BY <1>1 DEF Failed, Work
<1> HIDE DEF y
<1>4. Once(x)
  <2>1. CASE x = y
    BY <1>3, <2>1 DEF Once
  <2>2. CASE \E data \in Ids \cup {NONE} : x = Write(y, j, data)
    <3>1. PICK data \in Ids \cup {NONE} : x = Write(y, j, data)
      BY <2>2
    <3> DEFINE To(t) == IF j \in Ids /\ t[j] # NONE THEN [t EXCEPT ![j].data = data] ELSE t
    <3>2. x.t = To(s.t) /\ x.u = To(s.u)
      BY <1>3, <3>1 DEF Write
    <3>3. Sole(To(s.t)) /\ Sole(To(s.u))
      BY <1>1, DataSole DEF Once
    <3> HIDE DEF To
    <3> QED BY <3>2, <3>3 DEF Once
  <2> QED BY <1>2, <2>1, <2>2 DEF Written
<1>5. Good(x)
  BY CopyGood
<1> QED BY <1>4, <1>5

LEMMA SetDelOnce ==
  ASSUME NEW s, Good(s), Once(s), NEW i, NEW del \in BOOLEAN, NEW x, x = set_del_dlfileentry(s, i, del)
  PROVE  Once(x)
<1> DEFINE w == [s.t[i] EXCEPT !.del = del]
           a == IF Is_a(s.t, i, "portal") THEN Put(s.t, i, w) ELSE s.t
<1>1. s \in Work /\ s.t \in Trees
  BY WorkFacts DEF Good
<1>2. x.t = a /\ x.u = s.u
  BY <1>1 DEF set_del_dlfileentry, Put, Work
<1>3. Is_a(s.t, i, "portal") =>
        i \in Ids /\ s.t[i] # NONE /\ w.kind = s.t[i].kind /\ w.parent = s.t[i].parent /\ w.name = s.t[i].name
  BY <1>1, TreeFacts DEF Is_a, Rows
<1> HIDE DEF w
<1>4. Is_a(s.t, i, "portal") => Sole(Put(s.t, i, w))
  BY <1>1, <1>3, SamePlace DEF Once
<1> QED BY <1>2, <1>4 DEF Once

LEMMA RolledOnce ==
  ASSUME NEW s, Good(s), Once(s), NEW x, x = RolledBack(s)
  PROVE  Good(x) /\ Once(x)
  BY RolledGood DEF Once

LEMMA HideOnce ==
  ASSUME NEW s, Good(s), Once(s), NEW i, NEW x \in Hide(s, i)
  PROVE  Once(x)
<1>1. s \in Work
  BY DEF Good
<1>2. CASE x = Hides(s, i)
  BY <1>2, SetDelOnce DEF Hides
<1>3. CASE s.failures < MaxFailures /\ x = Forgetting(RolledBack(Failed(s)), {}, {i}, {})
  <2> DEFINE y == Failed(s)
             z == RolledBack(y)
  <2>1. Good(y) /\ Once(y)
    BY <1>3, Fails DEF Once
  <2>2. x = Forgetting(z, {}, {i}, {})
    BY <1>3
  <2> HIDE DEF y
  <2>3. Good(z) /\ Once(z)
    BY <2>1, RolledOnce
  <2> HIDE DEF z
  <2> QED BY <2>2, <2>3, ForgetsOnce
<1> QED BY <1>1, <1>2, <1>3, HideIs

LEMMA DeleteRowOnce ==
  ASSUME NEW s, Good(s), Once(s), NEW i \in Ids, NEW x, x = DeleteRow(s, i)
  PROVE  Once(x)
<1>1. s \in Work /\ s.t \in Trees
  BY WorkFacts DEF Good
<1>2. Sole(Put(s.t, i, NONE))
  BY <1>1, PutSole DEF Once
<1>3. x.u = s.u /\ x.t \in {s.t, Put(s.t, i, NONE)}
  BY <1>1 DEF DeleteRow, Put, Work
<1> QED BY <1>2, <1>3 DEF Once

LEMMA EntitleOnce ==
  ASSUME NEW s, Good(s), Once(s), NEW i, NEW k, NEW n \in Names, NEW x,
         Called(x, s, Entitle(s.t, i, k, n), Entitle(s.u, i, k, n))
  PROVE  Good(x) /\ Once(x)
<1>1. s.t \in Trees /\ s.u \in Trees /\ Fits(s.t) /\ Fits(s.u)
  BY WorkFacts DEF Good
<1>2. Tame(Entitle(s.t, i, k, n), s.t) /\ Tame(Entitle(s.u, i, k, n), s.u)
  BY <1>1, EntitleTame
<1>3. Sole(Entitle(s.t, i, k, n)) /\ Sole(Entitle(s.u, i, k, n))
  BY <1>1, EntitleSole DEF Once
<1> QED BY <1>2, <1>3, TameCall, CalledOnce

LEMMA MoveOnce ==
  ASSUME NEW s, Good(s), Once(s), NEW i, NEW k, NEW d, NEW x,
         Called(x, s, Move(s.t, i, k, d), Move(s.u, i, k, d))
  PROVE  Good(x) /\ Once(x)
<1>1. s.t \in Trees /\ s.u \in Trees /\ Fits(s.t) /\ Fits(s.u)
  BY WorkFacts DEF Good
<1>2. Tame(Move(s.t, i, k, d), s.t) /\ Tame(Move(s.u, i, k, d), s.u)
  BY <1>1, MoveTame
<1>3. Sole(Move(s.t, i, k, d)) /\ Sole(Move(s.u, i, k, d))
  BY <1>1, MoveSole DEF Once
<1> QED BY <1>2, <1>3, TameCall, CalledOnce

\* The DEL of the attributes of i.
Unread(y, i) == Forgetting(y, {}, {i}, {})

\* The calls of the cases of a rename.
LEMMA RenameDirIs ==
  ASSUME NEW s, NEW i, NEW d, NEW to_d, NEW n, NEW x \in RenameDir(s, i, d, to_d, n)
  PROVE  \E y, z : /\ Called(y, s, Entitle(s.t, i, "dir", n), Entitle(s.u, i, "dir", n))
                   /\ \/ d = to_d /\ z = y
                      \/ d # to_d /\ Called(z, y, Move(y.t, i, "dir", to_d), Move(y.u, i, "dir", to_d))
                   /\ x = Unread(z, i)
<1>1. PICK z \in UNION {IF d = to_d THEN {y} ELSE Call(y, LAMBDA t : Move(t, i, "dir", to_d)) :
                  y \in Call(s, LAMBDA t : Entitle(t, i, "dir", n))} : x = Unread(z, i)
  BY DEF RenameDir, Forgetting, Unread
<1>2. PICK y \in Call(s, LAMBDA t : Entitle(t, i, "dir", n)) :
        z \in IF d = to_d THEN {y} ELSE Call(y, LAMBDA t : Move(t, i, "dir", to_d))
  BY <1>1
<1>3. Called(y, s, Entitle(s.t, i, "dir", n), Entitle(s.u, i, "dir", n))
  BY <1>2 DEF Call, Called, WithTrees, Failed
<1>4. \/ d = to_d /\ z = y
      \/ d # to_d /\ Called(z, y, Move(y.t, i, "dir", to_d), Move(y.u, i, "dir", to_d))
  BY <1>2 DEF Call, Called, WithTrees, Failed
<1> QED BY <1>1, <1>3, <1>4

LEMMA RenamePortalIs ==
  ASSUME NEW s, NEW i, NEW d, NEW to_d, NEW n, NEW x \in RenamePortal(s, i, d, to_d, n),
         NEW p, p = Parents(s, d, to_d).s
  PROVE  \/ x = p /\ ~Parents(s, d, to_d).dirs
         \/ /\ Parents(s, d, to_d).dirs
            /\ \E y : /\ \/ d = to_d /\ y = p
                         \/ d # to_d /\ Called(y, p, Move(p.t, i, "portal", to_d), Move(p.u, i, "portal", to_d))
                      /\ Called(x, y, Entitle(y.t, i, "portal", n), Entitle(y.u, i, "portal", n))
<1>1. CASE ~Parents(s, d, to_d).dirs
  BY <1>1 DEF RenamePortal
<1>2. CASE Parents(s, d, to_d).dirs
  <2>1. PICK y \in IF d = to_d THEN {p} ELSE Call(p, LAMBDA t : Move(t, i, "portal", to_d)) :
               x \in Call(y, LAMBDA t : Entitle(t, i, "portal", n))
    BY <1>2 DEF RenamePortal
  <2>2. \/ d = to_d /\ y = p
        \/ d # to_d /\ Called(y, p, Move(p.t, i, "portal", to_d), Move(p.u, i, "portal", to_d))
    BY <2>1 DEF Call, Called, WithTrees, Failed
  <2>3. Called(x, y, Entitle(y.t, i, "portal", n), Entitle(y.u, i, "portal", n))
    BY <2>1 DEF Call, Called, WithTrees, Failed
  <2> QED BY <1>2, <2>2, <2>3
<1> QED BY <1>1, <1>2

LEMMA RenameDirOnce ==
  ASSUME NEW s, Good(s), Once(s), NEW i, NEW d, NEW to_d, NEW n \in Names, NEW x \in RenameDir(s, i, d, to_d, n)
  PROVE  Once(x)
<1>1. PICK y, z : /\ Called(y, s, Entitle(s.t, i, "dir", n), Entitle(s.u, i, "dir", n))
                  /\ \/ d = to_d /\ z = y
                     \/ d # to_d /\ Called(z, y, Move(y.t, i, "dir", to_d), Move(y.u, i, "dir", to_d))
                  /\ x = Unread(z, i)
  BY RenameDirIs
<1>2. Good(y) /\ Once(y)
  BY <1>1, EntitleOnce
<1>3. Good(z) /\ Once(z)
  BY <1>1, <1>2, MoveOnce
<1> QED BY <1>1, <1>3, ForgetsOnce DEF Unread

LEMMA RenamePortalOnce ==
  ASSUME NEW s, Good(s), Once(s), NEW i, NEW d \in Answers, NEW to_d \in Answers, NEW n \in Names,
         NEW x \in RenamePortal(s, i, d, to_d, n)
  PROVE  Once(x)
<1> DEFINE p == Parents(s, d, to_d).s
<1>1. Good(p) /\ Once(p)
  BY ParentsGood DEF Once
<1>2. \/ x = p
      \/ \E y : /\ y = p \/ Called(y, p, Move(p.t, i, "portal", to_d), Move(p.u, i, "portal", to_d))
                /\ Called(x, y, Entitle(y.t, i, "portal", n), Entitle(y.u, i, "portal", n))
  BY RenamePortalIs
<1> HIDE DEF p
<1>3. ASSUME NEW y, y = p \/ Called(y, p, Move(p.t, i, "portal", to_d), Move(p.u, i, "portal", to_d)),
             Called(x, y, Entitle(y.t, i, "portal", n), Entitle(y.u, i, "portal", n))
      PROVE  Once(x)
  <2>1. Good(y) /\ Once(y)
    BY <1>1, <1>3, MoveOnce
  <2> QED BY <1>3, <2>1, EntitleOnce
<1> QED BY <1>1, <1>2, <1>3

\* A row in its new place.
Placed(w, d, n) == [w EXCEPT !.parent = d, !.name = n]

LEMMA RenameTempIs ==
  ASSUME NEW s, Good(s), NEW i \in Ids, NEW d \in Answers, NEW to_d \in Answers,
         NEW n \in Names, NEW x \in RenameTemp(s, i, d, to_d, n), NEW p, p = Parents(s, d, to_d).s
  PROVE  \/ x = p /\ (~Parents(s, d, to_d).dirs \/ s.t[i] = NONE \/ TakenInTable(s.t, to_d, n))
         \/ /\ Parents(s, d, to_d).dirs /\ s.t[i] # NONE /\ s.t[i] \in Rows
            /\ x = Unread(WithTree(p, Put(s.t, i, Placed(s.t[i], to_d, n))), i)
<1>1. Good(p) /\ p.t = s.t
  BY ParentsGood
<1>2. CASE ~Parents(s, d, to_d).dirs \/ s.t[i] = NONE \/ TakenInTable(s.t, to_d, n)
  BY <1>2 DEF RenameTemp
<1>3. CASE ~(~Parents(s, d, to_d).dirs \/ s.t[i] = NONE \/ TakenInTable(s.t, to_d, n))
  <2>1. x = [p EXCEPT !.t[i].parent = to_d, !.t[i].name = n, !.r = Del(@, {}, {i}, {})]
    BY <1>3 DEF RenameTemp
  <2>2. p \in Work /\ s.t \in Trees
    BY <1>1, WorkFacts DEF Good
  <2>3. s.t[i] \in Rows
    BY <1>3, <2>2, TreeFacts
  <2>4. x = Unread(WithTree(p, Put(s.t, i, Placed(s.t[i], to_d, n))), i)
    BY ZenonT(60), <1>1, <2>1, <2>2, <2>3 DEF Forgetting, Unread, WithTree, Placed, Put, Work, Trees, Rows
  <2> QED BY <1>3, <2>3, <2>4
<1> QED BY <1>2, <1>3

LEMMA RenameTempOnce ==
  ASSUME NEW s, Good(s), Once(s), NEW i \in Ids, ~OfPortal(s.t, i), NEW d \in Answers, NEW to_d \in Answers,
         NEW n \in Names, NEW x \in RenameTemp(s, i, d, to_d, n)
  PROVE  Once(x)
<1> DEFINE p == Parents(s, d, to_d).s
           w == Placed(s.t[i], to_d, n)
<1>1. Good(p) /\ p.t = s.t /\ p.u = s.u /\ p \in Work /\ s.t \in Trees
  BY ParentsGood, WorkFacts DEF Good
<1>2. \/ x = p
      \/ /\ s.t[i] # NONE /\ s.t[i] \in Rows
         /\ x = Unread(WithTree(p, Put(s.t, i, w)), i)
  BY RenameTempIs
<1> HIDE DEF p
<1>3. CASE x = p
  BY <1>1, <1>3 DEF Once
<1>4. CASE /\ s.t[i] # NONE /\ s.t[i] \in Rows
           /\ x = Unread(WithTree(p, Put(s.t, i, w)), i)
  <2>1. w.kind \notin Portal
    BY <1>4 DEF Placed, Rows, OfPortal
  <2> HIDE DEF w
  <2>2. Sole(Put(s.t, i, w))
    BY <1>1, <2>1, PutSole DEF Once
  <2>3. x.t = Put(s.t, i, w) /\ x.u = s.u
    BY <1>1, <1>4 DEF Unread, Forgetting, WithTree, Work
  <2> QED BY <2>2, <2>3 DEF Once
<1> QED BY <1>2, <1>3, <1>4

LEMMA FillOnce ==
  ASSUME NEW s, Good(s), Once(s), NEW i, NEW to \in Paths, NEW ok, NEW x \in Fill(s, i, to, ok)
  PROVE  Good(x) /\ Once(x)
<1> DEFINE y == FindPath(s, s.t, to)
<1>1. Good(y) /\ Once(y)
  BY FindGood DEF Once
<1>2. x \in copy_mmap(y, i, y.id, ok)
  BY DEF Fill
<1> HIDE DEF y
<1> QED BY <1>1, <1>2, CopyOnce

\* A hidden file is shown with the attributes of another.
ShowsAs(s, h, m) == [Shows(s, h) EXCEPT !.r = SetMeta(@, h, m)]
\* The hidden files that a move to the portal may show again.
HiddenThere(s, d, n) == IF n \in TempNames THEN {} ELSE Hidden(s.t, d, n)

LEMMA RenameAcrossIs ==
  ASSUME NEW s, NEW i, NEW m, NEW from, NEW to, NEW to_d, NEW n, NEW ok,
         NEW x \in RenameAcross(s, i, m, from, to, to_d, n, ok)
  PROVE  \/ x = s /\ n \in TempNames /\ TakenInTable(s.t, to_d, n)
         \/ \E y, z : /\ \/ HiddenThere(s, to_d, n) = {} /\ y \in psql_create_file(s, to, to_d, n)
                         \/ \E h : h \in HiddenThere(s, to_d, n) /\ y = ShowsAs(s, h, m)
                      /\ z \in Fill(y, i, to, ok)
                      /\ \/ OfPortal(s.t, i) /\ x \in Hide(z, i)
                         \/ ~OfPortal(s.t, i) /\ z.id \in Ids /\ ~OfPortal(z.t, z.id) /\ x = z
                         \/ /\ ~OfPortal(s.t, i) /\ ~(z.id \in Ids /\ ~OfPortal(z.t, z.id))
                            /\ x \in psql_delete_file(z, i)
<1> DEFINE hidden == HiddenThere(s, to_d, n)
           Removed(z) == IF OfPortal(s.t, i) THEN Hide(z, i)
                         ELSE IF z.id \in Ids /\ ~OfPortal(z.t, z.id) THEN {z}
                         ELSE psql_delete_file(z, i)
<1>1. CASE n \in TempNames /\ TakenInTable(s.t, to_d, n)
  BY <1>1 DEF RenameAcross
<1>2. CASE ~(n \in TempNames /\ TakenInTable(s.t, to_d, n))
  <2>1. PICK y \in IF hidden = {} THEN psql_create_file(s, to, to_d, n) ELSE {ShowsAs(s, h, m) : h \in hidden} :
               x \in UNION {Removed(z) : z \in Fill(y, i, to, ok)}
    BY ZenonT(60), <1>2 DEF RenameAcross, Shows, ShowsAs, HiddenThere
  <2>2. \/ hidden = {} /\ y \in psql_create_file(s, to, to_d, n)
        \/ \E h : h \in hidden /\ y = ShowsAs(s, h, m)
    BY <2>1
  <2>3. PICK z \in Fill(y, i, to, ok) : x \in Removed(z)
    BY <2>1
  <2> QED BY <2>2, <2>3
<1> QED BY <1>1, <1>2

\* x is s with the hidden file h shown, and the attributes of the moved one.
Revived(x, s, h, m) ==
  /\ Good(x) /\ SameDirs(x.t, s.t) /\ x.u = s.u /\ x.unused = s.unused
  /\ \A j \in Ids : x.t[j] = NONE <=> s.t[j] = NONE
  /\ x.t = Shows(s, h).t /\ x.failures = s.failures /\ x.r = SetMeta(s.r, h, m) /\ x.id = s.id
  /\ h \in Ids /\ Is_a(s.t, h, "portal")

LEMMA ShowsAsGood ==
  ASSUME NEW s, Good(s), NEW to_d \in Dirs, IsDir(s.t, to_d), NEW n, NEW h \in Hidden(s.t, to_d, n),
         NEW m \in Metas, m.mode # "dir", NEW x, x = ShowsAs(s, h, m)
  PROVE  Revived(x, s, h, m)
<1> DEFINE v == Shows(s, h)
<1>1. s \in Work /\ s.t \in Trees /\ s.unused \in SUBSET Ids
  BY WorkFacts DEF Good
<1>2. h \in Ids /\ h \in Dirs /\ s.t[h] # NONE /\ s.t[h].kind = "portal" /\ s.t[h].parent = to_d
      /\ h \notin s.unused /\ ~IsDir(s.t, h)
  BY <1>1, DirFacts DEF Hidden, Dirs, Good, Fits, HiddenAreFiles, Unused
<1>3. /\ Good(v) /\ SameDirs(v.t, s.t) /\ v.unused = s.unused /\ v.u = s.u
      /\ \A j \in Ids : v.t[j] = NONE <=> s.t[j] = NONE
  BY <1>2, ShowGood DEF Tame
<1>4. v \in Work /\ h \notin v.unused /\ (m.mode = "dir" <=> IsDir(v.t, h))
  BY <1>2, <1>3 DEF SameDirs, Good
<1>5. v.r = s.r /\ v.failures = s.failures /\ v.id = s.id
  BY <1>1 DEF Shows, set_del_dlfileentry, Work
<1>6. x = WithRedis(v, SetMeta(v.r, h, m))
  BY <1>4 DEF WithRedis, Work, ShowsAs
<1> HIDE DEF v
<1>7. Good(x) /\ x.t = v.t /\ x.u = v.u /\ x.unused = v.unused /\ x.failures = v.failures /\ x.id = v.id
      /\ x.r = SetMeta(v.r, h, m)
  BY <1>2, <1>3, <1>4, <1>6, MetaSet
<1> QED BY <1>2, <1>3, <1>5, <1>7 DEF Is_a, v, Revived

\* Nothing has been done yet.
Unchanged(s) == s.u = s.t

LEMMA RenameAcrossOnce ==
  ASSUME NEW s, Good(s), Once(s), Unchanged(s), NEW i \in Dirs \ s.unused,
         NEW m \in Metas, m.mode # "dir", NEW from, NEW to \in Paths, NEW to_d \in Dirs,
         IsDir(s.t, to_d), NEW n \in Names, NEW ok,
         NEW x \in RenameAcross(s, i, m, from, to, to_d, n, ok)
  PROVE  Once(x)
<1>1. CASE x = s
  BY <1>1
<1>2. CASE x # s
  <2>1. PICK y, z : /\ \/ HiddenThere(s, to_d, n) = {} /\ y \in psql_create_file(s, to, to_d, n)
                       \/ \E h : h \in HiddenThere(s, to_d, n) /\ y = ShowsAs(s, h, m)
                    /\ z \in Fill(y, i, to, ok)
                    /\ \/ OfPortal(s.t, i) /\ x \in Hide(z, i)
                       \/ ~OfPortal(s.t, i) /\ z.id \in Ids /\ ~OfPortal(z.t, z.id) /\ x = z
                       \/ /\ ~OfPortal(s.t, i) /\ ~(z.id \in Ids /\ ~OfPortal(z.t, z.id))
                          /\ x \in psql_delete_file(z, i)
    BY <1>2, RenameAcrossIs
  <2>2. /\ Good(y) /\ SameDirs(y.t, s.t) /\ Once(y)
        /\ \A j \in Ids \ s.unused : (y.t[j] = NONE <=> s.t[j] = NONE) /\ y.u[j] = s.u[j]
    <3>1. CASE y \in psql_create_file(s, to, to_d, n)
      BY <3>1, CreateFileGood, CreateFileOnce DEF Kept, Unchanged
    <3>2. CASE \E h : h \in HiddenThere(s, to_d, n) /\ y = ShowsAs(s, h, m)
      <4>1. PICK h : h \in HiddenThere(s, to_d, n) /\ y = ShowsAs(s, h, m)
        BY <3>2
      <4>2. h \in Hidden(s.t, to_d, n) /\ y = ShowsAs(s, h, m)
        BY <4>1 DEF HiddenThere
      <4>3. Revived(y, s, h, m)
        BY <4>2, ShowsAsGood
      <4>5. /\ Good(y) /\ SameDirs(y.t, s.t) /\ y.u = s.u
            /\ \A j \in Ids : y.t[j] = NONE <=> s.t[j] = NONE
            /\ y.t = Shows(s, h).t
        BY <4>3 DEF Revived
      <4>4. Once(Shows(s, h))
        BY SetDelOnce DEF Shows
      <4> QED BY <4>4, <4>5 DEF Once
    <3> QED BY <2>1, <3>1, <3>2
  <2>3. z \in Fill(y, i, to, ok)
    BY <2>1
  <2>4. /\ Good(z) /\ SameDirs(z.t, s.t) /\ Once(z)
        /\ i \in Ids => (z.t[i] = NONE <=> s.t[i] = NONE) /\ (z.u[i] = NONE <=> s.u[i] = NONE)
    <3>1. /\ Good(z) /\ SameDirs(z.t, y.t)
          /\ \A l \in Ids : (z.t[l] = NONE <=> y.t[l] = NONE) /\ (z.u[l] = NONE <=> y.u[l] = NONE)
      BY <2>2, <2>3, FillGood
    <3>2. Once(z)
      BY <2>2, <2>3, FillOnce
    <3> QED BY <2>2, <3>1, <3>2 DEF SameDirs
  <2>5. CASE x \in Hide(z, i)
    BY <2>4, <2>5, HideOnce
  <2>6. CASE x = z
    BY <2>4, <2>6
  <2>7. CASE ~OfPortal(s.t, i) /\ x \in psql_delete_file(z, i)
    <3>1. i \in Ids /\ ~IsDir(s.t, i)
      BY <2>7 DEF OfPortal, IsDir, Shown, Portal, Dirs
    <3>2. ~IsDir(z.t, i) /\ (z.t[i] # NONE => z.u[i] # NONE)
      BY <2>4, <3>1, Ends DEF SameDirs, Unchanged
    <3> QED BY <2>4, <2>7, <3>1, <3>2, DeleteFileOnce
  <2> QED BY <2>1, <2>5, <2>6, <2>7
<1> QED BY <1>1, <1>2

LEMMA RenameLostOnce ==
  ASSUME NEW s, Good(s), Once(s), NEW i \in Ids,
         NEW m \in Metas, m.mode # "dir", NEW to \in Paths, NEW to_d,
         NEW n, NEW ok, NEW x \in RenameLost(s, i, m, to, to_d, n, ok)
  PROVE  Once(x)
<1>1. s \in Work
  BY DEF Good
<1>2. PICK f, y, z, w : LostFrom(f, y, z, w, s, i, m, to, to_d, n, ok) /\ x = RolledBack(w)
  BY <1>1, LostIs
<1>7. f \in Fail(s) /\ ShownAgain(y, f, s, m, to_d, n)
  BY <1>2 DEF LostFrom
<1>3. Good(y) /\ y.t = s.t /\ y.u = s.u
  BY <1>7, LostBegins
<1>4. Once(y)
  BY <1>3 DEF Once
<1>5. Good(z) /\ Once(z)
  <2> DEFINE v == FindPath(y, Down, to)
  <2>1. Good(v) /\ Once(v)
    BY <1>3, <1>4, FindGood DEF Once
  <2>2. z = v \/ z \in copy_mmap(v, i, v.id, ok)
    BY <1>2 DEF LostFrom
  <2> HIDE DEF v
  <2> QED BY <2>1, <2>2, CopyOnce
<1>6. Good(w) /\ Once(w)
  <2>1. w = z \/ (z.u[i] # NONE /\ w = Unlinks(z, i))
    BY <1>2 DEF LostFrom
  <2>2. CASE z.u[i] # NONE /\ w = Unlinks(z, i)
    <3>1. z \in Work /\ z.u \in Trees
      BY <1>5, WorkFacts DEF Good
    <3>2. w.t = z.t /\ w.u = [z.u EXCEPT ![i].data = NONE]
      BY <2>2, <3>1 DEF Unlinks, Work
    <3>3. Sole(w.u)
      BY <1>5, <2>2, <3>1, <3>2, DataSole DEF Once
    <3> QED BY <1>5, <2>2, <3>2, <3>3, UnlinksGood DEF Once
  <2> QED BY <1>5, <2>1, <2>2
<1> QED BY <1>2, <1>6, RolledOnce

\* What psql_rename does: y is s after the attributes were read again.
LEMMA PsqlRenameIs ==
  ASSUME NEW s, Good(s), NEW i, NEW d, NEW to_d, NEW from \in Paths, NEW to, NEW ok,
         NEW x \in psql_rename(s, i, d, to_d, from, to, ok),
         NEW m, m = psql_read_meta_from_path(s.r, s.t, from),
         NEW y, y = WithRedis(s, m.r), NEW n, n = Last(to)
  PROVE  /\ Good(y) /\ y.t = s.t /\ y.u = s.u /\ y.r = m.r /\ y.unused = s.unused
         /\ y.failures = s.failures /\ y.id = s.id
         /\ \/ m.meta = NONE /\ x = y
            \/ Is(m, "dir") /\ x \in RenameDir(y, i, d, to_d, n)
            \/ /\ m.meta # NONE /\ ~Is(m, "dir") /\ ~OfPortal(s.t, i) /\ n \in TempNames
               /\ x \in RenameTemp(y, i, d, to_d, n)
            \/ /\ m.meta # NONE /\ ~Is(m, "dir") /\ OfPortal(s.t, i) /\ n \notin TempNames
               /\ x \in RenamePortal(y, i, d, to_d, n)
            \/ /\ m.meta \in Metas /\ m.meta.mode # "dir" /\ (OfPortal(s.t, i) <=> n \in TempNames)
               /\ x \in RenameAcross(y, i, m.meta, from, to, to_d, n, ok)
            \/ /\ m.meta \in Metas /\ m.meta.mode # "dir" /\ ~OfPortal(s.t, i) /\ n \notin TempNames
               /\ x \in RenameLost(y, i, m.meta, to, to_d, n, ok)
<1>1. s.r \in Redises /\ s.t \in Trees /\ s.unused \in SUBSET Ids /\ Knows(s.r, s.t)
      /\ Unused(s.r, s.t, s.unused)
  BY WorkFacts DEF Good
<1>2. m.r \in Redises /\ m.meta \in Metas \cup {NONE}
  BY <1>1, FromPathFacts
<1>3. Knows(m.r, s.t) /\ Unused(m.r, s.t, s.unused)
  BY <1>1, FromPathKnows
<1>4. Good(y) /\ y.t = s.t /\ y.u = s.u /\ y.r = m.r /\ y.unused = s.unused
      /\ y.failures = s.failures /\ y.id = s.id
  BY <1>2, <1>3, RedisChanges
<1>5. \/ m.meta = NONE /\ x = y
      \/ Is(m, "dir") /\ x \in RenameDir(y, i, d, to_d, n)
      \/ /\ m.meta # NONE /\ ~Is(m, "dir") /\ ~OfPortal(s.t, i) /\ n \in TempNames
         /\ x \in RenameTemp(y, i, d, to_d, n)
      \/ /\ m.meta # NONE /\ ~Is(m, "dir") /\ OfPortal(s.t, i) /\ n \notin TempNames
         /\ x \in RenamePortal(y, i, d, to_d, n)
      \/ /\ m.meta # NONE /\ ~Is(m, "dir") /\ (OfPortal(s.t, i) <=> n \in TempNames)
         /\ x \in RenameAcross(y, i, m.meta, from, to, to_d, n, ok)
      \/ /\ m.meta # NONE /\ ~Is(m, "dir") /\ ~OfPortal(s.t, i) /\ n \notin TempNames
         /\ x \in RenameLost(y, i, m.meta, to, to_d, n, ok)
  BY DEF psql_rename, WithRedis
<1>6. m.meta # NONE /\ ~Is(m, "dir") => m.meta \in Metas /\ m.meta.mode # "dir"
  BY <1>2 DEF Is
<1> QED BY <1>4, <1>5, <1>6

LEMMA PsqlRenameOnce ==
  ASSUME NEW s, Good(s), Once(s), Unchanged(s), NEW i \in Dirs \ s.unused, NEW d \in Dirs, NEW to_d \in Dirs,
         IsDir(s.t, to_d), NEW from \in Paths, NEW to \in Paths, to # <<>>,
         NEW ok,
         NEW x \in psql_rename(s, i, d, to_d, from, to, ok)
  PROVE  Once(x)
<1> DEFINE m == psql_read_meta_from_path(s.r, s.t, from)
           y == WithRedis(s, m.r)
           n == Last(to)
<1>1. /\ Good(y) /\ y.t = s.t /\ y.u = s.u /\ y.unused = s.unused
      /\ \/ m.meta = NONE /\ x = y
         \/ Is(m, "dir") /\ x \in RenameDir(y, i, d, to_d, n)
         \/ /\ m.meta # NONE /\ ~Is(m, "dir") /\ ~OfPortal(s.t, i) /\ n \in TempNames
            /\ x \in RenameTemp(y, i, d, to_d, n)
         \/ /\ m.meta # NONE /\ ~Is(m, "dir") /\ OfPortal(s.t, i) /\ n \notin TempNames
            /\ x \in RenamePortal(y, i, d, to_d, n)
         \/ /\ m.meta \in Metas /\ m.meta.mode # "dir" /\ (OfPortal(s.t, i) <=> n \in TempNames)
            /\ x \in RenameAcross(y, i, m.meta, from, to, to_d, n, ok)
         \/ /\ m.meta \in Metas /\ m.meta.mode # "dir" /\ ~OfPortal(s.t, i) /\ n \notin TempNames
            /\ x \in RenameLost(y, i, m.meta, to, to_d, n, ok)
  BY PsqlRenameIs
<1>2. n \in Names /\ d \in Answers /\ to_d \in Answers
  BY PathFacts, Ends
<1>3. ~OfPortal(s.t, i) => i \in Ids
  BY DEF OfPortal, Dirs
<1>4. Once(y) /\ Unchanged(y)
  BY <1>1 DEF Once, Unchanged
<1> HIDE DEF m, y, n
<1>5. CASE x \in RenameDir(y, i, d, to_d, n)
  BY <1>1, <1>2, <1>4, <1>5, RenameDirOnce
<1>6. CASE ~OfPortal(s.t, i) /\ x \in RenameTemp(y, i, d, to_d, n)
  BY <1>1, <1>2, <1>3, <1>4, <1>6, RenameTempOnce
<1>7. CASE x \in RenamePortal(y, i, d, to_d, n)
  BY <1>1, <1>2, <1>4, <1>7, RenamePortalOnce
<1>8. CASE m.meta \in Metas /\ m.meta.mode # "dir" /\ x \in RenameAcross(y, i, m.meta, from, to, to_d, n, ok)
  BY <1>1, <1>2, <1>4, <1>8, RenameAcrossOnce
<1>9. CASE /\ m.meta \in Metas /\ m.meta.mode # "dir" /\ ~OfPortal(s.t, i)
           /\ x \in RenameLost(y, i, m.meta, to, to_d, n, ok)
  BY <1>1, <1>3, <1>4, <1>9, RenameLostOnce
<1> QED BY <1>1, <1>4, <1>5, <1>6, <1>7, <1>8, <1>9

LEMMA ReplaceOnce ==
  ASSUME NEW s, Good(s), Once(s), NEW i \in Ids, NEW j \in Ids, ~IsDir(s.t, i), ~IsDir(s.t, j),
         NEW m, NEW ok, NEW x \in Replace(s, i, j, m, ok)
  PROVE  Once(x)
<1>1. PICK y : /\ x = Forgetting(y, {}, {i, j}, {})
               /\ \/ Moved(y, s, i, j, m.parent)
                  \/ CopiedOver(y, s, i, j, ok)
  BY ReplaceIs
<1>2. CASE Moved(y, s, i, j, m.parent)
  <2>1. PICK z : /\ Called(z, s, Drop(s.t, j), Drop(s.u, j))
                 /\ Called(y, z, Move(z.t, i, "portal", m.parent), Move(z.u, i, "portal", m.parent))
    BY <1>2 DEF Moved
  <2>2. Good(z) /\ Once(z)
    BY <2>1, DropGood, CalledOnce, DropSole DEF Once
  <2>3. Good(y) /\ Once(y)
    BY <2>1, <2>2, MoveOnce
  <2> QED BY <1>1, <2>3, ForgetsOnce
<1>3. CASE CopiedOver(y, s, i, j, ok)
  <2>1. PICK c \in copy_mmap(s, i, j, ok) : y = DeleteRow(c, i)
    BY <1>3 DEF CopiedOver
  <2>2. Good(c) /\ Once(c) /\ SameDirs(c.t, s.t)
    BY <2>1, CopyOnce, CopyGood
  <2>3. ~IsDir(c.t, i)
    BY <2>2, Ends DEF SameDirs
  <2>4. Good(y) /\ Once(y)
    BY <2>1, <2>2, <2>3, DeleteRowGood, DeleteRowOnce
  <2> QED BY <1>1, <2>4, ForgetsOnce
<1> QED BY <1>1, <1>2, <1>3

LEMMA ReplaceFailsOnce ==
  ASSUME NEW s, Good(s), Once(s), NEW i, NEW j, NEW from_m, NEW ok, NEW x \in ReplaceFails(s, i, j, from_m, ok)
  PROVE  Once(x)
<1>1. PICK c \in copy_mmap(s, i, j, ok) : x = c \/ x \in Fail([c EXCEPT !.r = SetMeta(@, j, from_m)])
  BY ReplaceFailsIs
<1>2. Good(c) /\ Once(c)
  BY CopyOnce
<1>3. c \in Work
  BY <1>2 DEF Good
<1>4. CASE x \in Fail([c EXCEPT !.r = SetMeta(@, j, from_m)])
  <2>1. x.t = c.t /\ x.u = c.u
    BY <1>3, <1>4 DEF Fail, Work
  <2> QED BY <1>2, <2>1 DEF Once
<1> QED BY <1>1, <1>2, <1>4

-------------------------------------------------------------------------------
(* Requests keep the names of the portal apart.                              *)

\* The invariant of the names, for which that of the tree is needed.
OInv == RInv /\ Sole(tree)

\* The handlers.
LEMMA RefuseSole ==
  ASSUME NEW s, Once(s), Refuse(s)
  PROVE  Sole(tree')
  BY DEF Refuse, Once

LEMMA FinishSole ==
  ASSUME NEW s, Once(s), NEW r, Finish(s, r)
  PROVE  Sole(tree')
  BY DEF Finish, Once

LEMMA StartOnce ==
  ASSUME OInv, NEW r
  PROVE  Once(Start(r)) /\ Unchanged(Start(r)) /\ Start(r).t = tree /\ Start(r).u = tree
         /\ Start(r).unused = unused
  BY DEF OInv, Start, Once, Unchanged

LEMMA CreateSole ==
  ASSUME OInv, NEW p \in Paths, Create(p)
  PROVE  Sole(tree')
<1> DEFINE m == psql_read_meta_from_path(redis, tree, Front(p))
           n == Last(p)
           z == Start(m.r)
<1>1. Front(p) \in Paths /\ n \in Names
  BY KnownPath DEF Create, Absent
<1>2. Good(z) /\ (Is(m, "dir") => IsDir(tree, m.id) /\ m.id \in Dirs)
  BY <1>1, RInvFacts, Looks DEF OInv
<1>3. Once(z) /\ z.t = tree /\ z.u = z.t
  BY StartOnce
<1>4. CASE Refuse(z)
  BY <1>3, <1>4, RefuseSole
<1>5. CASE ~Refuse(z)
  <2>1. /\ Is(m, "dir")
        /\ \E s \in psql_create_file(z, p, m.id, n) :
             LET a == IF s.id \in Ids THEN [id |-> s.id, r |-> s.r]
                                      ELSE psql_path_to_id(s.r, s.t, p)
                 x == [s EXCEPT !.r = a.r]
             IN IF a.id \in Dirs THEN Finish(x, x.r) ELSE Refuse(x)
    BY <1>5 DEF Create
  <2> HIDE DEF m, n, z
  <2>2. PICK s \in psql_create_file(z, p, m.id, n) :
             LET a == IF s.id \in Ids THEN [id |-> s.id, r |-> s.r]
                                      ELSE psql_path_to_id(s.r, s.t, p)
                 x == [s EXCEPT !.r = a.r]
             IN IF a.id \in Dirs THEN Finish(x, x.r) ELSE Refuse(x)
    BY <2>1
  <2>3. Good(s) /\ Once(s)
    BY <1>1, <1>2, <1>3, <2>1, CreateFileGood, CreateFileOnce DEF Kept
  <2> DEFINE b == IF s.id \in Ids THEN s.r ELSE psql_path_to_id(s.r, s.t, p).r
             x == WithRedis(s, b)
  <2>4. Finish(x, x.r) \/ Refuse(x)
    BY <2>2 DEF WithRedis
  <2> HIDE DEF b
  <2>5. x.t = s.t /\ x.u = s.u
    BY <2>3 DEF WithRedis, Good, Work
  <2>6. Once(x)
    BY <2>3, <2>5 DEF Once
  <2> HIDE DEF x
  <2> QED BY <2>4, <2>6, FinishSole, RefuseSole
<1> QED BY <1>4, <1>5

LEMMA MkdirSole ==
  ASSUME OInv, NEW p \in Paths, Mkdir(p)
  PROVE  Sole(tree')
<1> DEFINE m == psql_read_meta_from_path(redis, tree, Front(p))
           n == Last(p)
           z == Start(m.r)
           hidden == Hidden(tree, m.id, n)
           Cleared == IF hidden = {} THEN {z}
                      ELSE UNION {Call([z EXCEPT !.r = Del(@, {}, {i}, {})], LAMBDA t : Drop(t, i)) : i \in hidden}
<1>1. Front(p) \in Paths /\ n \in Names
  BY KnownPath DEF Mkdir, Absent
<1>2. Good(z) /\ (Is(m, "dir") => IsDir(tree, m.id) /\ m.id \in Dirs)
  BY <1>1, RInvFacts, Looks DEF OInv
<1>3. Once(z) /\ z.t = tree /\ z.u = z.t
  BY StartOnce
<1>4. CASE Refuse(z)
  BY <1>3, <1>4, RefuseSole
<1>5. CASE ~Refuse(z)
  <2>1. /\ Is(m, "dir")
        /\ \E s \in Cleared : \E x \in Add(s, m.id, n, "dir") :
             LET y == [x EXCEPT !.r = SetPath(@, p, x.id)]
             IN Finish(y, Del(y.r, {}, {}, {m.id}))
    BY <1>5 DEF Mkdir
  <2>2. PICK s \in Cleared : \E x \in Add(s, m.id, n, "dir") :
             LET y == [x EXCEPT !.r = SetPath(@, p, x.id)]
             IN Finish(y, Del(y.r, {}, {}, {m.id}))
    BY <2>1
  <2>3. s = z \/ \E i \in hidden : Called(s, Unread(z, i), Drop(z.t, i), Drop(z.u, i))
    <3>1. z \in Work
      BY <1>2 DEF Good
    <3>2. CASE s = z
      BY <3>2
    <3>3. CASE s # z
      <4>1. PICK i \in hidden : s \in Call(Unread(z, i), LAMBDA t : Drop(t, i))
        BY <2>2, <3>3 DEF Unread, Forgetting
      <4> HIDE DEF z, hidden
      <4>2. Unread(z, i).t = z.t /\ Unread(z, i).u = z.u
        BY <3>1 DEF Unread, Forgetting, Work
      <4> QED BY <4>1, <4>2 DEF Call, Called, WithTrees, Failed
    <3> QED BY <3>2, <3>3
  <2> HIDE DEF Cleared, m, n, z
  <2>4. Good(s) /\ Once(s) /\ s.u = s.t
    <3>1. CASE s = z
      BY <1>2, <1>3, <3>1
    <3>2. CASE \E i \in hidden : Called(s, Unread(z, i), Drop(z.t, i), Drop(z.u, i))
      <4>1. PICK i \in hidden : Called(s, Unread(z, i), Drop(z.t, i), Drop(z.u, i))
        BY <3>2
      <4>2. i \in Ids /\ ~IsDir(tree, i)
        BY RInvFacts, DirFacts DEF Hidden, OInv, RInv, Fits, HiddenAreFiles
      <4> DEFINE y == Unread(z, i)
      <4>3. Good(y) /\ y.t = z.t /\ y.u = z.u
        BY <1>2, Forgets DEF Unread
      <4>4. Once(y)
        BY <1>3, <4>3 DEF Once
      <4> HIDE DEF y
      <4>5. Called(s, y, Drop(y.t, i), Drop(y.u, i)) /\ ~IsDir(y.t, i) /\ y.u = y.t
        BY <1>3, <4>1, <4>2, <4>3 DEF y
      <4>6. Sole(Drop(y.t, i)) /\ Sole(Drop(y.u, i))
        BY <4>4, DropSole DEF Once
      <4>7. Good(s) /\ Once(s)
        BY <4>2, <4>3, <4>4, <4>5, <4>6, DropGood, CalledOnce
      <4>8. s.u = s.t
        BY <4>3, <4>5 DEF Called, WithTrees, Failed, Good, Work
      <4> QED BY <4>7, <4>8
    <3> QED BY <2>3, <3>1, <3>2
  <2>5. PICK x \in Add(s, m.id, n, "dir") :
             LET y == [x EXCEPT !.r = SetPath(@, p, x.id)]
             IN Finish(y, Del(y.r, {}, {}, {m.id}))
    BY <2>2
  <2>6. Good(x) /\ Once(x)
    <3>1. "dir" \in Portal /\ m.id \in Dirs
      BY <1>2, <2>1 DEF Portal
    <3> QED BY <1>1, <2>4, <3>1, AddGood, AddOnce
  <2> DEFINE y == WithRedis(x, SetPath(x.r, p, x.id))
  <2>7. Finish(y, Del(y.r, {}, {}, {m.id})) /\ y.t = x.t /\ y.u = x.u
    <3>1. x \in Work
      BY <2>6 DEF Good
    <3>2. y = [x EXCEPT !.r = SetPath(@, p, x.id)]
      BY <3>1 DEF WithRedis, Work
    <3>3. y.t = x.t /\ y.u = x.u
      BY <3>1 DEF WithRedis, Work
    <3> QED BY <2>5, <3>2, <3>3
  <2> HIDE DEF y
  <2>8. Once(y)
    BY <2>6, <2>7 DEF Once
  <2> QED BY <2>7, <2>8, FinishSole
<1> QED BY <1>4, <1>5

LEMMA SymlinkSole ==
  ASSUME OInv, NEW p \in Paths, Symlink(p)
  PROVE  Sole(tree')
<1> DEFINE m == psql_read_meta_from_path(redis, tree, Front(p))
           n == Last(p)
           z == Start(m.r)
<1>1. Front(p) \in Paths /\ n \in Names
  BY KnownPath DEF Symlink, Absent
<1>2. Good(z) /\ (Is(m, "dir") => IsDir(tree, m.id) /\ m.id \in Dirs)
  BY <1>1, RInvFacts, Looks DEF OInv
<1>3. Once(z) /\ z.t = tree
  BY StartOnce
<1>4. CASE Refuse(z)
  BY <1>3, <1>4, RefuseSole
<1>5. CASE ~Refuse(z)
  <2>1. /\ Is(m, "dir")
        /\ \E s \in Insert(z, m.id, n, "link") :
             LET a == psql_read_meta_from_path(s.r, s.t, p)
                 x == [s EXCEPT !.r = a.r]
             IN IF a.meta = NONE THEN Refuse(x) ELSE Finish(x, x.r)
    BY <1>5 DEF Symlink
  <2> HIDE DEF m, n, z
  <2>2. PICK s \in Insert(z, m.id, n, "link") :
             LET a == psql_read_meta_from_path(s.r, s.t, p)
                 x == [s EXCEPT !.r = a.r]
             IN IF a.meta = NONE THEN Refuse(x) ELSE Finish(x, x.r)
    BY <2>1
  <2>3. Good(s) /\ Once(s)
    BY <1>1, <1>2, <1>3, <2>1, InsertGood, InsertOnce
  <2> DEFINE b == psql_read_meta_from_path(s.r, s.t, p).r
             x == WithRedis(s, b)
  <2>4. Finish(x, x.r) \/ Refuse(x)
    BY <2>2 DEF WithRedis
  <2> HIDE DEF b
  <2>5. x.t = s.t /\ x.u = s.u
    BY <2>3 DEF WithRedis, Good, Work
  <2>6. Once(x)
    BY <2>3, <2>5 DEF Once
  <2> HIDE DEF x
  <2> QED BY <2>4, <2>6, FinishSole, RefuseSole
<1> QED BY <1>4, <1>5

LEMMA UnlinkSole ==
  ASSUME OInv, NEW p \in Paths, Unlink(p)
  PROVE  Sole(tree')
<1> DEFINE m == psql_read_meta_from_path(redis, tree, p)
           z == Start(m.r)
<1>1. Good(z) /\ (m.meta # NONE /\ ~Is(m, "dir") => m.id \in Ids /\ ~IsDir(tree, m.id))
  BY RInvFacts, Looks DEF OInv
<1>2. Once(z) /\ z.t = tree /\ z.u = tree
  BY StartOnce
<1>3. CASE Refuse(z)
  BY <1>2, <1>3, RefuseSole
<1>4. CASE ~Refuse(z)
  <2>1. /\ m.meta # NONE /\ ~Is(m, "dir")
        /\ \E s \in psql_delete_file(z, m.id) : Finish(s, Del(s.r, {p}, {}, {m.meta.parent}))
    BY <1>4 DEF Unlink
  <2> HIDE DEF m, z
  <2>2. PICK s \in psql_delete_file(z, m.id) : Finish(s, Del(s.r, {p}, {}, {m.meta.parent}))
    BY <2>1
  <2>3. Once(s)
    BY <1>1, <1>2, <2>1, DeleteFileOnce
  <2> QED BY <2>2, <2>3, FinishSole
<1> QED BY <1>3, <1>4

LEMMA RmdirSole ==
  ASSUME OInv, NEW p \in Paths, Rmdir(p)
  PROVE  Sole(tree')
<1> DEFINE m == psql_read_meta_from_path(redis, tree, p)
           z == Start(m.r)
<1>1. Good(z)
  BY RInvFacts, Looks DEF OInv
<1>2. Once(z)
  BY StartOnce
<1>3. CASE Refuse(z)
  BY <1>2, <1>3, RefuseSole
<1>4. CASE ~Refuse(z)
  <2>1. \E s \in Call(z, LAMBDA t : Drop(t, m.id)) :
             LET x == [s EXCEPT !.r = Del(@, {}, {m.id}, {m.id})]
             IN Finish(x, Del(x.r, {p}, {}, {m.meta.parent}))
    BY <1>4 DEF Rmdir
  <2> HIDE DEF m, z
  <2>2. PICK s \in Call(z, LAMBDA t : Drop(t, m.id)) :
             LET x == [s EXCEPT !.r = Del(@, {}, {m.id}, {m.id})]
             IN Finish(x, Del(x.r, {p}, {}, {m.meta.parent}))
    BY <2>1
  <2>3. Called(s, z, Drop(z.t, m.id), Drop(z.u, m.id))
    BY <2>2 DEF Call, Called, WithTrees, Failed
  <2>4. Once(s)
    BY <1>1, <1>2, <2>3, CalledOnce, DropSole DEF Once
  <2> DEFINE x == Forgetting(s, {}, {m.id}, {m.id})
  <2>5. Finish(x, Del(x.r, {p}, {}, {m.meta.parent}))
    BY <2>2 DEF Forgetting
  <2>6. x.t = s.t /\ x.u = s.u
    <3>1. z \in Work
      BY <1>1 DEF Good
    <3>2. CASE s = WithTrees(z, Drop(z.t, m.id), Drop(z.u, m.id))
      BY <3>1, <3>2 DEF WithTrees, Work, Forgetting
    <3>3. CASE s = Failed(z)
      BY <3>1, <3>3 DEF Failed, Work, Forgetting
    <3> QED BY <2>3, <3>2, <3>3 DEF Called
  <2> HIDE DEF x
  <2>7. Once(x)
    BY <2>4, <2>6 DEF Once
  <2> QED BY <2>5, <2>7, FinishSole
<1> QED BY <1>3, <1>4

LEMMA RenameSole ==
  ASSUME OInv, NEW from \in Paths, NEW to \in Paths, NEW ok, RenameTo(from, to, ok)
  PROVE  Sole(tree')
<1> DEFINE f == psql_read_meta_from_path(redis, tree, from)
           g == psql_read_meta_from_path(f.r, tree, to)
           m == psql_read_meta_from_path(g.r, tree, Front(to))
           there == g.meta # NONE /\ g.id # Root
<1>0. RInv
  BY DEF OInv
<1>1. to # <<>> /\ Front(to) \in Paths
  BY KnownPath DEF RenameTo, Allowed
<1>2. /\ f.r \in Redises /\ Knows(f.r, tree) /\ Unused(f.r, tree, unused)
      /\ f.meta \in Metas \cup {NONE}
      /\ f.meta # NONE => f.id \in Dirs \ unused
      /\ f.meta # NONE /\ ~Is(f, "dir") => f.id \in Ids /\ ~IsDir(tree, f.id)
  BY <1>0, RInvFacts, Looks
<1> HIDE DEF f
<1>3. /\ Good(Start(g.r)) /\ g.r \in Redises /\ Knows(g.r, tree) /\ Unused(g.r, tree, unused)
      /\ g.meta # NONE /\ ~Is(g, "dir") => g.id \in Ids /\ ~IsDir(tree, g.id)
  BY <1>0, <1>2, RInvFacts, Looks
<1> HIDE DEF g
<1>4. /\ Good(Start(m.r))
      /\ Is(m, "dir") => IsDir(tree, m.id) /\ m.id \in Dirs
  BY <1>0, <1>1, <1>3, RInvFacts, Looks
<1>5. \/ Refuse(Start(f.r)) \/ Refuse(Start(g.r)) \/ Refuse(Start(m.r))
      \/ /\ f.meta # NONE /\ ~Is(f, "dir")
         /\ there /\ Is(g, "reg")
         /\ \/ \E s \in Replace(Start(g.r), f.id, g.id, g.meta, ok) :
                Finish(s, Del(s.r, {from}, {}, {f.meta.parent}))
            \/ \E s \in ReplaceFails(Start(g.r), f.id, g.id, f.meta, ok) : Refuse(s)
      \/ /\ f.meta # NONE /\ Is(m, "dir")
         /\ \E s \in psql_rename(Start(m.r), f.id, f.meta.parent, m.id, from, to, ok) :
              Finish(s, Del(s.r, {from}, {}, {m.id, f.meta.parent}))
  BY DEF RenameTo, f, g
<1> HIDE DEF m
<1>6. \A x : Once(Start(x)) /\ Unchanged(Start(x)) /\ Start(x).t = tree /\ Start(x).unused = unused
  BY StartOnce
<1>7. CASE Refuse(Start(f.r)) \/ Refuse(Start(g.r)) \/ Refuse(Start(m.r))
  BY <1>6, <1>7, RefuseSole
<1>10. CASE /\ f.meta # NONE /\ ~Is(f, "dir") /\ there /\ Is(g, "reg")
            /\ \E s \in Replace(Start(g.r), f.id, g.id, g.meta, ok) :
                 Finish(s, Del(s.r, {from}, {}, {f.meta.parent}))
  <2>1. PICK s \in Replace(Start(g.r), f.id, g.id, g.meta, ok) :
                 Finish(s, Del(s.r, {from}, {}, {f.meta.parent}))
    BY <1>10
  <2>2. ~Is(g, "dir")
    BY <1>10 DEF Is
  <2>3. Once(s)
    BY <1>2, <1>3, <1>6, <1>10, <2>2, ReplaceOnce
  <2> QED BY <2>1, <2>3, FinishSole
<1>11. CASE /\ f.meta # NONE /\ ~Is(f, "dir") /\ there /\ Is(g, "reg")
            /\ \E s \in ReplaceFails(Start(g.r), f.id, g.id, f.meta, ok) : Refuse(s)
  <2>1. PICK s \in ReplaceFails(Start(g.r), f.id, g.id, f.meta, ok) : Refuse(s)
    BY <1>11
  <2>2. Once(s)
    BY <1>3, <1>6, ReplaceFailsOnce
  <2> QED BY <2>1, <2>2, RefuseSole
<1>12. CASE /\ f.meta # NONE /\ Is(m, "dir")
            /\ \E s \in psql_rename(Start(m.r), f.id, f.meta.parent, m.id, from, to, ok) :
                 Finish(s, Del(s.r, {from}, {}, {m.id, f.meta.parent}))
  <2>1. PICK s \in psql_rename(Start(m.r), f.id, f.meta.parent, m.id, from, to, ok) :
                 Finish(s, Del(s.r, {from}, {}, {m.id, f.meta.parent}))
    BY <1>12
  <2>2. f.meta.parent \in Dirs
    BY <1>2, <1>12 DEF Metas
  <2>3. Once(s)
    BY <1>1, <1>2, <1>4, <1>6, <1>12, <2>2, PsqlRenameOnce
  <2> QED BY <2>1, <2>3, FinishSole
<1> QED BY <1>5, <1>7, <1>10, <1>11, <1>12

\* The names stay apart in every step.
LEMMA NextSole == OInv /\ [Next]_vars => Sole(tree)'
<1> SUFFICES ASSUME OInv, [Next]_vars
             PROVE  Sole(tree')
  OBVIOUS
<1>1. CASE tree' = tree
  BY <1>1 DEF OInv
<1>2. ASSUME NEW p \in Paths, Getattr(p) \/ Opendir(p) \/ GetattrFails(p)
      PROVE  tree' = tree
  BY <1>2 DEF Getattr, Opendir, GetattrFails, Refuse, Start
<1>3. ASSUME NEW d \in Dirs, Readdir(d)
      PROVE  tree' = tree
  BY <1>3 DEF Readdir
<1>4. UNCHANGED vars => tree' = tree
  BY DEF vars
<1>5. ASSUME NEW p \in Paths, Create(p) \/ Mkdir(p) \/ Symlink(p) \/ Unlink(p) \/ Rmdir(p)
      PROVE  Sole(tree')
  BY <1>5, CreateSole, MkdirSole, SymlinkSole, UnlinkSole, RmdirSole
<1>6. ASSUME NEW from \in Paths, NEW to \in Paths, Rename(from, to)
      PROVE  Sole(tree')
  BY <1>6, RenameSole DEF Rename
<1> QED BY <1>1, <1>2, <1>3, <1>4, <1>5, <1>6 DEF Next, NamespaceNext

LEMMA InitOnce == Init => OInv
  BY InitInv DEF Init, OInv, Sole, InPortal

LEMMA NextOnce == OInv /\ [Next]_vars => OInv'
  BY NextInv, NextSole DEF OInv

\* The portal never has a name twice in a folder, what is hidden counted.
THEOREM PortalNamesStayApart == Spec => []Sole(tree)
<1>1. OInv => Sole(tree)
  BY DEF OInv
<1> QED BY <1>1, InitOnce, NextOnce, PTL DEF Spec
===============================================================================
