---------------------------- MODULE RenameStepProofs ---------------------------
(***************************************************************************)
(* What one request does, for any names, paths, ids and failures: the      *)
(* action properties of Rename.  Those about Redis speak of steps from     *)
(* states where it is right (Untroubled); there lookups find what the tree *)
(* has, and each call of a handler is followed by the rows it touches and  *)
(* the keys it leaves.  That a rename keeps the data holds from any state  *)
(* the requests lead to, of paths that are found; there each call is       *)
(* followed by the row that has the data, in both outcomes.                *)
(***************************************************************************)
EXTENDS RenameProofs, FiniteSetTheorems

-------------------------------------------------------------------------------
(* Where paths lead.                                                         *)

\* An entry that is found is shown, in the directory and of the name.
LEMMA EntryFacts ==
  ASSUME NEW t \in Trees, NEW d, NEW n
  PROVE  LET i == Entry(t, d, n)
         IN /\ i # NONE => i \in Shown(t) /\ i \in Ids /\ t[i].parent = d /\ t[i].name = n
            /\ i = NONE <=> Named(t, d, n) = {}
  BY NamespaceAssumption DEF Entry, Named, Children, Shown

\* An entry that has a path is the one of its name in the directory before it.
LEMMA AtFacts ==
  ASSUME NEW t \in Trees, NEW p \in Paths
  PROVE  /\ At(t, p) \in Dirs \cup {NONE}
         /\ At(t, p) = Root <=> p = <<>>
         /\ p # <<>> /\ At(t, p) # NONE =>
              /\ At(t, p) \in Shown(t) /\ At(t, p) \in Ids
              /\ t[At(t, p)].parent = At(t, Front(p)) /\ t[At(t, p)].name = Last(p)
              /\ At(t, Front(p)) \in Dirs
<1>1. CASE p = <<>>
  BY <1>1, AtStep, NamespaceAssumption, Ends
<1>2. CASE p # <<>>
  <2>1. At(t, p) = Entry(t, At(t, Front(p)), Last(p))
    BY <1>2, AtStep
  <2>2. At(t, p) # NONE => /\ At(t, p) \in Shown(t) /\ At(t, p) \in Ids
                           /\ t[At(t, p)].parent = At(t, Front(p)) /\ t[At(t, p)].name = Last(p)
    BY <2>1, EntryFacts
  <2>3. At(t, p) # NONE => At(t, Front(p)) \in Dirs
    BY <2>2, TreeFacts DEF Shown
  <2> QED BY <1>2, <2>2, <2>3, NamespaceAssumption, Ends
<1> QED BY <1>1, <1>2

\* A path is the one before it and its last name.
LEMMA FrontAndLast ==
  ASSUME NEW p \in Paths, NEW q \in Paths, p # <<>>, q # <<>>,
         Front(p) = Front(q), Last(p) = Last(q)
  PROVE  p = q
<1>1. /\ p \in Seq(Names) /\ Len(p) \in Nat /\ Len(p) > 0
      /\ q \in Seq(Names) /\ Len(q) \in Nat /\ Len(q) > 0
      /\ Len(Front(p)) = Len(p) - 1 /\ Len(Front(q)) = Len(q) - 1
  BY PathFacts
<1>2. Len(p) = Len(q)
  BY <1>1
<1>3. ASSUME NEW n \in 1 .. Len(p)
      PROVE  p[n] = q[n]
  <2>1. CASE n = Len(p)
    BY <1>1, <1>2, <2>1 DEF Last
  <2>2. CASE n # Len(p)
    <3>1. n \in 1 .. Len(p) - 1
      BY <1>1, <2>2
    <3>2. Front(p)[n] = p[n] /\ Front(q)[n] = q[n]
      BY <1>1, <1>2, <3>1 DEF Front
    <3> QED BY <3>2
  <2> QED BY <2>1, <2>2
<1> QED BY <1>1, <1>2, <1>3

\* An entry has one path.
LEMMA OnePath ==
  ASSUME NEW t \in Trees, NEW p \in Paths, NEW q \in Paths, At(t, p) = At(t, q), At(t, p) # NONE
  PROVE  p = q
<1> DEFINE Alone(x) == \A y \in Paths : At(t, x) = At(t, y) /\ At(t, x) # NONE => x = y
           T == {n \in 0 .. Len(p) : \A x \in Paths : Len(x) = n => Alone(x)}
<1>1. Len(p) \in Nat /\ p \in Seq(Names)
  BY NamespaceAssumption
<1>2. 0 \in T
  <2>1. ASSUME NEW x \in Paths, Len(x) = 0
        PROVE  Alone(x)
    <3>1. x = <<>>
      BY <2>1, NamespaceAssumption
    <3> QED BY <3>1, AtFacts
  <2> QED BY <1>1, <2>1
<1>3. ASSUME NEW n \in 1 .. Len(p), n - 1 \in T
      PROVE  n \in T
  <2>1. ASSUME NEW x \in Paths, Len(x) = n, NEW y \in Paths, At(t, x) = At(t, y), At(t, x) # NONE
        PROVE  x = y
    <3>1. x # <<>>
      BY <1>1, <2>1
    <3>2. y # <<>>
      BY <2>1, <3>1, AtFacts
    <3>3. /\ t[At(t, x)].parent = At(t, Front(x)) /\ t[At(t, x)].name = Last(x)
          /\ t[At(t, y)].parent = At(t, Front(y)) /\ t[At(t, y)].name = Last(y)
          /\ At(t, Front(x)) \in Dirs
      BY <2>1, <3>1, <3>2, AtFacts
    <3>4. At(t, Front(x)) = At(t, Front(y)) /\ Last(x) = Last(y) /\ At(t, Front(x)) # NONE
      BY <2>1, <3>3, Ends
    <3>5. Front(x) \in Paths /\ Front(y) \in Paths /\ Len(Front(x)) = n - 1
      BY <2>1, <3>1, <3>2, PathFacts
    <3>6. Alone(Front(x))
      BY <1>3, <3>5
    <3>7. Front(x) = Front(y)
      BY <3>4, <3>5, <3>6
    <3> QED BY <3>1, <3>2, <3>4, <3>7, FrontAndLast
  <2>2. \A x \in Paths : Len(x) = n => Alone(x)
    BY <2>1
  <2>3. n \in 0 .. Len(p)
    BY <1>1
  <2> QED BY <2>2, <2>3
<1>4. Len(p) \in T
  <2> HIDE DEF T
  <2>1. T = T /\ \A n \in 0 .. Len(p) : n \in T
    BY <1>1, <1>2, <1>3, Induct
  <2> QED BY <1>1, <2>1
<1> QED BY <1>4

\* Without twins the database finds the one entry there is.
LEMMA DbFinds ==
  ASSUME NEW t \in Trees, NoTwins(t), NEW d \in Dirs, NEW n
  PROVE  get_id_from_db(t, d, n) = Entry(t, d, n)
<1>1. t # Down
  BY NothingAssumption
<1>2. CASE Named(t, d, n) = {}
  BY <1>1, <1>2 DEF get_id_from_db, Entry
<1>3. CASE Named(t, d, n) # {}
  <2>1. PICK i \in Named(t, d, n) : TRUE
    BY <1>3
  <2>2. i \in Shown(t) /\ t[i].parent = d /\ t[i].name = n
    BY <2>1 DEF Named, Children
  <2>3. Named(t, d, n) = {i}
    BY <2>2 DEF NoTwins
  <2>4. Cardinality({i}) = 1
    BY FS_Singleton
  <2>5. ~(Cardinality(Named(t, d, n)) > 1)
    BY <2>3, <2>4
  <2> QED BY <1>1, <1>3, <2>5 DEF get_id_from_db, Entry
<1> QED BY <1>2, <1>3
-------------------------------------------------------------------------------
(* Lookups where Redis is right.                                             *)

\* What Redis says of paths and of attributes is what the tree t has, and it
\* knows the directories.
PathsRight(r, t) ==
  \A p \in Paths : /\ r.path[p] \in {NONE, At(t, p)}
                   /\ IsDir(t, At(t, p)) => r.path[p] # NONE
MetasRight(r, t) ==
  \A i \in Ids : r.meta[i] # NONE /\ i \in Shown(t) => r.meta[i] = Attributes(t, i)
Right(r, t) == PathsRight(r, t) /\ MetasRight(r, t)

\* A path is looked up in t that is the root's or lies in a directory.
Within(t, p) == p = <<>> \/ IsDir(t, At(t, Front(p)))

\* psql_path_to_id finds the entry at p, and leaves keys right.
LEMMA LookupFinds ==
  ASSUME NEW r \in Redises, NEW t \in Trees, NoTwins(t), PathsRight(r, t), NEW p \in Paths, Within(t, p)
  PROVE  LET a == psql_path_to_id(r, t, p)
         IN /\ a.id = At(t, p) /\ a.r \in Redises /\ PathsRight(a.r, t)
            /\ a.r.meta = r.meta /\ a.r.list = r.list
            /\ \A q \in Paths \ {p} : a.r.path[q] = r.path[q]
<1> DEFINE a == psql_path_to_id(r, t, p)
<1>1. a.r \in Redises /\ a.r.meta = r.meta /\ a.r.list = r.list
  BY LookupFacts
<1>2. CASE r.path[p] # NONE
  <2>1. a = [id |-> r.path[p], r |-> r]
    BY <1>2 DEF psql_path_to_id
  <2>2. r.path[p] = At(t, p)
    BY <1>2 DEF PathsRight
  <2> QED BY <1>1, <2>1, <2>2
<1>3. CASE r.path[p] = NONE /\ p = <<>>
  <2>1. FALSE
    BY <1>3, AtFacts DEF PathsRight, IsDir
  <2> QED BY <2>1
<1>4. CASE r.path[p] = NONE /\ p # <<>>
  <2> DEFINE d == At(t, Front(p))
             i == At(t, p)
  <2>1. Front(p) \in Paths
    BY <1>4, PathFacts
  <2>2. IsDir(t, d)
    BY <1>4 DEF Within
  <2>3. r.path[Front(p)] = d /\ d # NONE
    BY <2>1, <2>2 DEF PathsRight
  <2>4. d \in Dirs
    BY <2>1, <2>3, AtFacts
  <2>5. get_id_from_db(t, d, Last(p)) = i
    BY <1>4, <2>4, DbFinds, AtStep
  <2> HIDE DEF d
  <2>6. a = [id |-> i, r |-> IF i = NONE THEN r ELSE SetPath(r, p, i)]
    BY <1>4, <2>3, <2>5 DEF psql_path_to_id
  <2>7. i \in Answers
    BY AtFacts, Ends
  <2>8. /\ SetPath(r, p, i).path = [r.path EXCEPT ![p] = i]
        /\ r.path \in [Paths -> Dirs \cup {NONE, Bad}]
    BY <2>7, SetPathFacts DEF Redises
  <2> HIDE DEF i
  <2>9. /\ i = At(t, p)
        /\ \A q \in Paths \ {p} : a.r.path[q] = r.path[q]
        /\ a.r.path[p] = IF i = NONE THEN NONE ELSE i
    BY <1>4, <2>6, <2>8 DEF i
  <2>10. PathsRight(a.r, t)
    <3>1. ASSUME NEW q \in Paths
          PROVE  a.r.path[q] \in {NONE, At(t, q)} /\ (IsDir(t, At(t, q)) => a.r.path[q] # NONE)
      <4>1. CASE q = p
        BY <2>9, <4>1, Ends, DirFacts, NamespaceAssumption DEF IsDir, Shown
      <4>2. CASE q # p
        BY <2>9, <4>2 DEF PathsRight
      <4> QED BY <4>1, <4>2
    <3> HIDE DEF a
    <3> QED BY <3>1 DEF PathsRight
  <2> QED BY <1>1, <2>6, <2>9, <2>10
<1> QED BY <1>2, <1>3, <1>4

\* What a lookup of attributes finds: the entry at the path, and its attributes.
Finds(m, r, t, p) ==
  /\ m.id = At(t, p) /\ m.id \in Dirs \cup {NONE}
  /\ m.r \in Redises /\ Right(m.r, t) /\ m.r.list = r.list
  /\ \A q \in Paths \ {p} : m.r.path[q] = r.path[q]
  /\ m.meta # NONE <=> m.id # NONE
  /\ m.id \in Ids => m.id \in Shown(t) /\ m.meta = Attributes(t, m.id)

\* psql_read_meta finds the attributes of what is shown, and leaves them right.
LEMMA ReadRight ==
  ASSUME NEW r \in Redises, NEW t \in Trees, MetasRight(r, t), NEW d \in Answers
  PROVE  LET m == psql_read_meta(r, t, d)
         IN /\ m.r \in Redises /\ MetasRight(m.r, t) /\ m.r.path = r.path /\ m.r.list = r.list
            /\ d \in Shown(t) => m.id = d /\ m.meta = Attributes(t, d)
<1> DEFINE m == psql_read_meta(r, t, d)
<1>1. Reads(m, r, t, d)
  BY ReadMetaFacts
<1>2. r.meta \in [Dirs -> Metas \cup {NONE}]
  BY DEF Redises
<1> HIDE DEF m
<1>3. MetasRight(m.r, t)
  <2>1. CASE m.r = r
    BY <2>1
  <2>2. CASE m.r.meta = [r.meta EXCEPT ![d] = Attributes(t, d)]
    BY <1>2, <2>2, Ends DEF MetasRight
  <2> QED BY <1>1, <2>1, <2>2 DEF Reads
<1>4. d \in Shown(t) => m.id = d /\ m.meta = Attributes(t, d)
  <2>1. SUFFICES ASSUME d \in Shown(t)
                 PROVE  m.id = d /\ m.meta = Attributes(t, d)
    OBVIOUS
  <2>2. d \in Ids /\ d \in Dirs /\ t # Down
    BY <2>1, Ends, NothingAssumption DEF Shown
  <2>3. CASE r.meta[d] # NONE
    <3>1. m = [id |-> d, meta |-> r.meta[d], r |-> r]
      BY <2>2, <2>3 DEF psql_read_meta, m
    <3> QED BY <2>1, <2>2, <2>3, <3>1 DEF MetasRight
  <2>4. CASE r.meta[d] = NONE
    <3>1. m = [id |-> d, meta |-> Attributes(t, d), r |-> SetMeta(r, d, Attributes(t, d))]
      BY <2>1, <2>2, <2>4 DEF psql_read_meta, m
    <3> QED BY <3>1
  <2> QED BY <2>3, <2>4
<1> QED BY <1>1, <1>3, <1>4 DEF Reads, m

\* psql_read_meta_from_path does both.
LEMMA FromPathFinds ==
  ASSUME NEW r \in Redises, NEW t \in Trees, NoTwins(t), Right(r, t), NEW p \in Paths, Within(t, p),
         NEW m, m = psql_read_meta_from_path(r, t, p)
  PROVE  Finds(m, r, t, p)
<1> DEFINE a == psql_path_to_id(r, t, p)
<1>1. /\ a.id = At(t, p) /\ a.r \in Redises /\ PathsRight(a.r, t)
      /\ a.r.meta = r.meta /\ a.r.list = r.list
      /\ \A q \in Paths \ {p} : a.r.path[q] = r.path[q]
  BY LookupFinds DEF Right
<1>2. m = psql_read_meta(a.r, t, a.id)
  BY DEF psql_read_meta_from_path
<1>3. a.id \in Dirs \cup {NONE} /\ a.id \in Answers
  BY <1>1, AtFacts, Ends
<1>4. MetasRight(a.r, t)
  BY <1>1 DEF Right, MetasRight
<1> HIDE DEF a
<1>5. Reads(m, a.r, t, a.id)
  BY <1>1, <1>2, <1>3, ReadMetaFacts
<1>6. /\ m.r \in Redises /\ MetasRight(m.r, t) /\ m.r.path = a.r.path /\ m.r.list = a.r.list
      /\ a.id \in Shown(t) => m.id = a.id /\ m.meta = Attributes(t, a.id)
  BY <1>1, <1>2, <1>3, <1>4, ReadRight
<1>7. Right(m.r, t)
  BY <1>1, <1>6 DEF Right, PathsRight
<1>8. CASE a.id = NONE
  <2>1. m = [id |-> NONE, meta |-> NONE, r |-> a.r]
    BY <1>2, <1>8, Ends DEF psql_read_meta
  <2> QED BY <1>1, <1>3, <1>6, <1>7, <1>8, <2>1, Ends DEF Finds
<1>9. CASE a.id = Root
  <2>1. t # Down
    BY NothingAssumption
  <2>2. m.id = Root
    <3>1. CASE a.r.meta[Root] # NONE
      BY <1>2, <1>9, <3>1, Ends DEF psql_read_meta
    <3>2. CASE a.r.meta[Root] = NONE
      BY <1>2, <1>9, <2>1, <3>2, Ends DEF psql_read_meta
    <3> QED BY <3>1, <3>2
  <2>3. m.meta # NONE
    BY <1>5, <2>2, Ends DEF Reads
  <2> QED BY <1>1, <1>3, <1>6, <1>7, <1>9, <2>2, <2>3, Ends, NamespaceAssumption DEF Finds
<1>10. CASE a.id \in Ids
  <2>1. a.id \in Shown(t)
    <3>1. p # <<>> /\ At(t, p) # NONE
      BY <1>1, <1>10, AtFacts, NamespaceAssumption
    <3> QED BY <1>1, <3>1, AtFacts
  <2>2. m.id = a.id /\ m.meta = Attributes(t, a.id) /\ m.meta # NONE
    BY <1>6, <2>1, AttributesFacts
  <2> QED BY <1>1, <1>3, <1>6, <1>7, <1>10, <2>1, <2>2, Ends, NamespaceAssumption DEF Finds
<1> QED BY <1>3, <1>8, <1>9, <1>10 DEF Dirs
-------------------------------------------------------------------------------
(* What a step must leave for the properties to hold.                        *)

\* The properties, of one step.
PathStep ==
  \A p \in Paths : StalePath(p)' =>
    \/ \E n \in 1 .. Len(p) - 1 : At(tree, SubSeq(p, 1, n)) # At(tree', SubSeq(p, 1, n))
    \/ Replaced(p)
ListStep ==
  \A d \in Dirs : StaleList(d)' /\ ~StaleList(d) =>
    \/ \E i \in Ids : tree[i] = NONE /\ Is_a(tree', i, "link") /\ tree'[i].parent = d
    \/ \E p \in Paths : p # <<>> /\ At(tree, Front(p)) = d /\ Replaced(p)
MetaStep == \A i \in Ids : StaleMeta(i)' => Is_a(tree, i, "portal") /\ tree'[i] # tree[i]

\* j is shown in v and in w in the same place, or in neither.
Like(v, w, j) ==
  /\ j \in Shown(v) <=> j \in Shown(w)
  /\ j \in Shown(w) => v[j].kind = w[j].kind /\ v[j].parent = w[j].parent /\ v[j].name = w[j].name

\* j is shown nowhere but in directories of D.
Lies(t, j, D) == j \in Shown(t) => t[j].parent \in D

\* Attributes are left of what did not move; others are deleted, or those of a
\* file of the portal.
LEMMA MetasConclude ==
  ASSUME NEW r, MetasRight(r, tree),
         \A j \in Ids :
           \/ redis'.meta[j] = NONE
           \/ j \notin Shown(tree')
           \/ redis'.meta[j] = Attributes(tree', j)
           \/ redis'.meta[j] = r.meta[j] /\ Like(tree', tree, j)
           \/ Is_a(tree, j, "portal") /\ tree'[j] # tree[j]
  PROVE  MetaStep
<1>1. SUFFICES ASSUME NEW j \in Ids, redis'.meta[j] # NONE, j \in Shown(tree'),
                      redis'.meta[j] # Attributes(tree', j),
                      redis'.meta[j] = r.meta[j], Like(tree', tree, j)
               PROVE  FALSE
  BY DEF MetaStep, StaleMeta
<1>2. j \in Shown(tree) /\ tree'[j].kind = tree[j].kind /\ tree'[j].parent = tree[j].parent
  BY <1>1 DEF Like
<1>3. redis'.meta[j] = Attributes(tree, j)
  BY <1>1, <1>2 DEF MetasRight
<1>4. Attributes(tree', j) = Attributes(tree, j)
  BY <1>2, NamespaceAssumption DEF Attributes
<1> QED BY <1>1, <1>3, <1>4

\* Listings are left of directories in which nothing changed.
LEMMA ListsConclude ==
  ASSUME NEW D,
         \A d \in Dirs : redis'.list[d] = {} \/ redis'.list[d] = redis.list[d],
         \A j \in Ids : Like(tree', tree, j) \/ (Lies(tree', j, D) /\ Lies(tree, j, D)),
         \A d \in D \cap Dirs :
           \/ redis'.list[d] = {}
           \/ \E i \in Ids : tree[i] = NONE /\ Is_a(tree', i, "link") /\ tree'[i].parent = d
           \/ \E p \in Paths : p # <<>> /\ At(tree, Front(p)) = d /\ Replaced(p)
  PROVE  ListStep
<1>1. SUFFICES ASSUME NEW d \in Dirs, d \notin D, redis'.list[d] # {},
                      redis'.list[d] # {tree'[i].name : i \in Children(tree', d)}, ~StaleList(d)
               PROVE  FALSE
  BY DEF ListStep, StaleList
<1>2. redis'.list[d] = {tree[i].name : i \in Children(tree, d)}
  BY <1>1 DEF StaleList
<1>3. \A i : i \in Children(tree', d) <=> i \in Children(tree, d)
  BY <1>1 DEF Children, Like, Lies, Shown
<1>4. \A i \in Children(tree, d) : tree'[i].name = tree[i].name
  BY <1>1 DEF Children, Like, Lies, Shown
<1> QED BY <1>1, <1>2, <1>3, <1>4

\* A key of a path is right as long as its entry is in its place in the
\* directory that the path before it led to.
Leads(t, v, k, p) == /\ p # <<>> /\ k \in Shown(v)
                     /\ v[k].parent = At(t, Front(p)) /\ v[k].name = Last(p)

\* Keys that are each right, in their directory, make the step right.
LEMMA PathsConclude ==
  ASSUME tree \in Trees, tree' \in Trees, NoTwins(tree'),
         \A p \in Paths :
           \/ redis'.path[p] = NONE
           \/ p = <<>> /\ redis'.path[p] = Root
           \/ Leads(tree, tree', redis'.path[p], p)
           \/ Replaced(p)
  PROVE  PathStep
<1>1. SUFFICES ASSUME NEW p \in Paths, redis'.path[p] # NONE, redis'.path[p] # At(tree', p), ~Replaced(p),
                      \A n \in 1 .. Len(p) - 1 : At(tree, SubSeq(p, 1, n)) = At(tree', SubSeq(p, 1, n))
               PROVE  FALSE
  BY DEF PathStep, StalePath
<1> DEFINE k == redis'.path[p]
<1>2. CASE p = <<>>
  BY <1>1, <1>2, AtStep DEF Leads
<1>3. CASE p # <<>>
  <2>1. Leads(tree, tree', k, p)
    BY <1>1, <1>3
  <2>2. Len(p) \in Nat /\ Len(p) > 0 /\ Front(p) \in Paths /\ Len(Front(p)) = Len(p) - 1
    BY <1>3, PathFacts
  <2>3. At(tree', Front(p)) = At(tree, Front(p))
    <3>1. CASE Front(p) = <<>>
      BY <2>2, <3>1, AtStep
    <3>2. CASE Front(p) # <<>>
      <4>0. Front(p) \in Seq(Names)
        BY <2>2, NamespaceAssumption
      <4>1. Len(Front(p)) # 0
        BY <3>2, <4>0
      <4>2. Len(p) - 1 \in 1 .. Len(p) - 1
        BY <2>2, <4>1
      <4>3. Front(p) = SubSeq(p, 1, Len(p) - 1)
        BY DEF Front
      <4> QED BY <1>1, <4>2, <4>3
    <3> QED BY <3>1, <3>2
  <2>4. k \in Shown(tree') /\ tree'[k].parent = At(tree', Front(p)) /\ tree'[k].name = Last(p)
    BY <2>1, <2>3 DEF Leads
  <2>5. Named(tree', At(tree', Front(p)), Last(p)) = {k}
    BY <2>4 DEF NoTwins
  <2>6. At(tree', p) = Entry(tree', At(tree', Front(p)), Last(p))
    BY <1>3, AtStep
  <2>7. At(tree', p) = k
    BY <2>5, <2>6 DEF Entry
  <2> QED BY <1>1, <2>7
<1> QED BY <1>2, <1>3

\* A key that was right, of an entry that did not move, is right.
LEMMA KeyStays ==
  ASSUME tree \in Trees, NEW r, PathsRight(r, tree), NEW p \in Paths, r.path[p] # NONE,
         At(tree, p) \in Ids => Like(tree', tree, At(tree, p))
  PROVE  (p = <<>> /\ r.path[p] = Root) \/ Leads(tree, tree', r.path[p], p)
<1>1. r.path[p] = At(tree, p)
  BY DEF PathsRight
<1>2. CASE p = <<>>
  BY <1>1, <1>2, AtStep
<1>3. CASE p # <<>>
  <2>1. /\ At(tree, p) \in Shown(tree) /\ At(tree, p) \in Ids
        /\ tree[At(tree, p)].parent = At(tree, Front(p)) /\ tree[At(tree, p)].name = Last(p)
    BY <1>1, <1>3, AtFacts
  <2> QED BY <1>1, <1>3, <2>1 DEF Leads, Like
<1> QED BY <1>2, <1>3
Steps == PathStep /\ ListStep /\ MetaStep

\* Nothing goes wrong, from a state where Redis is right.
Calm == RInv /\ Untroubled /\ tree' \in Trees

\* What is known of a calm step.
LEMMA CalmFacts ==
  ASSUME Calm
  PROVE  /\ RInv /\ failures' = failures /\ NoTwins(tree) /\ NoTwins(tree') /\ Right(redis, tree)
         /\ tree \in Trees /\ tree' \in Trees /\ redis \in Redises /\ unused \in SUBSET Ids /\ failures \in Nat
         /\ Fits(tree) /\ Knows(redis, tree) /\ Unused(redis, tree, unused)
<1>1. RInv /\ failures' = failures /\ NoTwins(tree) /\ NoTwins(tree') /\ tree' \in Trees
  BY DEF Calm, Untroubled
<1>2. PathsRight(redis, tree)
  BY DEF Calm, Untroubled, PathsRight, StalePath
<1>3. MetasRight(redis, tree)
  BY DEF Calm, Untroubled, MetasRight, StaleMeta
<1>4. failures \in Nat
  BY <1>1, RInvFacts, NamespaceAssumption
<1>5. Fits(tree)
  BY <1>1 DEF RInv
<1> QED BY <1>1, <1>2, <1>3, <1>4, <1>5, RInvFacts DEF Right

\* A lookup from a right Redis leaves it right, and finds what is there.
Looked(r) == r \in Redises /\ Right(r, tree) /\ Knows(r, tree) /\ Unused(r, tree, unused) /\ r.list = redis.list

\* A request starts from a right Redis.
LEMMA StartLooked ==
  ASSUME Calm
  PROVE  Looked(redis)
  BY CalmFacts DEF Looked

\* A lookup of a request finds what is there; what follows starts from its Redis.
LEMMA LooksRight ==
  ASSUME Calm, NEW r, Looked(r), NEW p \in Paths, Within(tree, p),
         NEW m, m = psql_read_meta_from_path(r, tree, p)
  PROVE  /\ Looked(m.r) /\ Finds(m, r, tree, p) /\ Good(Start(m.r))
         /\ m.id \in Dirs => m.id \notin unused
         /\ m.id \in Ids => m.id \in Shown(tree) /\ m.meta = Attributes(tree, m.id)
         /\ Is(m, "dir") <=> IsDir(tree, At(tree, p))
         /\ m.meta # NONE /\ ~Is(m, "dir") => m.id \in Ids
<1>1. Finds(m, r, tree, p)
  BY CalmFacts, FromPathFinds DEF Looked
<1>2. /\ m.r \in Redises /\ Knows(m.r, tree) /\ Unused(m.r, tree, unused) /\ Good(Start(m.r))
      /\ m.meta # NONE => m.id \in Dirs \ unused
      /\ Is(m, "dir") => IsDir(tree, m.id) /\ m.id \in Dirs
      /\ m.meta # NONE /\ ~Is(m, "dir") => m.id \in Ids /\ ~IsDir(tree, m.id) /\ m.meta.mode # "dir"
  BY CalmFacts, Looks DEF Looked
<1>3. Looked(m.r)
  BY <1>1, <1>2 DEF Looked, Finds
<1>4. m.id = At(tree, p) /\ (m.meta # NONE <=> m.id # NONE)
  BY <1>1 DEF Finds
<1>5. ~IsDir(tree, NONE)
  BY CalmFacts, DirFacts, Ends DEF Fits
<1> QED BY <1>1, <1>2, <1>3, <1>4, <1>5, Ends DEF Finds

\* The tree stays and Redis is right.
LEMMA TreeStays ==
  ASSUME Calm, tree' = tree, Looked(redis')
  PROVE  Steps
<1>1. tree \in Trees /\ tree' \in Trees /\ NoTwins(tree') /\ Right(redis', tree)
  BY CalmFacts DEF Looked
<1>2. \A j : Like(tree', tree, j)
  BY DEF Like
<1>3. PathStep
  <2>1. ASSUME NEW p \in Paths, redis'.path[p] # NONE
        PROVE  (p = <<>> /\ redis'.path[p] = Root) \/ Leads(tree, tree', redis'.path[p], p)
    BY <1>1, <1>2, <2>1, KeyStays DEF Right
  <2> QED BY <1>1, <2>1, PathsConclude
<1>4. ListStep
  <2>1. \A d \in Dirs : redis'.list[d] = {} \/ redis'.list[d] = redis.list[d]
    BY DEF Looked
  <2>2. \A d \in {} \cap Dirs : FALSE
    OBVIOUS
  <2> QED BY <1>2, <2>1, <2>2, ListsConclude
<1>5. MetaStep
  BY <1>1, <1>2, MetasConclude DEF Right
<1> QED BY <1>3, <1>4, <1>5 DEF Steps

\* A request that ends in a refusal after lookups.
LEMMA RefuseSteps ==
  ASSUME Calm, NEW r, Looked(r), Refuse(Start(r))
  PROVE  Steps
<1>1. Start(r).u = tree /\ Start(r).r = r
  BY DEF Start
<1>2. tree' = tree /\ redis' = r
  BY <1>1 DEF Refuse
<1> QED BY <1>2, TreeStays

\* The kernel asks below directories only.
LEMMA KnownWithin ==
  ASSUME NEW p \in Paths, Known(p)
  PROVE  Within(tree, p) /\ p # <<>> /\ Front(p) \in Paths /\ Last(p) \in Names
  BY KnownPath DEF Known, Within

\* getattr only looks up.
LEMMA GetattrSteps ==
  ASSUME Calm, NEW p \in Paths, Getattr(p)
  PROVE  Steps
<1>1. Within(tree, p)
  BY KnownWithin DEF Getattr, Within
<1> DEFINE m == psql_read_meta_from_path(redis, tree, p)
<1>2. Looked(m.r)
  BY <1>1, StartLooked, LooksRight
<1>3. Refuse(Start(m.r))
  BY DEF Getattr
<1> QED BY <1>2, <1>3, RefuseSteps

\* opendir only looks up.
LEMMA OpendirSteps ==
  ASSUME Calm, NEW p \in Paths, Opendir(p)
  PROVE  Steps
<1>1. Within(tree, p)
  BY KnownWithin DEF Opendir, Within
<1> DEFINE a == psql_path_to_id(redis, tree, p)
<1>2. a.r \in Redises /\ PathsRight(a.r, tree) /\ a.r.meta = redis.meta /\ a.r.list = redis.list
  BY <1>1, CalmFacts, LookupFinds DEF Right
<1>3. Refuse(Start(a.r))
  BY DEF Opendir
<1> HIDE DEF a
<1>4. Looked(a.r)
  BY <1>2, CalmFacts DEF Looked, Right, MetasRight, Knows, Unused
<1> QED BY <1>3, <1>4, RefuseSteps

\* A getattr that fails is no calm step.
LEMMA GetattrFailsSteps ==
  ASSUME Calm, NEW p \in Paths, GetattrFails(p)
  PROVE  Steps
  BY CalmFacts DEF GetattrFails

\* The names that are pushed to the listing are all the directory has.
LEMMA ReaddirSteps ==
  ASSUME Calm, NEW d \in Dirs, Readdir(d)
  PROVE  Steps
<1> DEFINE all == {tree[i].name : i \in Children(tree, d)}
<1>1. redis' = [redis EXCEPT !.list[d] = all] /\ tree' = tree
  <2>1. PICK names \in SUBSET all :
          /\ failures' = IF names = all THEN failures ELSE failures + 1
          /\ redis' = [redis EXCEPT !.list[d] = names]
    BY DEF Readdir
  <2>2. names = all
    BY <2>1, CalmFacts
  <2> QED BY <2>1, <2>2 DEF Readdir
<1>2. redis'.path = redis.path /\ redis'.meta = redis.meta
      /\ redis'.list = [redis.list EXCEPT ![d] = all]
  BY <1>1, CalmFacts DEF Redises
<1>3. PathStep
  BY <1>1, <1>2, CalmFacts DEF PathStep, StalePath, Right, PathsRight
<1>4. MetaStep
  BY <1>1, <1>2, CalmFacts DEF MetaStep, StaleMeta, Right, MetasRight
<1>5. ListStep
  <2>1. ASSUME NEW e \in Dirs, StaleList(e)', ~StaleList(e)
        PROVE  FALSE
    <3>1. redis.list \in [Dirs -> SUBSET Names]
      BY CalmFacts DEF Redises
    <3>2. CASE e = d
      BY <1>1, <1>2, <2>1, <3>1, <3>2 DEF StaleList
    <3>3. CASE e # d
      BY <1>1, <1>2, <2>1, <3>1, <3>3 DEF StaleList
    <3> QED BY <3>2, <3>3
  <2> QED BY <2>1 DEF ListStep
<1> QED BY <1>3, <1>4, <1>5 DEF Steps
-------------------------------------------------------------------------------
(* Steps that touch the rows X, in the directories D.                        *)

\* The defects that the properties name: symlink in d, replacing a file of the
\* portal in d.
LinkMade(d) == \E i \in Ids : tree[i] = NONE /\ Is_a(tree', i, "link") /\ tree'[i].parent = d
ReplacedIn(d) == \E p \in Paths : p # <<>> /\ At(tree, Front(p)) = d /\ Replaced(p)

\* What may be left of the keys, where r is right.
MetaLeft(r, j) ==
  \/ redis'.meta[j] = NONE
  \/ j \notin Shown(tree')
  \/ redis'.meta[j] = Attributes(tree', j)
  \/ redis'.meta[j] = r.meta[j] /\ Like(tree', tree, j)
  \/ Is_a(tree, j, "portal") /\ tree'[j] # tree[j]
PathLeft(r, X, p) ==
  \/ redis'.path[p] = NONE
  \/ redis'.path[p] = r.path[p] /\ At(tree, p) \notin X
  \/ Leads(tree, tree', redis'.path[p], p)
  \/ Replaced(p)

\* The steps of requests: away from X nothing changes place, the listings of D
\* go, and so do the keys of X, or lead where X now is.
LEMMA Touches ==
  ASSUME Calm, NEW r, Looked(r), NEW X \in SUBSET Ids, NEW D,
         \A j \in Ids \ X : Like(tree', tree, j),
         \A j \in X : Lies(tree', j, D) /\ Lies(tree, j, D),
         \A j \in Ids : MetaLeft(r, j),
         \A d \in Dirs : redis'.list[d] = {} \/ redis'.list[d] = redis.list[d],
         \A d \in D \cap Dirs : redis'.list[d] = {} \/ LinkMade(d) \/ ReplacedIn(d),
         \A p \in Paths : PathLeft(r, X, p)
  PROVE  Steps
<1>1. Right(r, tree)
  BY DEF Looked
<1>2. MetaStep
  BY <1>1, MetasConclude DEF Right, MetaLeft
<1>3. ListStep
  <2>1. \A j \in Ids : Like(tree', tree, j) \/ (Lies(tree', j, D) /\ Lies(tree, j, D))
    OBVIOUS
  <2> QED BY <2>1, ListsConclude DEF LinkMade, ReplacedIn
<1>4. PathStep
  <2>1. ASSUME NEW p \in Paths, redis'.path[p] # NONE, redis'.path[p] = r.path[p], At(tree, p) \notin X
        PROVE  (p = <<>> /\ redis'.path[p] = Root) \/ Leads(tree, tree', redis'.path[p], p)
    BY <1>1, <2>1, CalmFacts, KeyStays DEF Right
  <2>2. \A p \in Paths : \/ redis'.path[p] = NONE
                         \/ p = <<>> /\ redis'.path[p] = Root
                         \/ Leads(tree, tree', redis'.path[p], p)
                         \/ Replaced(p)
    BY <2>1 DEF PathLeft
  <2> QED BY <2>2, CalmFacts, PathsConclude
<1> QED BY <1>2, <1>3, <1>4 DEF Steps

-------------------------------------------------------------------------------
(* Entries that go.                                                          *)

\* The row i goes, and rows in it.
Gone(v, t, i) ==
  /\ v[i] = NONE
  /\ \A j \in Ids \ {i} : v[j] = t[j] \/ (v[j] = NONE /\ t[j] # NONE /\ t[j].parent = i)

\* Drop removes the row and those in it.
LEMMA DropGone ==
  ASSUME NEW t, NEW i \in Ids
  PROVE  Gone(Drop(t, i), t, i)
  BY DEF Gone, Drop

\* Removing an entry that has none below it changes no other.
LEMMA GoneLike ==
  ASSUME NEW t, NEW v, NEW i \in Ids, Gone(v, t, i), \A j \in Shown(t) : t[j].parent # i
  PROVE  i \notin Shown(v) /\ \A j \in Ids \ {i} : Like(v, t, j)
  BY DEF Gone, Like, Shown

\* A call that does not fail does what it is for; failures are counted.
LEMMA CallCounts ==
  ASSUME NEW s, s \in Work, NEW a, NEW b, NEW x, Called(x, s, a, b)
  PROVE  /\ x.failures >= s.failures /\ x.failures \in Nat /\ s.failures \in Nat
         /\ x.failures = s.failures => x.t = a /\ x.u = b
         /\ x.r = s.r /\ x.id = s.id /\ x.unused = s.unused
<1>1. s.failures \in Nat
  BY NamespaceAssumption DEF Work
<1>2. CASE x = WithTrees(s, a, b)
  BY <1>1, <1>2 DEF WithTrees, Work
<1>3. CASE s.failures < MaxFailures /\ x = Failed(s)
  BY <1>1, <1>3 DEF Failed, Work
<1> QED BY <1>2, <1>3 DEF Called

\* psql_delete_file removes the row and its attributes.
LEMMA DeleteFileGone ==
  ASSUME NEW s, Good(s), NEW i \in Ids, NEW x \in psql_delete_file(s, i)
  PROVE  /\ x.failures >= s.failures /\ x.failures \in Nat
         /\ x.failures = s.failures => Gone(x.t, s.t, i)
         /\ x.r = Del(s.r, {}, {i}, {})
<1>1. s \in Work /\ s.failures \in Nat
  BY NamespaceAssumption DEF Good, Work
<1>2. PICK y : /\ x = Forgetting(y, {}, {i}, {})
               /\ \/ s.t[i] = NONE /\ y = s
                  \/ Called(y, s, Drop(s.t, i), Drop(s.u, i))
                  \/ y = Deletes(s, i)
  <2>1. PICK y \in IF s.t[i] = NONE THEN {s}
                   ELSE IF s.t[i].kind \in Portal THEN Call(s, LAMBDA t : Drop(t, i))
                   ELSE {Deletes(s, i)} : x = Forgetting(y, {}, {i}, {})
    BY DEF psql_delete_file, Forgetting, Deletes
  <2>2. CASE y \in Call(s, LAMBDA t : Drop(t, i))
    <3>1. Called(y, s, Drop(s.t, i), Drop(s.u, i))
      BY <2>2 DEF Call, Called, WithTrees, Failed
    <3> QED BY <2>1, <3>1
  <2> QED BY <2>1, <2>2
<1>3. /\ y.r = s.r /\ y.failures >= s.failures /\ y.failures \in Nat
      /\ y.failures = s.failures => Gone(y.t, s.t, i)
  <2>1. CASE s.t[i] = NONE /\ y = s
    BY <1>1, <2>1 DEF Gone
  <2>2. CASE Called(y, s, Drop(s.t, i), Drop(s.u, i))
    BY <1>1, <2>2, CallCounts, DropGone
  <2>3. CASE y = Deletes(s, i)
    <3>1. y.r = s.r /\ y.failures = s.failures /\ y.t = [s.t EXCEPT ![i] = NONE]
      BY <1>1, <2>3 DEF Deletes, Work
    <3> QED BY <1>1, <3>1 DEF Gone, Work, Trees
  <2> QED BY <1>2, <2>1, <2>2, <2>3
<1> QED BY <1>2, <1>3 DEF Forgetting

\* A call to the portal that does not fail, and the DEL after it.
LEMMA CalledForgets ==
  ASSUME NEW s, s \in Work, NEW a, NEW b, NEW y, Called(y, s, a, b), NEW ps, NEW ms, NEW ls,
         NEW x, x = Forgetting(y, ps, ms, ls)
  PROVE  /\ x.failures >= s.failures /\ x.failures \in Nat /\ s.failures \in Nat
         /\ x.failures = s.failures => x.t = a /\ x.u = b
         /\ x.r = Del(s.r, ps, ms, ls) /\ x.id = s.id /\ x.unused = s.unused
<1>1. /\ y.failures >= s.failures /\ y.failures \in Nat /\ s.failures \in Nat
      /\ y.failures = s.failures => y.t = a /\ y.u = b
      /\ y.r = s.r /\ y.id = s.id /\ y.unused = s.unused
  BY CallCounts
<1>2. CASE y = WithTrees(s, a, b)
  BY <1>1, <1>2 DEF WithTrees, Work, Forgetting
<1>3. CASE y = Failed(s)
  BY <1>1, <1>3 DEF Failed, Work, Forgetting
<1> QED BY <1>2, <1>3 DEF Called

\* COMMIT succeeds where nothing fails.
LEMMA FinishWell ==
  ASSUME Calm, NEW s, NEW r, s.failures \in Nat, s.failures >= failures, Finish(s, r)
  PROVE  tree' = s.t /\ redis' = r /\ s.failures = failures
  BY CalmFacts DEF Finish

\* The keys that a request deletes, of the entry i and then of its path p.
Cleaned(r, i, ls, p, es) == Del(Del(r, {}, {i}, ls), {p}, {}, es)

\* Which keys are left.
LEMMA CleanedFacts ==
  ASSUME NEW r \in Redises, NEW i, NEW ls, NEW p, NEW es, NEW x, x = Cleaned(r, i, ls, p, es)
  PROVE  /\ \A q \in Paths : x.path[q] = IF q = p THEN NONE ELSE r.path[q]
         /\ \A d \in Dirs : x.meta[d] = IF d = i THEN NONE ELSE r.meta[d]
         /\ \A d \in Dirs : x.list[d] = IF d \in ls \/ d \in es THEN {} ELSE r.list[d]
<1> DEFINE y == Del(r, {}, {i}, ls)
<1>1. /\ y \in Redises
      /\ \A q \in Paths : y.path[q] = r.path[q]
      /\ \A d \in Dirs : y.meta[d] = IF d \in {i} THEN NONE ELSE r.meta[d]
      /\ \A d \in Dirs : y.list[d] = IF d \in ls THEN {} ELSE r.list[d]
  BY DelFacts
<1>2. x = Del(y, {p}, {}, es)
  BY DEF Cleaned
<1> HIDE DEF y
<1>3. /\ \A q \in Paths : x.path[q] = IF q \in {p} THEN NONE ELSE y.path[q]
      /\ \A d \in Dirs : x.meta[d] = y.meta[d]
      /\ \A d \in Dirs : x.list[d] = IF d \in es THEN {} ELSE y.list[d]
  BY <1>1, <1>2, DelFacts
<1> QED BY <1>1, <1>3

\* The entry at p goes, and with it its keys and the listing it was in.
LEMMA GoneSteps ==
  ASSUME Calm, NEW r, Looked(r), NEW p \in Paths, NEW i \in Ids, i = At(tree, p),
         \A j \in Shown(tree) : tree[j].parent # i,
         Gone(tree', tree, i), NEW ls, redis' = Cleaned(r, i, ls, p, {tree[i].parent})
  PROVE  Steps
<1>1. r \in Redises /\ r.list = redis.list
  BY DEF Looked
<1>2. /\ \A q \in Paths : redis'.path[q] = IF q = p THEN NONE ELSE r.path[q]
      /\ \A d \in Dirs : redis'.meta[d] = IF d = i THEN NONE ELSE r.meta[d]
      /\ \A d \in Dirs : redis'.list[d] = IF d \in ls \/ d \in {tree[i].parent} THEN {} ELSE r.list[d]
  BY <1>1, CleanedFacts
<1>3. i \notin Shown(tree') /\ \A j \in Ids \ {i} : Like(tree', tree, j)
  BY GoneLike
<1>4. \A q \in Paths : q # p => At(tree, q) # i
  BY CalmFacts, OnePath, NamespaceAssumption
<1> DEFINE D == {tree[i].parent}
           X == {i}
<1>5. \A j \in Ids \ X : Like(tree', tree, j)
  BY <1>3
<1>6. \A j \in X : Lies(tree', j, D) /\ Lies(tree, j, D)
  BY <1>3 DEF Lies
<1>7. \A j \in Ids : MetaLeft(r, j)
  BY <1>2, <1>3, Ends DEF MetaLeft
<1>8. \A d \in Dirs : redis'.list[d] = {} \/ redis'.list[d] = redis.list[d]
  BY <1>1, <1>2
<1>9. \A d \in D \cap Dirs : redis'.list[d] = {}
  BY <1>2
<1>10. \A q \in Paths : PathLeft(r, X, q)
  BY <1>2, <1>4 DEF PathLeft
<1>11. X \in SUBSET Ids
  OBVIOUS
<1> HIDE DEF X, D
<1> QED BY <1>5, <1>6, <1>7, <1>8, <1>9, <1>10, <1>11, Touches

\* unlink.
LEMMA UnlinkSteps ==
  ASSUME Calm, NEW p \in Paths, Unlink(p)
  PROVE  Steps
<1> DEFINE m == psql_read_meta_from_path(redis, tree, p)
           z == Start(m.r)
<1>1. Within(tree, p) /\ p # <<>>
  BY KnownWithin DEF Unlink, Found
<1>2. /\ Looked(m.r) /\ Finds(m, redis, tree, p) /\ Good(z)
      /\ m.id \in Ids => m.id \in Shown(tree) /\ m.meta = Attributes(tree, m.id)
      /\ Is(m, "dir") <=> IsDir(tree, At(tree, p))
      /\ m.meta # NONE /\ ~Is(m, "dir") => m.id \in Ids
  BY <1>1, StartLooked, LooksRight
<1>3. z.t = tree /\ z.u = tree /\ z.r = m.r /\ z.failures = failures
  BY DEF Start
<1>4. CASE Refuse(z)
  BY <1>2, <1>4, RefuseSteps
<1>5. CASE ~Refuse(z)
  <2>1. /\ m.meta # NONE /\ ~Is(m, "dir")
        /\ \E s \in psql_delete_file(z, m.id) : Finish(s, Del(s.r, {p}, {}, {m.meta.parent}))
    BY <1>5 DEF Unlink
  <2> HIDE DEF m, z
  <2>2. PICK s \in psql_delete_file(z, m.id) : Finish(s, Del(s.r, {p}, {}, {m.meta.parent}))
    BY <2>1
  <2>3. m.id \in Ids /\ m.id = At(tree, p) /\ ~IsDir(tree, m.id) /\ m.meta = Attributes(tree, m.id)
    BY <1>2, <2>1 DEF Finds
  <2>4. m.meta.parent = tree[m.id].parent
    BY <2>3, NamespaceAssumption DEF Attributes
  <2>5. /\ s.failures >= z.failures /\ s.failures \in Nat
        /\ s.failures = z.failures => Gone(s.t, z.t, m.id)
        /\ s.r = Del(z.r, {}, {m.id}, {})
    BY <1>2, <2>3, DeleteFileGone
  <2>6. tree' = s.t /\ redis' = Del(s.r, {p}, {}, {m.meta.parent}) /\ s.failures = failures
    BY <1>3, <2>2, <2>5, FinishWell
  <2>7. redis' = Cleaned(m.r, m.id, {}, p, {tree[m.id].parent})
    BY <1>3, <2>4, <2>5, <2>6 DEF Cleaned
  <2>8. \A j \in Shown(tree) : tree[j].parent # m.id
    BY <2>3, CalmFacts, NoChildren DEF Fits
  <2> QED BY <1>2, <1>3, <2>3, <2>5, <2>6, <2>7, <2>8, GoneSteps
<1> QED BY <1>4, <1>5

\* rmdir.
LEMMA RmdirSteps ==
  ASSUME Calm, NEW p \in Paths, Rmdir(p)
  PROVE  Steps
<1> DEFINE m == psql_read_meta_from_path(redis, tree, p)
           z == Start(m.r)
<1>1. Within(tree, p) /\ p # <<>>
  BY KnownWithin DEF Rmdir, Found
<1>2. /\ Looked(m.r) /\ Finds(m, redis, tree, p) /\ Good(z)
      /\ m.id \in Ids => m.id \in Shown(tree) /\ m.meta = Attributes(tree, m.id)
  BY <1>1, StartLooked, LooksRight
<1>3. z.t = tree /\ z.u = tree /\ z.r = m.r /\ z.failures = failures
  BY DEF Start
<1>4. CASE Refuse(z)
  BY <1>2, <1>4, RefuseSteps
<1>5. CASE ~Refuse(z)
  <2>1. /\ Is(m, "dir") /\ Empty(tree, m.id)
        /\ \E s \in Call(z, LAMBDA t : Drop(t, m.id)) :
             LET x == [s EXCEPT !.r = Del(@, {}, {m.id}, {m.id})]
             IN Finish(x, Del(x.r, {p}, {}, {m.meta.parent}))
    BY <1>5 DEF Rmdir
  <2> HIDE DEF m, z
  <2>2. PICK s \in Call(z, LAMBDA t : Drop(t, m.id)) :
             LET x == [s EXCEPT !.r = Del(@, {}, {m.id}, {m.id})]
             IN Finish(x, Del(x.r, {p}, {}, {m.meta.parent}))
    BY <2>1
  <2>3. Called(s, z, Drop(z.t, m.id), Drop(z.u, m.id))
    BY <2>2 DEF Call, Called, WithTrees, Failed
  <2> DEFINE x == Forgetting(s, {}, {m.id}, {m.id})
  <2>4. Finish(x, Del(x.r, {p}, {}, {m.meta.parent}))
    BY <2>2 DEF Forgetting
  <2>5. z \in Work
    BY <1>2 DEF Good
  <2>6. /\ x.failures >= z.failures /\ x.failures \in Nat
        /\ x.failures = z.failures => x.t = Drop(z.t, m.id)
        /\ x.r = Del(z.r, {}, {m.id}, {m.id})
    BY <2>3, <2>5, CalledForgets
  <2> HIDE DEF x
  <2>9. m.id \in Ids /\ m.id = At(tree, p) /\ \A j \in Shown(tree) : tree[j].parent # m.id
    BY <1>2, <2>1 DEF Finds, Is, Empty, Children, Dirs
  <2>10. m.meta.parent = tree[m.id].parent
    BY <1>2, <2>9, NamespaceAssumption DEF Attributes
  <2>11. tree' = x.t /\ redis' = Del(x.r, {p}, {}, {m.meta.parent}) /\ x.failures = failures
    BY <1>3, <2>4, <2>6, FinishWell
  <2>12. Gone(tree', tree, m.id)
    BY <1>3, <2>6, <2>9, <2>11, DropGone
  <2>13. redis' = Cleaned(m.r, m.id, {m.id}, p, {tree[m.id].parent})
    BY <1>3, <2>6, <2>10, <2>11 DEF Cleaned
  <2> QED BY <1>2, <2>9, <2>12, <2>13, GoneSteps
<1> QED BY <1>4, <1>5
-------------------------------------------------------------------------------
(* Entries that are made.                                                    *)

\* The directory of a path the kernel asks for lies in a directory itself.
LEMMA ParentWithin ==
  ASSUME Calm, NEW p \in Paths, Known(p)
  PROVE  /\ Within(tree, Front(p)) /\ Front(p) \in Paths
         /\ IsDir(tree, At(tree, Front(p))) /\ At(tree, Front(p)) \in Dirs
<1>1. p # <<>> /\ Front(p) \in Paths /\ IsDir(tree, At(tree, Front(p)))
  BY KnownPath DEF Known
<1> DEFINE q == Front(p)
<1>2. q \in Paths /\ At(tree, q) \in Dirs
  BY <1>1, CalmFacts, DirFacts DEF Fits
<1>3. CASE q = <<>>
  BY <1>1, <1>2, <1>3 DEF Within
<1>4. CASE q # <<>>
  <2>1. At(tree, q) \in Shown(tree) /\ tree[At(tree, q)].parent = At(tree, Front(q))
    BY <1>2, <1>4, CalmFacts, AtFacts, Ends
  <2>2. IsDir(tree, At(tree, Front(q)))
    BY <2>1, CalmFacts DEF Fits, Sound
  <2> QED BY <1>1, <1>2, <2>2 DEF Within
<1> QED BY <1>3, <1>4

\* A lookup of what has just been made.
LEMMA LookupNew ==
  ASSUME NEW r, NEW t, t # Down, NEW p, p # <<>>, r.path[p] = NONE, NEW d \in Dirs, r.path[Front(p)] = d,
         NEW k \in Ids, Named(t, d, Last(p)) = {k}
  PROVE  psql_path_to_id(r, t, p) = [id |-> k, r |-> SetPath(r, p, k)]
<1>1. Cardinality({k}) = 1
  BY FS_Singleton
<1>2. ~(Cardinality(Named(t, d, Last(p))) > 1)
  BY <1>1
<1>3. get_id_from_db(t, d, Last(p)) = k
  BY <1>2 DEF get_id_from_db
<1>4. k # NONE /\ d # NONE
  BY NamespaceAssumption, Ends
<1> QED BY <1>3, <1>4 DEF psql_path_to_id

\* v is t with an entry k of name n in d that was not shown.
Appears(v, t, d, n, k) ==
  /\ k \in Ids /\ k \notin Shown(t) /\ k \in Shown(v)
  /\ v[k].parent = d /\ v[k].name = n
  /\ \A j \in Ids \ {k} : v[j] = t[j]

\* A row that is put where none was appears.
LEMMA PutAppears ==
  ASSUME NEW t \in Trees, NEW k \in Ids, t[k] = NONE, NEW d \in Dirs, NEW n \in Names, NEW kind \in Kinds,
         NEW v, v = Put(t, k, Row(k, d, n, kind))
  PROVE  Appears(v, t, d, n, k) /\ v[k].kind = kind
<1>1. v[k] = Row(k, d, n, kind) /\ \A j \in Ids \ {k} : v[j] = t[j]
  BY DEF Put, Trees
<1> QED BY <1>1, RowFacts DEF Appears, Shown

\* The entry that appears is the one of its name, and no other has changed.
LEMMA AppearsNamed ==
  ASSUME NEW t, NEW v, NEW d, NEW n, NEW k, Appears(v, t, d, n, k), Named(t, d, n) = {}
  PROVE  Named(v, d, n) = {k} /\ \A j \in Ids \ {k} : Like(v, t, j)
<1>1. \A j \in Ids \ {k} : Like(v, t, j)
  BY DEF Appears, Like, Shown
<1>2. k \in Named(v, d, n)
  BY DEF Appears, Named, Children
<1>3. \A j \in Named(v, d, n) : j = k
  <2>1. SUFFICES ASSUME NEW j \in Named(v, d, n), j # k
                 PROVE  FALSE
    OBVIOUS
  <2>2. j \in Ids \ {k} /\ j \in Shown(v) /\ v[j].parent = d /\ v[j].name = n
    BY <2>1 DEF Named, Children, Shown
  <2>3. j \in Named(t, d, n)
    BY <1>1, <2>2 DEF Like, Named, Children
  <2> QED BY <2>3
<1> QED BY <1>1, <1>2, <1>3

\* What the portal is asked to make it makes, where the name is free.
LEMMA AddMakes ==
  ASSUME NEW s, Good(s), NEW d \in Dirs, IsDir(s.t, d), NEW n \in Names, NEW kind \in Portal,
         ~Taken(s.t, d, n, Portal), NEW x \in Add(s, d, n, kind)
  PROVE  /\ x.failures >= s.failures /\ x.failures \in Nat
         /\ x.r = s.r
         /\ x.failures = s.failures =>
              /\ Appears(x.t, s.t, d, n, x.id) /\ x.t[x.id].kind = kind
              /\ s.t[x.id] = NONE /\ s.r.meta[x.id] = NONE
<1>1. s \in Work /\ s.t \in Trees /\ kind \in Kinds
  BY WorkFacts DEF Good, Portal, Kinds
<1>2. PICK i \in s.unused : \E y \in Call(Taking(s, i), LAMBDA t : Put(t, i, Row(i, d, n, kind))) :
        x = IF y.failures # s.failures THEN Undone(y, s) ELSE y
  BY DEF Add, Taking, Put, Undone
<1>3. PICK y \in Call(Taking(s, i), LAMBDA t : Put(t, i, Row(i, d, n, kind))) :
        x = IF y.failures # s.failures THEN Undone(y, s) ELSE y
  BY <1>2
<1> DEFINE z == Taking(s, i)
           a == Put(s.t, i, Row(i, d, n, kind))
           b == Put(s.u, i, Row(i, d, n, kind))
<1>4. /\ Good(z) /\ z.t = s.t /\ z.u = s.u /\ z.r = s.r /\ z.failures = s.failures /\ z.id = i
      /\ i \in Ids /\ s.t[i] = NONE /\ s.r.meta[i] = NONE
  BY TakingGood
<1>5. Called(y, z, a, b)
  BY <1>3, <1>4 DEF Call, Called, WithTrees, Failed
<1>6. Appears(a, s.t, d, n, i) /\ a[i].kind = kind
  BY <1>1, <1>4, PutAppears
<1> HIDE DEF z, a, b
<1>7. z \in Work
  BY <1>4 DEF Good
<1>8. /\ y.failures >= s.failures /\ y.failures \in Nat /\ y.r = s.r /\ y.id = i
      /\ y.failures = s.failures => y.t = a
  BY <1>4, <1>5, <1>7, CallCounts
<1>9. CASE y.failures # s.failures
  <2>1. x = Undone(y, s)
    BY <1>3, <1>9
  <2>2. x.failures = y.failures /\ x.r = y.r
    <3>1. CASE y = WithTrees(z, a, b)
      BY <1>7, <2>1, <3>1 DEF WithTrees, Work, Undone
    <3>2. CASE y = Failed(z)
      BY <1>7, <2>1, <3>2 DEF Failed, Work, Undone
    <3> QED BY <1>5, <3>1, <3>2 DEF Called
  <2> QED BY <1>8, <1>9, <2>2
<1>10. CASE y.failures = s.failures
  BY <1>3, <1>4, <1>6, <1>8, <1>10
<1> QED BY <1>9, <1>10

\* An INSERT makes an entry with an id that Redis does not know.
LEMMA InsertMakes ==
  ASSUME NEW s, Good(s), NEW d \in Dirs, NEW n \in Names, NEW kind \in {"temp", "link"},
         NEW x \in Insert(s, d, n, kind)
  PROVE  /\ x.failures = s.failures /\ x.r = s.r /\ x.id = s.id /\ x.u = s.u
         /\ \E k : /\ Appears(x.t, s.t, d, n, k) /\ x.t[k].kind = kind
                   /\ s.t[k] = NONE /\ s.r.meta[k] = NONE
<1>1. s \in Work /\ s.t \in Trees /\ kind \in Kinds
  BY WorkFacts DEF Good, Kinds
<1>2. PICK i \in s.unused : x = [s EXCEPT !.t[i] = Row(i, d, n, kind), !.unused = @ \ {i}]
  BY DEF Insert
<1>3. i \in Ids /\ s.t[i] = NONE /\ s.r.meta[i] = NONE
  BY WorkFacts DEF Good, Unused
<1>4. /\ x.failures = s.failures /\ x.r = s.r /\ x.id = s.id /\ x.u = s.u
      /\ x.t = Put(s.t, i, Row(i, d, n, kind))
  BY <1>1, <1>2 DEF Work, Put
<1>5. Appears(x.t, s.t, d, n, i) /\ x.t[i].kind = kind
  BY <1>1, <1>3, <1>4, PutAppears
<1> QED BY <1>3, <1>4, <1>5

\* A new entry at p, where none was, and the listing of its directory goes or
\* the entry is a link.
LEMMA AppearSteps ==
  ASSUME Calm, NEW r, Looked(r), NEW p \in Paths, p # <<>>, NEW d, d = At(tree, Front(p)),
         NEW k \in Ids, k \notin Shown(tree), k \in Shown(tree'),
         tree'[k].parent = d, tree'[k].name = Last(p),
         \A j \in Ids \ {k} : Like(tree', tree, j),
         \A j \in Ids : MetaLeft(r, j),
         \A e \in Dirs : redis'.list[e] = {} \/ redis'.list[e] = redis.list[e],
         d \in Dirs => redis'.list[d] = {} \/ LinkMade(d),
         redis'.path[p] \in {NONE, k},
         \A q \in Paths \ {p} : redis'.path[q] \in {NONE, r.path[q]}
  PROVE  Steps
<1> DEFINE X == {k}
           D == {d}
<1>1. \A j \in X : Lies(tree', j, D) /\ Lies(tree, j, D)
  BY DEF Lies
<1>2. \A q \in Paths : At(tree, q) \notin X
  BY CalmFacts, AtFacts, NamespaceAssumption
<1>3. \A q \in Paths : PathLeft(r, X, q)
  <2>1. PathLeft(r, X, p)
    BY DEF PathLeft, Leads
  <2>2. \A q \in Paths \ {p} : PathLeft(r, X, q)
    BY <1>2 DEF PathLeft
  <2> QED BY <2>1, <2>2
<1>4. \A e \in D \cap Dirs : redis'.list[e] = {} \/ LinkMade(e) \/ ReplacedIn(e)
  OBVIOUS
<1>5. X \in SUBSET Ids /\ \A j \in Ids \ X : Like(tree', tree, j)
  OBVIOUS
<1> HIDE DEF X, D
<1> QED BY <1>1, <1>3, <1>4, <1>5, Touches

\* psql_create_file makes a file k of the name where there is none: a new one, or
\* a hidden one that it shows.  It forgets the listing, and may tell the id.
Makes(x, s, p, d, n, k) ==
  /\ k \in Ids /\ k \notin Shown(s.t) /\ k \in Shown(x.t)
  /\ x.t[k].parent = d /\ x.t[k].name = n /\ x.t[k].kind # "dir"
  /\ \A j \in Ids \ {k} : x.t[j] = s.t[j]
  /\ (s.t[k] = NONE /\ s.r.meta[k] = NONE) \/ Is_a(s.t, k, "portal")
  /\ x.r.meta = s.r.meta
  /\ \A e \in Dirs : x.r.list[e] = IF e = d THEN {} ELSE s.r.list[e]
  /\ x.id = k \/ x.id = s.id
  /\ x.r.path[p] \in {k, s.r.path[p]}
  /\ \A q \in Paths \ {p} : x.r.path[q] = s.r.path[q]
  /\ x.t[k].kind = IF n \in TempNames THEN "temp" ELSE "portal"

\* The DEL of a listing.
Unlisted(y, d) == Forgetting(y, {}, {}, {d})

\* Deleting a listing changes nothing else.
LEMMA ForgetsList ==
  ASSUME NEW y, Good(y), NEW d, NEW x, x = Unlisted(y, d)
  PROVE  /\ x.t = y.t /\ x.u = y.u /\ x.id = y.id /\ x.failures = y.failures
         /\ x.r.meta = y.r.meta /\ x.r.path = y.r.path
         /\ \A e \in Dirs : x.r.list[e] = IF e = d THEN {} ELSE y.r.list[e]
<1>1. y.r \in Redises
  BY WorkFacts DEF Good
<1>2. x.t = y.t /\ x.u = y.u /\ x.id = y.id /\ x.failures = y.failures /\ x.r = Del(y.r, {}, {}, {d})
  BY Forgets DEF Unlisted
<1>3. /\ x.r.meta = [e \in Dirs |-> IF e \in {} THEN NONE ELSE y.r.meta[e]]
      /\ x.r.path = [q \in Paths |-> IF q \in {} THEN NONE ELSE y.r.path[q]]
      /\ x.r.list = [e \in Dirs |-> IF e \in {d} THEN {} ELSE y.r.list[e]]
  BY <1>2 DEF Del
<1>4. y.r.meta \in [Dirs -> Metas \cup {NONE}] /\ y.r.path \in [Paths -> Dirs \cup {NONE, Bad}]
  BY <1>1 DEF Redises
<1>5. x.r.meta = y.r.meta
  BY <1>3, <1>4
<1>6. x.r.path = y.r.path
  BY <1>3, <1>4
<1>7. \A e \in Dirs : x.r.list[e] = IF e = d THEN {} ELSE y.r.list[e]
  BY <1>3
<1> QED BY <1>2, <1>5, <1>6, <1>7

\* psql_create_file makes the file, unless the portal fails.
LEMMA CreateFileMakes ==
  ASSUME NEW s, Good(s), NEW p \in Paths, NEW d \in Dirs, IsDir(s.t, d), NEW n \in Names,
         Named(s.t, d, n) = {}, NEW x \in psql_create_file(s, p, d, n)
  PROVE  /\ x.failures >= s.failures /\ x.failures \in Nat
         /\ x.failures = s.failures => \E k : Makes(x, s, p, d, n, k)
<1>1. s \in Work /\ s.t \in Trees /\ s.failures \in Nat /\ s.r \in Redises /\ HiddenAreFiles(s.t)
  BY WorkFacts, NamespaceAssumption DEF Good, Fits, Work
<1>2. PICK y :
        /\ x = Forgetting(y, {}, {}, {d})
        /\ n \in TempNames => y \in Insert(s, d, n, "temp")
        /\ n \notin TempNames /\ Hidden(s.t, d, n) = {} =>
             \E z \in Add(s, d, n, "portal") : y = [z EXCEPT !.r = SetPath(@, p, z.id)]
        /\ n \notin TempNames /\ Hidden(s.t, d, n) # {} =>
             \E i \in Hidden(s.t, d, n) : y = [s EXCEPT !.t = Reveal(@, i), !.id = i]
  <2>1. PICK y \in IF n \in TempNames THEN Insert(s, d, n, "temp")
                   ELSE IF Hidden(s.t, d, n) = {}
                     THEN {[z EXCEPT !.r = SetPath(@, p, z.id)] : z \in Add(s, d, n, "portal")}
                   ELSE {[s EXCEPT !.t = Reveal(@, i), !.id = i] : i \in Hidden(s.t, d, n)} :
             x = Forgetting(y, {}, {}, {d})
    BY DEF psql_create_file, Forgetting
  <2>2. CASE n \in TempNames
    BY <2>1, <2>2
  <2>3. CASE n \notin TempNames /\ Hidden(s.t, d, n) = {}
    BY <2>1, <2>3
  <2>4. CASE n \notin TempNames /\ Hidden(s.t, d, n) # {}
    BY <2>1, <2>4
  <2> QED BY <2>2, <2>3, <2>4
<1>6. x = Unlisted(y, d)
  BY <1>2 DEF Unlisted
<1>3. CASE n \in TempNames
  <2>1. y \in Insert(s, d, n, "temp")
    BY <1>2, <1>3
  <2>2. Good(y)
    BY <2>1, InsertGood
  <2>3. y.failures = s.failures /\ y.r = s.r /\ y.id = s.id
    BY <2>1, InsertMakes
  <2>4. PICK k : /\ Appears(y.t, s.t, d, n, k) /\ y.t[k].kind = "temp"
                 /\ s.t[k] = NONE /\ s.r.meta[k] = NONE
    BY <2>1, InsertMakes
  <2>5. Makes(x, s, p, d, n, k)
    BY <1>6, <1>3, <2>2, <2>3, <2>4, ForgetsList DEF Makes, Appears
  <2> QED BY <1>1, <1>6, <2>2, <2>3, <2>5, ForgetsList
<1>4. CASE n \notin TempNames /\ Hidden(s.t, d, n) = {}
  <2>1. PICK z \in Add(s, d, n, "portal") : y = [z EXCEPT !.r = SetPath(@, p, z.id)]
    BY <1>2, <1>4
  <2>2. Good(z) /\ z.id \in Answers
    BY AddGood, Ends DEF Portal
  <2>3. y = WithRedis(z, SetPath(z.r, p, z.id))
    BY <2>1, <2>2 DEF WithRedis, Good, Work
  <2>4. Good(y) /\ y.t = z.t /\ y.id = z.id /\ y.failures = z.failures
        /\ y.r.meta = z.r.meta /\ y.r.list = z.r.list
    BY <2>2, <2>3, PathSet
  <2>5. z.r \in Redises /\ z \in Work
    BY <2>2, WorkFacts DEF Good
  <2>6. y.r = SetPath(z.r, p, z.id)
    BY <2>3, <2>5 DEF WithRedis, Work
  <2>7. y.r.path = [z.r.path EXCEPT ![p] = z.id] /\ z.r.path \in [Paths -> Dirs \cup {NONE, Bad}]
    BY <2>2, <2>5, <2>6, SetPathFacts DEF Redises
  <2>8. ~Taken(s.t, d, n, Portal)
    <3>1. SUFFICES ASSUME NEW i \in Ids, s.t[i] # NONE, s.t[i].parent = d, s.t[i].name = n
                   PROVE  FALSE
      BY DEF Taken
    <3>2. s.t[i].del
      BY <3>1 DEF Named, Children, Shown
    <3> QED BY <1>4, <3>1, <3>2 DEF Hidden
  <2>9. /\ z.failures >= s.failures /\ z.failures \in Nat /\ z.r = s.r
        /\ z.failures = s.failures =>
              /\ Appears(z.t, s.t, d, n, z.id) /\ z.t[z.id].kind = "portal"
              /\ s.t[z.id] = NONE /\ s.r.meta[z.id] = NONE
    BY <2>8, AddMakes DEF Portal
  <2>10. x.failures = z.failures
    BY <1>6, <2>4, ForgetsList
  <2>11. ASSUME x.failures = s.failures
         PROVE  Makes(x, s, p, d, n, z.id)
    <3>1. /\ Appears(z.t, s.t, d, n, z.id) /\ z.t[z.id].kind = "portal"
          /\ s.t[z.id] = NONE /\ s.r.meta[z.id] = NONE
      BY <2>9, <2>10, <2>11
    <3>2. x.t = z.t /\ x.id = z.id /\ x.r.meta = s.r.meta /\ x.r.path = y.r.path
          /\ \A e \in Dirs : x.r.list[e] = IF e = d THEN {} ELSE s.r.list[e]
      BY <1>6, <2>4, <2>9, ForgetsList
    <3>3. x.r.path[p] = z.id /\ \A q \in Paths \ {p} : x.r.path[q] = s.r.path[q]
      BY <2>7, <2>9, <3>2
    <3> QED BY <1>4, <3>1, <3>2, <3>3 DEF Makes, Appears
  <2> QED BY <2>9, <2>10, <2>11
<1>5. CASE n \notin TempNames /\ Hidden(s.t, d, n) # {}
  <2>1. PICK i \in Hidden(s.t, d, n) : y = [s EXCEPT !.t = Reveal(@, i), !.id = i]
    BY <1>2, <1>5
  <2>2. Good(y)
    BY <2>1, RevealGood DEF Kept
  <2>3. i \in Ids /\ s.t[i] # NONE /\ s.t[i].del /\ s.t[i].parent = d /\ s.t[i].name = n
        /\ s.t[i].kind = "portal" /\ s.t[i] \in Rows
    BY <1>1, TreeFacts DEF Hidden, HiddenAreFiles
  <2>4. y.t = Reveal(s.t, i) /\ y.id = i /\ y.r = s.r /\ y.failures = s.failures
    BY <1>1, <2>1 DEF Work
  <2>5. y.t[i] = [s.t[i] EXCEPT !.del = FALSE] /\ \A j \in Ids \ {i} : y.t[j] = s.t[j]
    BY <1>1, <2>3, <2>4 DEF Reveal, Trees
  <2>6. /\ y.t[i] \in Rows /\ y.t[i].parent = d /\ y.t[i].name = n /\ y.t[i].kind = "portal"
        /\ y.t[i].del = FALSE
    BY ZenonT(60), <2>3, <2>5 DEF Rows
  <2>7. y.t[i] # NONE
    BY <2>6, NothingAssumption
  <2>8. i \notin Shown(s.t) /\ i \in Shown(y.t)
    BY <2>3, <2>6, <2>7 DEF Shown
  <2>9. /\ x.t = y.t /\ x.id = i /\ x.failures = s.failures
        /\ x.r.meta = s.r.meta /\ x.r.path = s.r.path
        /\ \A e \in Dirs : x.r.list[e] = IF e = d THEN {} ELSE s.r.list[e]
    BY <1>6, <2>2, <2>4, ForgetsList
  <2>10. Makes(x, s, p, d, n, i)
    <3>1. /\ x.t[i].parent = d /\ x.t[i].name = n /\ x.t[i].kind = "portal"
          /\ \A j \in Ids \ {i} : x.t[j] = s.t[j]
      BY <2>5, <2>6, <2>9
    <3>2. i \in Ids /\ i \notin Shown(s.t) /\ i \in Shown(x.t) /\ Is_a(s.t, i, "portal")
      BY <2>3, <2>8, <2>9 DEF Is_a
    <3>3. x.r.path[p] \in {i, s.r.path[p]} /\ \A q \in Paths \ {p} : x.r.path[q] = s.r.path[q]
      BY <2>9
    <3> QED BY <1>5, <2>9, <3>1, <3>2, <3>3 DEF Makes
  <2> QED BY <1>1, <2>9, <2>10
<1> QED BY <1>3, <1>4, <1>5

\* What a request on p that makes an entry starts from.
LEMMA MakerStarts ==
  ASSUME Calm, NEW p \in Paths, Absent(p), NEW m, m = psql_read_meta_from_path(redis, tree, Front(p)),
         NEW z, z = Start(m.r)
  PROVE  /\ p # <<>> /\ Last(p) \in Names /\ Looked(m.r) /\ Good(z)
         /\ z.t = tree /\ z.u = tree /\ z.r = m.r /\ z.failures = failures /\ z.id = NONE
         /\ m.id = At(tree, Front(p)) /\ m.id \in Dirs /\ IsDir(tree, m.id) /\ Is(m, "dir")
         /\ m.r.path[Front(p)] = m.id /\ m.r.path[p] = NONE
         /\ At(tree, p) = NONE /\ Named(tree, m.id, Last(p)) = {}
<1>1. Known(p) /\ p # <<>> /\ Last(p) \in Names
  BY KnownWithin DEF Absent
<1>2. Within(tree, Front(p)) /\ Front(p) \in Paths /\ IsDir(tree, At(tree, Front(p))) /\ At(tree, Front(p)) \in Dirs
  BY <1>1, ParentWithin
<1>3. Looked(m.r) /\ Finds(m, redis, tree, Front(p)) /\ Good(z) /\ Is(m, "dir")
  BY <1>2, StartLooked, LooksRight
<1>4. At(tree, p) = NONE
  <2> DEFINE a == psql_read_meta_from_path(redis, tree, p)
  <2>1. Within(tree, p)
    BY <1>1, KnownWithin
  <2>2. Finds(a, redis, tree, p)
    BY <2>1, StartLooked, LooksRight
  <2>3. a.id = NONE
    BY DEF Absent
  <2> QED BY <2>2, <2>3 DEF Finds
<1>5. m.id = At(tree, Front(p))
  BY <1>3 DEF Finds
<1>6. m.r.path[Front(p)] = m.id /\ m.r.path[p] = NONE
  BY <1>2, <1>3, <1>4, <1>5 DEF Looked, Right, PathsRight
<1>7. Named(tree, m.id, Last(p)) = {}
  <2>1. Entry(tree, m.id, Last(p)) = NONE
    BY <1>1, <1>4, <1>5, AtStep
  <2> QED BY <2>1, CalmFacts, EntryFacts
<1>8. z.t = tree /\ z.u = tree /\ z.r = m.r /\ z.failures = failures /\ z.id = NONE
  BY DEF Start
<1> QED BY <1>1, <1>2, <1>3, <1>4, <1>5, <1>6, <1>7, <1>8

\* SET of a path changes the one key.
LEMMA SetPathAt ==
  ASSUME NEW r \in Redises, NEW p \in Paths, NEW k \in Ids, NEW x, x = SetPath(r, p, k)
  PROVE  /\ x \in Redises /\ x.meta = r.meta /\ x.list = r.list /\ x.path[p] = k
         /\ \A q \in Paths \ {p} : x.path[q] = r.path[q]
<1>1. k \in Answers
  BY Ends
<1>2. x \in Redises /\ x.meta = r.meta /\ x.list = r.list /\ x.path = [r.path EXCEPT ![p] = k]
  BY <1>1, SetPathFacts
<1>3. r.path \in [Paths -> Dirs \cup {NONE, Bad}]
  BY DEF Redises
<1> QED BY <1>2, <1>3

\* The lookup of the new link fills Redis with what the link has.
LEMMA LookupOfLink ==
  ASSUME NEW r \in Redises, NEW t \in Trees, NEW p \in Paths, p # <<>>, r.path[p] = NONE,
         NEW d \in Dirs, r.path[Front(p)] = d, NEW k \in Ids, Named(t, d, Last(p)) = {k}, r.meta[k] = NONE,
         NEW a, a = psql_read_meta_from_path(r, t, p)
  PROVE  /\ a.meta # NONE /\ a.r \in Redises /\ a.r.list = r.list
         /\ a.r.path[p] = k /\ \A q \in Paths \ {p} : a.r.path[q] = r.path[q]
         /\ a.r.meta[k] = Attributes(t, k) /\ \A j \in Ids \ {k} : a.r.meta[j] = r.meta[j]
<1> DEFINE y == SetPath(r, p, k)
<1>1. t # Down
  BY NothingAssumption
<1>2. psql_path_to_id(r, t, p) = [id |-> k, r |-> y]
  BY <1>1, LookupNew
<1>3. /\ y \in Redises /\ y.meta = r.meta /\ y.list = r.list /\ y.path[p] = k
      /\ \A q \in Paths \ {p} : y.path[q] = r.path[q]
  BY SetPathAt
<1>4. k \in Dirs /\ k # Root /\ k \in Shown(t)
  BY Ends, NamespaceAssumption DEF Named, Children
<1> HIDE DEF y
<1>5. a = psql_read_meta(y, t, k)
  BY <1>2 DEF psql_read_meta_from_path
<1>6. a = [id |-> k, meta |-> Attributes(t, k), r |-> SetMeta(y, k, Attributes(t, k))]
  BY <1>1, <1>3, <1>4, <1>5 DEF psql_read_meta
<1>7. Attributes(t, k) \in Metas /\ Attributes(t, k) # NONE
  BY <1>4, AttributesFacts
<1>8. /\ a.r \in Redises /\ a.r.path = y.path /\ a.r.list = y.list
      /\ a.r.meta = [y.meta EXCEPT ![k] = Attributes(t, k)]
  BY <1>3, <1>4, <1>6, <1>7, SetMetaFacts
<1>9. y.meta \in [Dirs -> Metas \cup {NONE}]
  BY <1>3 DEF Redises
<1> QED BY <1>3, <1>4, <1>6, <1>7, <1>8, <1>9, Ends

\* symlink, which forgets to delete the listing.
LEMMA SymlinkSteps ==
  ASSUME Calm, NEW p \in Paths, Symlink(p)
  PROVE  Steps
<1> DEFINE m == psql_read_meta_from_path(redis, tree, Front(p))
           z == Start(m.r)
           n == Last(p)
<1>1. Absent(p)
  BY DEF Symlink
<1>2. /\ p # <<>> /\ n \in Names /\ Looked(m.r) /\ Good(z)
      /\ z.t = tree /\ z.u = tree /\ z.r = m.r /\ z.failures = failures /\ z.id = NONE
      /\ m.id = At(tree, Front(p)) /\ m.id \in Dirs /\ IsDir(tree, m.id) /\ Is(m, "dir")
      /\ m.r.path[Front(p)] = m.id /\ m.r.path[p] = NONE
      /\ At(tree, p) = NONE /\ Named(tree, m.id, n) = {}
  BY <1>1, MakerStarts
<1>3. CASE Refuse(z)
  BY <1>2, <1>3, RefuseSteps
<1>4. CASE ~Refuse(z)
  <2>1. \E s \in Insert(z, m.id, n, "link") :
             LET a == psql_read_meta_from_path(s.r, s.t, p)
                 x == [s EXCEPT !.r = a.r]
             IN IF a.meta = NONE THEN Refuse(x) ELSE Finish(x, x.r)
    BY <1>4 DEF Symlink
  <2> HIDE DEF m, n, z
  <2>2. PICK s \in Insert(z, m.id, n, "link") :
             LET a == psql_read_meta_from_path(s.r, s.t, p)
                 x == [s EXCEPT !.r = a.r]
             IN IF a.meta = NONE THEN Refuse(x) ELSE Finish(x, x.r)
    BY <2>1
  <2>3. Good(s) /\ s.r \in Redises /\ s.t \in Trees
    BY <1>2, InsertGood, WorkFacts DEF Good
  <2>4. s.failures = failures /\ s.r = m.r
    BY <1>2, InsertMakes
  <2>5. PICK k : /\ Appears(s.t, tree, m.id, n, k) /\ s.t[k].kind = "link"
                 /\ tree[k] = NONE /\ m.r.meta[k] = NONE
    BY <1>2, InsertMakes
  <2>6. Named(s.t, m.id, n) = {k} /\ \A j \in Ids \ {k} : Like(s.t, tree, j)
    BY <1>2, <2>5, AppearsNamed
  <2>7. k \in Ids /\ k \notin Shown(tree) /\ k \in Shown(s.t) /\ s.t[k].parent = m.id /\ s.t[k].name = Last(p)
    BY <2>5 DEF Appears, n
  <2> DEFINE a == psql_read_meta_from_path(s.r, s.t, p)
             x == WithRedis(s, a.r)
  <2>8. /\ a.meta # NONE /\ a.r \in Redises /\ a.r.list = m.r.list
        /\ a.r.path[p] = k /\ \A q \in Paths \ {p} : a.r.path[q] = m.r.path[q]
        /\ a.r.meta[k] = Attributes(s.t, k) /\ \A j \in Ids \ {k} : a.r.meta[j] = m.r.meta[j]
    BY <1>2, <2>3, <2>4, <2>5, <2>6, <2>7, LookupOfLink DEF n
  <2>9. Finish(x, x.r)
    BY <2>2, <2>8 DEF WithRedis
  <2>10. x.t = s.t /\ x.r = a.r /\ x.failures = s.failures
    BY <2>3 DEF WithRedis, Good, Work
  <2> HIDE DEF a, x
  <2>11. tree' = s.t /\ redis' = a.r
    BY <2>4, <2>9, <2>10, CalmFacts, FinishWell
  <2>12. \A j \in Ids : MetaLeft(m.r, j)
    BY <2>6, <2>8, <2>11 DEF MetaLeft
  <2>13. LinkMade(m.id)
    BY <2>5, <2>7, <2>11, CalmFacts DEF LinkMade, Is_a, Shown
  <2>14. \A e \in Dirs : redis'.list[e] = redis.list[e]
    BY <1>2, <2>8, <2>11 DEF Looked
  <2> QED BY <1>2, <2>6, <2>7, <2>8, <2>11, <2>12, <2>13, <2>14, AppearSteps
<1> QED BY <1>3, <1>4

\* What psql_create_file leaves, in words of the trees.
LEMMA MakesAppears ==
  ASSUME NEW x, NEW s, s.t \in Trees, NEW p, NEW d, NEW n, NEW k, Makes(x, s, p, d, n, k), Named(s.t, d, n) = {}
  PROVE  /\ Appears(x.t, s.t, d, n, k) /\ Named(x.t, d, n) = {k}
         /\ \A j \in Ids \ {k} : Like(x.t, s.t, j)
<1>1. Appears(x.t, s.t, d, n, k)
  BY DEF Makes, Appears
<1> QED BY <1>1, AppearsNamed

\* create.
LEMMA CreateSteps ==
  ASSUME Calm, NEW p \in Paths, Create(p)
  PROVE  Steps
<1> DEFINE m == psql_read_meta_from_path(redis, tree, Front(p))
           z == Start(m.r)
           n == Last(p)
<1>1. Absent(p)
  BY DEF Create
<1>2. /\ p # <<>> /\ n \in Names /\ Looked(m.r) /\ Good(z)
      /\ z.t = tree /\ z.u = tree /\ z.r = m.r /\ z.failures = failures /\ z.id = NONE
      /\ m.id = At(tree, Front(p)) /\ m.id \in Dirs /\ IsDir(tree, m.id) /\ Is(m, "dir")
      /\ m.r.path[Front(p)] = m.id /\ m.r.path[p] = NONE
      /\ At(tree, p) = NONE /\ Named(tree, m.id, n) = {}
  BY <1>1, MakerStarts
<1>3. CASE Refuse(z)
  BY <1>2, <1>3, RefuseSteps
<1>4. CASE ~Refuse(z)
  <2>1. \E s \in psql_create_file(z, p, m.id, n) :
             LET a == IF s.id \in Ids THEN [id |-> s.id, r |-> s.r]
                                      ELSE psql_path_to_id(s.r, s.t, p)
                 x == [s EXCEPT !.r = a.r]
             IN IF a.id \in Dirs THEN Finish(x, x.r) ELSE Refuse(x)
    BY <1>4 DEF Create
  <2> HIDE DEF m, n, z
  <2>2. PICK s \in psql_create_file(z, p, m.id, n) :
             LET a == IF s.id \in Ids THEN [id |-> s.id, r |-> s.r]
                                      ELSE psql_path_to_id(s.r, s.t, p)
                 x == [s EXCEPT !.r = a.r]
             IN IF a.id \in Dirs THEN Finish(x, x.r) ELSE Refuse(x)
    BY <2>1
  <2>3. Good(s)
    BY <1>2, CreateFileGood DEF Kept
  <2>4. s.r \in Redises /\ s.t \in Trees /\ s \in Work
    BY <2>3, WorkFacts DEF Good
  <2>5. /\ s.failures >= failures /\ s.failures \in Nat
        /\ s.failures = failures => \E k : Makes(s, z, p, m.id, n, k)
    BY <1>2, CreateFileMakes
  <2> DEFINE a == IF s.id \in Ids THEN [id |-> s.id, r |-> s.r] ELSE psql_path_to_id(s.r, s.t, p)
             x == WithRedis(s, a.r)
  <2>6. IF a.id \in Dirs THEN Finish(x, x.r) ELSE Refuse(x)
    BY <2>2 DEF WithRedis
  <2>7. x.t = s.t /\ x.r = a.r /\ x.failures = s.failures
    BY <2>4 DEF WithRedis, Work
  <2>8. s.failures = failures
    <3>1. CASE a.id \in Dirs
      BY <2>5, <2>6, <2>7, <3>1, CalmFacts, FinishWell
    <3>2. CASE a.id \notin Dirs
      BY <2>6, <2>7, <3>2, CalmFacts DEF Refuse
    <3> QED BY <3>1, <3>2
  <2>9. PICK k : Makes(s, z, p, m.id, n, k)
    BY <2>5, <2>8
  <2>10. /\ Appears(s.t, tree, m.id, n, k) /\ Named(s.t, m.id, n) = {k}
         /\ \A j \in Ids \ {k} : Like(s.t, tree, j)
    <3>1. z.t \in Trees /\ Named(z.t, m.id, n) = {}
      BY <1>2, CalmFacts
    <3>2. /\ Appears(s.t, z.t, m.id, n, k) /\ Named(s.t, m.id, n) = {k}
          /\ \A j \in Ids \ {k} : Like(s.t, z.t, j)
      BY <2>9, <3>1, MakesAppears
    <3> QED BY <1>2, <3>2
  <2>11. /\ k \in Ids /\ k \in Dirs
         /\ (tree[k] = NONE /\ m.r.meta[k] = NONE) \/ Is_a(tree, k, "portal")
         /\ s.r.meta = m.r.meta
         /\ \A e \in Dirs : s.r.list[e] = IF e = m.id THEN {} ELSE m.r.list[e]
         /\ s.id = k \/ s.id = NONE
         /\ s.r.path[p] \in {k, NONE}
         /\ \A q \in Paths \ {p} : s.r.path[q] = m.r.path[q]
    BY <1>2, <2>9, Ends DEF Makes
  <2>12. /\ a.id = k /\ a.r.meta = s.r.meta /\ a.r.list = s.r.list
         /\ a.r.path[p] \in {k, NONE} /\ \A q \in Paths \ {p} : a.r.path[q] = m.r.path[q]
    <3>1. CASE s.id \in Ids
      BY <2>11, <3>1, NamespaceAssumption
    <3>2. CASE s.id \notin Ids /\ s.r.path[p] # NONE
      <4>1. psql_path_to_id(s.r, s.t, p) = [id |-> k, r |-> s.r]
        BY <2>11, <3>2 DEF psql_path_to_id
      <4> QED BY <2>11, <3>2, <4>1
    <3>3. CASE s.id \notin Ids /\ s.r.path[p] = NONE
      <4> DEFINE y == SetPath(s.r, p, k)
      <4>1. s.t # Down
        BY <2>4, NothingAssumption
      <4>2. p # Front(p) /\ Front(p) \in Paths
        BY <1>2, PathFacts
      <4>3. s.r.path[Front(p)] = m.id
        BY <1>2, <2>11, <4>2
      <4>4. psql_path_to_id(s.r, s.t, p) = [id |-> k, r |-> y]
        BY <1>2, <2>10, <2>11, <3>3, <4>1, <4>3, LookupNew DEF n
      <4>5. /\ y.meta = s.r.meta /\ y.list = s.r.list /\ y.path[p] = k
            /\ \A q \in Paths \ {p} : y.path[q] = s.r.path[q]
        BY <2>4, <2>11, SetPathAt
      <4> HIDE DEF y
      <4> QED BY <2>11, <3>3, <4>4, <4>5
    <3> QED BY <3>1, <3>2, <3>3
  <2> HIDE DEF a, x
  <2>13. Finish(x, x.r)
    BY <2>6, <2>11, <2>12
  <2>14. tree' = s.t /\ redis' = a.r
    BY <2>5, <2>7, <2>13, FinishWell
  <2>15. \A j \in Ids : MetaLeft(m.r, j)
    <3>1. \A j \in Ids \ {k} : MetaLeft(m.r, j)
      BY <2>10, <2>11, <2>12, <2>14 DEF MetaLeft
    <3>2. MetaLeft(m.r, k)
      <4>1. CASE tree[k] = NONE /\ m.r.meta[k] = NONE
        BY <2>11, <2>12, <2>14, <4>1 DEF MetaLeft
      <4>2. CASE Is_a(tree, k, "portal")
        <5>1. tree'[k] # tree[k]
          BY <2>10, <2>14 DEF Appears, Shown
        <5> QED BY <4>2, <5>1 DEF MetaLeft
      <4> QED BY <2>11, <4>1, <4>2
    <3> QED BY <3>1, <3>2
  <2>16. \A e \in Dirs : redis'.list[e] = {} \/ redis'.list[e] = redis.list[e]
    BY <1>2, <2>11, <2>12, <2>14 DEF Looked
  <2>17. redis'.list[m.id] = {}
    BY <1>2, <2>11, <2>12, <2>14
  <2>18. k \notin Shown(tree) /\ k \in Shown(tree') /\ tree'[k].parent = m.id /\ tree'[k].name = Last(p)
    BY <2>10, <2>14 DEF Appears, n
  <2> QED BY <1>2, <2>10, <2>11, <2>12, <2>14, <2>15, <2>16, <2>17, <2>18, AppearSteps
<1> QED BY <1>3, <1>4

-------------------------------------------------------------------------------
(* A directory takes the name of a hidden file.                              *)

\* The portal refuses, fails or makes the entry; failures are only counted up.
LEMMA AddCounts ==
  ASSUME NEW s, Good(s), NEW d, NEW n, NEW k, NEW x \in Add(s, d, n, k)
  PROVE  x.failures >= s.failures /\ x.failures \in Nat /\ x.r = s.r
<1>1. PICK i \in s.unused : \E y :
        /\ Called(y, Taking(s, i), Put(s.t, i, Row(i, d, n, k)), Put(s.u, i, Row(i, d, n, k)))
        /\ x = y \/ x = Undone(y, s)
  BY AddIs
<1> DEFINE z == Taking(s, i)
           a == Put(s.t, i, Row(i, d, n, k))
           b == Put(s.u, i, Row(i, d, n, k))
<1>2. PICK y : Called(y, z, a, b) /\ (x = y \/ x = Undone(y, s))
  BY <1>1
<1>3. Good(z) /\ z.failures = s.failures /\ z.r = s.r
  BY TakingGood
<1> HIDE DEF z, a, b
<1>4. z \in Work
  BY <1>3 DEF Good
<1>5. y.failures >= s.failures /\ y.failures \in Nat /\ y.r = s.r
  BY <1>2, <1>3, <1>4, CallCounts
<1>6. x.failures = y.failures /\ x.r = y.r
  <2>1. CASE y = WithTrees(z, a, b)
    BY <1>2, <1>4, <2>1 DEF WithTrees, Work, Undone
  <2>2. CASE y = Failed(z)
    BY <1>2, <1>4, <2>2 DEF Failed, Work, Undone
  <2> QED BY <1>2, <2>1, <2>2 DEF Called
<1> QED BY <1>5, <1>6

\* Once the hidden file of the name is deleted the name is free, and nothing
\* that is shown has changed.
Free(s, z, d, n) ==
  /\ Good(s) /\ ~Taken(s.t, d, n, Portal)
  /\ \A j \in Ids : Like(s.t, z.t, j) /\ s.r.meta[j] \in {NONE, z.r.meta[j]}
  /\ s.r.path = z.r.path /\ s.r.list = z.r.list

\* DEL of the attributes of i.
LEMMA UnreadFacts ==
  ASSUME NEW s, Good(s), NEW i, NEW x, x = Unread(s, i)
  PROVE  /\ Good(x) /\ x.t = s.t /\ x.u = s.u /\ x.failures = s.failures /\ x.id = s.id
         /\ x.r.path = s.r.path /\ x.r.list = s.r.list
         /\ \A d \in Dirs : x.r.meta[d] = IF d = i THEN NONE ELSE s.r.meta[d]
<1>1. /\ Good(x) /\ x.t = s.t /\ x.u = s.u /\ x.r = Del(s.r, {}, {i}, {})
      /\ x.failures = s.failures /\ x.id = s.id
  BY Forgets DEF Unread
<1>2. s.r \in Redises
  BY WorkFacts DEF Good
<1>3. /\ x.r.path = [q \in Paths |-> IF q \in {} THEN NONE ELSE s.r.path[q]]
      /\ x.r.list = [d \in Dirs |-> IF d \in {} THEN {} ELSE s.r.list[d]]
      /\ x.r.meta = [d \in Dirs |-> IF d \in {i} THEN NONE ELSE s.r.meta[d]]
  BY <1>1 DEF Del
<1>4. s.r.path \in [Paths -> Dirs \cup {NONE, Bad}] /\ s.r.list \in [Dirs -> SUBSET Names]
  BY <1>2 DEF Redises
<1>5. x.r.path = s.r.path
  BY <1>3, <1>4
<1>6. x.r.list = s.r.list
  BY <1>3, <1>4
<1>7. \A d \in Dirs : x.r.meta[d] = IF d = i THEN NONE ELSE s.r.meta[d]
  BY <1>3
<1> QED BY <1>1, <1>5, <1>6, <1>7

\* mkdir deletes the hidden file of the name: there is one only, so the name is
\* free then.
LEMMA ClearedFree ==
  ASSUME NEW z, Good(z), Sole(z.t), NEW d, NEW n, Named(z.t, d, n) = {}, NEW i \in Hidden(z.t, d, n),
         NEW s, Called(s, Unread(z, i), Drop(z.t, i), Drop(z.u, i))
  PROVE  /\ s.failures >= z.failures /\ s.failures \in Nat /\ Good(s)
         /\ s.failures = z.failures => Free(s, z, d, n)
<1> DEFINE y == Unread(z, i)
<1>1. /\ Good(y) /\ y.t = z.t /\ y.u = z.u /\ y.failures = z.failures
      /\ y.r.path = z.r.path /\ y.r.list = z.r.list
      /\ \A e \in Dirs : y.r.meta[e] = IF e = i THEN NONE ELSE z.r.meta[e]
  BY UnreadFacts
<1>2. Called(s, y, Drop(y.t, i), Drop(y.u, i))
  BY <1>1
<1> HIDE DEF y
<1>3. /\ i \in Ids /\ z.t[i] # NONE /\ z.t[i].del /\ z.t[i].kind = "portal"
      /\ z.t[i].parent = d /\ z.t[i].name = n /\ ~IsDir(z.t, i) /\ Fits(z.t) /\ z.t \in Trees
  BY WorkFacts, DirFacts DEF Hidden, Good, Fits, HiddenAreFiles
<1>4. Good(s)
  BY <1>1, <1>2, <1>3, DropGood
<1>5. /\ s.failures >= z.failures /\ s.failures \in Nat /\ s.r = y.r
      /\ s.failures = z.failures => s.t = Drop(z.t, i)
  BY <1>1, <1>2, CallCounts DEF Good
<1>6. ASSUME s.failures = z.failures
      PROVE  Free(s, z, d, n)
  <2>1. s.t = Drop(z.t, i) /\ Gone(s.t, z.t, i)
    BY <1>3, <1>5, <1>6, DropGone
  <2>2. \A j \in Shown(z.t) : z.t[j].parent # i
    BY <1>3, NoChildren DEF Fits
  <2>3. i \notin Shown(s.t) /\ \A j \in Ids \ {i} : Like(s.t, z.t, j)
    BY <1>3, <2>1, <2>2, GoneLike
  <2>4. \A j \in Ids : Like(s.t, z.t, j)
    BY <1>3, <2>3 DEF Like, Shown
  <2>5. ~Taken(s.t, d, n, Portal)
    <3>1. SUFFICES ASSUME NEW k \in Ids, s.t[k] # NONE, s.t[k].parent = d, s.t[k].name = n, s.t[k].kind \in Portal
                   PROVE  FALSE
      BY DEF Taken
    <3>2. k # i /\ s.t[k] = z.t[k]
      BY <1>3, <2>1, <3>1 DEF Gone
    <3>3. InPortal(z.t, k) /\ InPortal(z.t, i)
      BY <1>3, <3>1, <3>2 DEF InPortal, Portal
    <3> QED BY <1>3, <3>1, <3>2, <3>3 DEF Sole
  <2>6. \A j \in Ids : s.r.meta[j] \in {NONE, z.r.meta[j]}
    BY <1>1, <1>5, Ends
  <2> QED BY <1>1, <1>4, <1>5, <2>4, <2>5, <2>6 DEF Free
<1> QED BY <1>4, <1>5, <1>6

\* Without a hidden file the name is free already.
LEMMA ClearFree ==
  ASSUME NEW z, Good(z), NEW d, NEW n, Named(z.t, d, n) = {}, Hidden(z.t, d, n) = {}
  PROVE  Free(z, z, d, n)
<1>1. ~Taken(z.t, d, n, Portal)
  <2>1. SUFFICES ASSUME NEW k \in Ids, z.t[k] # NONE, z.t[k].parent = d, z.t[k].name = n
                 PROVE  FALSE
    BY DEF Taken
  <2> QED BY <2>1 DEF Named, Children, Shown, Hidden
<1> QED BY <1>1 DEF Free, Like

\* mkdir.
LEMMA MkdirSteps ==
  ASSUME Calm, Sole(tree), NEW p \in Paths, Mkdir(p)
  PROVE  Steps
<1> DEFINE m == psql_read_meta_from_path(redis, tree, Front(p))
           n == Last(p)
           z == Start(m.r)
           hidden == Hidden(tree, m.id, n)
           Cleared == IF hidden = {} THEN {z}
                      ELSE UNION {Call([z EXCEPT !.r = Del(@, {}, {i}, {})], LAMBDA t : Drop(t, i)) : i \in hidden}
<1>1. Absent(p)
  BY DEF Mkdir
<1>2. /\ p # <<>> /\ n \in Names /\ Looked(m.r) /\ Good(z)
      /\ z.t = tree /\ z.u = tree /\ z.r = m.r /\ z.failures = failures /\ z.id = NONE
      /\ m.id = At(tree, Front(p)) /\ m.id \in Dirs /\ IsDir(tree, m.id) /\ Is(m, "dir")
      /\ m.r.path[Front(p)] = m.id /\ m.r.path[p] = NONE
      /\ At(tree, p) = NONE /\ Named(tree, m.id, n) = {}
  BY <1>1, MakerStarts
<1>3. \E s \in Cleared : \E x \in Add(s, m.id, n, "dir") :
             LET y == [x EXCEPT !.r = SetPath(@, p, x.id)]
             IN Finish(y, Del(y.r, {}, {}, {m.id}))
  BY <1>2 DEF Mkdir
<1>4. PICK s \in Cleared : \E x \in Add(s, m.id, n, "dir") :
             LET y == [x EXCEPT !.r = SetPath(@, p, x.id)]
             IN Finish(y, Del(y.r, {}, {}, {m.id}))
  BY <1>3
<1>5. \/ s = z /\ hidden = {}
      \/ \E i \in hidden : Called(s, Unread(z, i), Drop(z.t, i), Drop(z.u, i))
  <2>1. z \in Work
    BY <1>2 DEF Good
  <2>2. CASE hidden = {}
    BY <1>4, <2>2
  <2>3. CASE hidden # {}
    <3>1. PICK i \in hidden : s \in Call(Unread(z, i), LAMBDA t : Drop(t, i))
      BY <1>4, <2>3 DEF Unread, Forgetting
    <3> HIDE DEF z, hidden
    <3>2. Unread(z, i).t = z.t /\ Unread(z, i).u = z.u
      BY <2>1 DEF Unread, Forgetting, Work
    <3> QED BY <3>1, <3>2 DEF Call, Called, WithTrees, Failed
  <2> QED BY <2>2, <2>3
<1> HIDE DEF Cleared, m, n, z
<1>6. /\ s.failures >= failures /\ s.failures \in Nat /\ Good(s)
      /\ s.failures = failures => Free(s, z, m.id, n)
  <2>1. CASE s = z /\ hidden = {}
    BY <1>2, <2>1, CalmFacts, ClearFree
  <2>2. CASE \E i \in hidden : Called(s, Unread(z, i), Drop(z.t, i), Drop(z.u, i))
    BY <1>2, <2>2, ClearedFree
  <2> QED BY <1>5, <2>1, <2>2
<1> HIDE DEF hidden
<1>7. PICK x \in Add(s, m.id, n, "dir") :
             LET y == [x EXCEPT !.r = SetPath(@, p, x.id)]
             IN Finish(y, Del(y.r, {}, {}, {m.id}))
  BY <1>4
<1>8. "dir" \in Portal
  BY DEF Portal
<1>9. Good(x) /\ x.failures >= s.failures /\ x.failures \in Nat /\ x.r = s.r /\ x \in Work
  BY <1>2, <1>6, <1>8, AddGood, AddCounts DEF Good
<1> DEFINE y == WithRedis(x, SetPath(x.r, p, x.id))
           r == Del(y.r, {}, {}, {m.id})
<1>10. Finish(y, r)
  BY <1>7, <1>9 DEF WithRedis, Work
<1>11. y.t = x.t /\ y.r = SetPath(x.r, p, x.id) /\ y.failures = x.failures
  BY <1>9 DEF WithRedis, Work
<1> HIDE DEF y
<1>12. x.failures >= failures
  BY <1>6, <1>9, CalmFacts
<1>13. tree' = x.t /\ redis' = r /\ x.failures = failures
  BY <1>9, <1>10, <1>11, <1>12, FinishWell
<1>14. s.failures = failures /\ x.failures = s.failures
  BY <1>6, <1>9, <1>13, CalmFacts
<1>15. /\ Good(s) /\ ~Taken(s.t, m.id, n, Portal)
       /\ \A j \in Ids : Like(s.t, tree, j) /\ s.r.meta[j] \in {NONE, m.r.meta[j]}
       /\ s.r.path = m.r.path /\ s.r.list = m.r.list
  BY <1>2, <1>6, <1>14 DEF Free
<1>16. IsDir(s.t, m.id)
  BY <1>2, <1>15, Ends DEF IsDir, Like, Dirs, Shown
<1> DEFINE k == x.id
<1>17. Appears(x.t, s.t, m.id, n, k) /\ s.t[k] = NONE /\ s.r.meta[k] = NONE
  BY <1>2, <1>8, <1>14, <1>15, <1>16, AddMakes
<1> HIDE DEF k
<1>18. /\ k \in Ids /\ k \notin Shown(tree) /\ k \in Shown(tree')
       /\ tree'[k].parent = m.id /\ tree'[k].name = Last(p)
  BY <1>13, <1>15, <1>17 DEF Appears, Like, n
<1>19. \A j \in Ids \ {k} : Like(tree', tree, j)
  BY <1>13, <1>15, <1>17 DEF Appears, Like, Shown
<1>20. x.r \in Redises
  BY <1>9, WorkFacts
<1> DEFINE q == SetPath(x.r, p, k)
<1>21. /\ q \in Redises /\ q.meta = x.r.meta /\ q.list = x.r.list /\ q.path[p] = k
       /\ \A o \in Paths \ {p} : q.path[o] = x.r.path[o]
  BY <1>18, <1>20, SetPathAt
<1>22. r = Del(q, {}, {}, {m.id})
  BY <1>11 DEF k
<1> HIDE DEF q, r
<1>23. /\ \A o \in Paths : r.path[o] = q.path[o]
       /\ \A d \in Dirs : r.meta[d] = q.meta[d]
       /\ \A d \in Dirs : r.list[d] = IF d \in {m.id} THEN {} ELSE q.list[d]
  BY <1>21, <1>22, DelFacts
<1>24. \A j \in Ids : MetaLeft(m.r, j)
  BY <1>9, <1>13, <1>15, <1>17, <1>19, <1>21, <1>23, Ends DEF MetaLeft
<1>25. \A e \in Dirs : redis'.list[e] = {} \/ redis'.list[e] = redis.list[e]
  BY <1>2, <1>9, <1>13, <1>15, <1>21, <1>23 DEF Looked
<1>26. redis'.list[m.id] = {}
  BY <1>2, <1>13, <1>23
<1>27. redis'.path[p] = k /\ \A o \in Paths \ {p} : redis'.path[o] = m.r.path[o]
  BY <1>9, <1>13, <1>15, <1>21, <1>23
<1> QED BY <1>2, <1>18, <1>19, <1>24, <1>25, <1>26, <1>27, AppearSteps

-------------------------------------------------------------------------------
(* Renames of an entry that stays the same row.                              *)

\* The row i is in a directory of D, and no other row has changed.
Shifted(v, t, i, D) ==
  /\ \A j \in Ids \ {i} : v[j] = t[j]
  /\ v[i] # NONE /\ v[i].parent \in D

\* A new name leaves the entry in its directory.
LEMMA EntitleShifts ==
  ASSUME NEW t, NEW v \in Trees, NEW i \in Ids, NEW D, Shifted(v, t, i, D), NEW k, NEW n \in Names
  PROVE  Shifted(Entitle(v, i, k, n), t, i, D)
<1> DEFINE w == [v EXCEPT ![i].name = n]
<1>1. v[i] \in Rows
  BY TreeFacts DEF Shifted
<1>2. \A j \in Ids \ {i} : w[j] = v[j]
  BY DEF Trees
<1>3. w[i] = [v[i] EXCEPT !.name = n]
  BY DEF Trees
<1>4. w[i].parent = v[i].parent /\ w[i] \in Rows
  BY <1>1, <1>3 DEF Rows
<1>5. w[i] # NONE
  BY <1>4, NothingAssumption
<1>6. Entitle(v, i, k, n) \in {v, w}
  BY DEF Entitle
<1> HIDE DEF w
<1> QED BY <1>2, <1>4, <1>5, <1>6 DEF Shifted

\* A move takes it to the other one.
LEMMA MoveShifts ==
  ASSUME NEW t, NEW v \in Trees, NEW i \in Ids, NEW D, Shifted(v, t, i, D), NEW k, NEW e \in Dirs, e \in D
  PROVE  Shifted(Move(v, i, k, e), t, i, D)
<1> DEFINE w == [v EXCEPT ![i].parent = e]
<1>1. v[i] \in Rows
  BY TreeFacts DEF Shifted
<1>2. \A j \in Ids \ {i} : w[j] = v[j]
  BY DEF Trees
<1>3. w[i] = [v[i] EXCEPT !.parent = e]
  BY DEF Trees
<1>4. w[i].parent = e /\ w[i] \in Rows
  BY <1>1, <1>3 DEF Rows
<1>5. w[i] # NONE
  BY <1>4, NothingAssumption
<1>6. Move(v, i, k, e) \in {v, w}
  BY DEF Move
<1> HIDE DEF w
<1> QED BY <1>2, <1>4, <1>5, <1>6 DEF Shifted

\* The entry at from moves or goes, and the listings of D are deleted.
LEMMA MovedSteps ==
  ASSUME Calm, NEW r, Looked(r), NEW from \in Paths, NEW i \in Ids, i = At(tree, from),
         NEW D, tree[i].parent \in D, Lies(tree', i, D),
         \A j \in Ids \ {i} : Like(tree', tree, j),
         \A j \in Ids : MetaLeft(r, j),
         \A d \in Dirs : redis'.list[d] = IF d \in D THEN {} ELSE redis.list[d],
         redis'.path[from] = NONE, \A q \in Paths \ {from} : redis'.path[q] = r.path[q]
  PROVE  Steps
<1> DEFINE X == {i}
<1>1. \A q \in Paths : q # from => At(tree, q) # i
  BY CalmFacts, OnePath, NamespaceAssumption
<1>2. \A q \in Paths : PathLeft(r, X, q)
  BY <1>1 DEF PathLeft
<1>3. \A j \in X : Lies(tree', j, D) /\ Lies(tree, j, D)
  BY DEF Lies
<1>4. X \in SUBSET Ids /\ \A j \in Ids \ X : Like(tree', tree, j)
  OBVIOUS
<1>5. \A d \in Dirs : redis'.list[d] = {} \/ redis'.list[d] = redis.list[d]
  OBVIOUS
<1>6. \A d \in D \cap Dirs : redis'.list[d] = {}
  OBVIOUS
<1> HIDE DEF X
<1> QED BY <1>2, <1>3, <1>4, <1>5, <1>6, Touches

\* What rename deletes after COMMIT.
Forgotten(r, from, D) == Del(r, {from}, {}, D)

\* Which keys are left.
LEMMA ForgottenFacts ==
  ASSUME NEW r \in Redises, NEW from, NEW D, NEW x, x = Forgotten(r, from, D)
  PROVE  /\ \A q \in Paths : x.path[q] = IF q = from THEN NONE ELSE r.path[q]
         /\ \A d \in Dirs : x.meta[d] = r.meta[d]
         /\ \A d \in Dirs : x.list[d] = IF d \in D THEN {} ELSE r.list[d]
<1>1. /\ \A q \in Paths : x.path[q] = IF q \in {from} THEN NONE ELSE r.path[q]
      /\ \A d \in Dirs : x.meta[d] = IF d \in {} THEN NONE ELSE r.meta[d]
      /\ \A d \in Dirs : x.list[d] = IF d \in D THEN {} ELSE r.list[d]
  BY DelFacts DEF Forgotten
<1> QED BY <1>1

\* A rename that gives the entry a new place, and deletes the key of the old one.
LEMMA MovedEnds ==
  ASSUME Calm, NEW r, Looked(r), NEW from \in Paths, NEW i \in Ids, i = At(tree, from),
         NEW D, tree[i].parent \in D, Shifted(tree', tree, i, D),
         NEW x \in Redises, x.path = r.path, x.list = r.list,
         \A j \in Ids \ {i} : x.meta[j] = r.meta[j],
         x.meta[i] = NONE \/ (x.meta[i] = r.meta[i] /\ (tree'[i] = tree[i] \/ Is_a(tree, i, "portal"))),
         redis' = Forgotten(x, from, D)
  PROVE  Steps
<1>1. \A j \in Ids \ {i} : Like(tree', tree, j)
  BY DEF Shifted, Like, Shown
<1>2. Lies(tree', i, D)
  BY DEF Shifted, Lies
<1>3. /\ \A q \in Paths : redis'.path[q] = IF q = from THEN NONE ELSE r.path[q]
      /\ \A d \in Dirs : redis'.meta[d] = x.meta[d]
      /\ \A d \in Dirs : redis'.list[d] = IF d \in D THEN {} ELSE redis.list[d]
  BY ForgottenFacts DEF Looked
<1>4. \A j \in Ids : MetaLeft(r, j)
  <2>1. \A j \in Ids \ {i} : MetaLeft(r, j)
    BY <1>1, <1>3, Ends DEF MetaLeft
  <2>2. MetaLeft(r, i)
    <3>1. CASE x.meta[i] = NONE
      BY <1>3, <3>1, Ends DEF MetaLeft
    <3>2. CASE x.meta[i] = r.meta[i] /\ tree'[i] = tree[i]
      BY <1>3, <3>2, Ends DEF MetaLeft, Like, Shown
    <3>3. CASE x.meta[i] = r.meta[i] /\ tree'[i] # tree[i] /\ Is_a(tree, i, "portal")
      BY <3>3 DEF MetaLeft
    <3> QED BY <3>1, <3>2, <3>3
  <2> QED BY <2>1, <2>2
<1> QED BY <1>1, <1>2, <1>3, <1>4, MovedSteps

\* The parents' attributes are read before a file is renamed in place.
LEMMA ParentsRight ==
  ASSUME Calm, NEW s, Good(s), s.t = tree, s.unused = unused, Looked(s.r), NEW d \in Answers, NEW to_d \in Answers,
         NEW x, x = Parents(s, d, to_d).s
  PROVE  /\ Good(x) /\ x.t = s.t /\ x.u = s.u /\ x.unused = s.unused /\ x.failures = s.failures
         /\ Looked(x.r) /\ x.r.path = s.r.path
<1> DEFINE a == psql_read_meta(s.r, s.t, d)
           b == psql_read_meta(a.r, s.t, to_d)
<1>1. Good(x) /\ x.t = s.t /\ x.u = s.u /\ x.unused = s.unused
  BY ParentsGood
<1>2. x.failures = s.failures /\ x.r \in {a.r, b.r}
  BY DEF Parents, Good, Work
<1>3. s.r \in Redises /\ MetasRight(s.r, tree) /\ tree \in Trees /\ PathsRight(s.r, tree) /\ s.r.list = redis.list
  BY CalmFacts DEF Looked, Right
<1>4. a.r \in Redises /\ MetasRight(a.r, tree) /\ a.r.path = s.r.path /\ a.r.list = s.r.list
  BY <1>3, ReadRight
<1> HIDE DEF a
<1>5. b.r \in Redises /\ MetasRight(b.r, tree) /\ b.r.path = a.r.path /\ b.r.list = a.r.list
  BY <1>3, <1>4, ReadRight
<1> HIDE DEF b
<1>6. x.r \in Redises /\ Right(x.r, tree) /\ x.r.list = redis.list /\ x.r.path = s.r.path
  BY <1>2, <1>3, <1>4, <1>5 DEF Right, PathsRight
<1>7. Knows(x.r, tree) /\ Unused(x.r, tree, unused)
  BY <1>1 DEF Good
<1> QED BY <1>1, <1>2, <1>6, <1>7 DEF Looked

\* What psql_rename starts from, at work on the entry i at from.
Renames(y, i, from, d, e, n, D) ==
  /\ Good(y) /\ y.t = tree /\ y.u = tree /\ y.unused = unused /\ y.failures = failures /\ Looked(y.r)
  /\ from \in Paths /\ i \in Ids /\ i = At(tree, from) /\ i \in Shown(tree)
  /\ d = tree[i].parent /\ d \in Dirs /\ e \in Dirs /\ n \in Names
  /\ d \in D /\ e \in D

\* Before anything is done, the entry is in a directory of D.
LEMMA RenamesShift ==
  ASSUME NEW y, NEW i, NEW from, NEW d, NEW e, NEW n, NEW D, Renames(y, i, from, d, e, n, D)
  PROVE  Shifted(y.t, tree, i, D) /\ y.t \in Trees /\ y \in Work /\ failures \in Nat /\ y.r \in Redises
<1>1. Good(y) /\ y.failures = failures /\ y.t = tree /\ i \in Shown(tree) /\ tree[i].parent \in D
  BY DEF Renames
<1>2. y \in Work
  BY <1>1 DEF Good
<1>3. y.t \in Trees /\ y.failures \in 0 .. MaxFailures /\ y.r \in Redises
  BY <1>2, WorkFacts
<1>4. Shifted(y.t, tree, i, D)
  BY <1>1 DEF Shifted, Shown
<1> QED BY <1>1, <1>2, <1>3, <1>4, NamespaceAssumption

\* A directory is renamed.
LEMMA RenameDirSteps ==
  ASSUME Calm, NEW y, NEW i, NEW from, NEW d, NEW e, NEW n, NEW D, Renames(y, i, from, d, e, n, D),
         NEW x \in RenameDir(y, i, d, e, n), Finish(x, Forgotten(x.r, from, D))
  PROVE  Steps
<1>1. /\ Good(y) /\ y.t = tree /\ y.failures = failures /\ Looked(y.r)
      /\ from \in Paths /\ i \in Ids /\ i = At(tree, from)
      /\ tree[i].parent \in D /\ e \in Dirs /\ n \in Names /\ e \in D
  BY DEF Renames
<1>2. Shifted(y.t, tree, i, D) /\ y.t \in Trees /\ y \in Work /\ failures \in Nat
  BY RenamesShift
<1>3. PICK v, z : /\ Called(v, y, Entitle(y.t, i, "dir", n), Entitle(y.u, i, "dir", n))
                  /\ \/ d = e /\ z = v
                     \/ d # e /\ Called(z, v, Move(v.t, i, "dir", e), Move(v.u, i, "dir", e))
                  /\ x = Unread(z, i)
  BY RenameDirIs
<1>4. /\ v.failures >= failures /\ v.failures \in Nat /\ v.r = y.r
      /\ v.failures = failures => v.t = Entitle(y.t, i, "dir", n)
  BY <1>1, <1>2, <1>3, CallCounts
<1>5. Good(v) /\ v \in Work /\ v.t \in Trees
  <2>1. y.u \in Trees /\ Fits(y.t) /\ Fits(y.u)
    BY <1>1, WorkFacts DEF Good
  <2>2. Tame(Entitle(y.t, i, "dir", n), y.t) /\ Tame(Entitle(y.u, i, "dir", n), y.u)
    BY <1>1, <1>2, <2>1, EntitleTame
  <2>3. Good(v)
    BY <1>1, <1>3, <2>2, TameCall
  <2> QED BY <2>3, WorkFacts DEF Good
<1>6. /\ z.failures >= v.failures /\ z.failures \in Nat /\ z.r = y.r /\ Good(z)
      /\ z.failures = v.failures => z.t = v.t \/ z.t = Move(v.t, i, "dir", e)
  <2>1. CASE z = v
    BY <1>4, <1>5, <2>1
  <2>2. CASE Called(z, v, Move(v.t, i, "dir", e), Move(v.u, i, "dir", e))
    <3>1. v.u \in Trees /\ Fits(v.t) /\ Fits(v.u)
      BY <1>5, WorkFacts DEF Good
    <3>2. Tame(Move(v.t, i, "dir", e), v.t) /\ Tame(Move(v.u, i, "dir", e), v.u)
      BY <1>5, <3>1, MoveTame
    <3>3. Good(z)
      BY <1>5, <2>2, <3>2, TameCall
    <3> QED BY <1>4, <1>5, <2>2, <3>3, CallCounts
  <2> QED BY <1>3, <2>1, <2>2
<1>7. /\ x.t = z.t /\ x.failures = z.failures /\ x.r.path = z.r.path /\ x.r.list = z.r.list /\ x.r \in Redises
      /\ \A j \in Dirs : x.r.meta[j] = IF j = i THEN NONE ELSE z.r.meta[j]
  BY <1>3, <1>6, UnreadFacts, WorkFacts DEF Good
<1>8. x.failures >= failures /\ x.failures \in Nat
  BY <1>2, <1>4, <1>6, <1>7
<1>9. tree' = x.t /\ redis' = Forgotten(x.r, from, D) /\ x.failures = failures
  BY <1>8, FinishWell
<1>10. v.failures = failures /\ z.failures = v.failures
  BY <1>2, <1>4, <1>6, <1>7, <1>9
<1>11. Shifted(v.t, tree, i, D)
  BY <1>1, <1>2, <1>4, <1>10, EntitleShifts
<1>12. Shifted(tree', tree, i, D)
  BY <1>1, <1>5, <1>6, <1>7, <1>9, <1>10, <1>11, MoveShifts
<1>13. /\ x.r.path = y.r.path /\ x.r.list = y.r.list /\ x.r.meta[i] = NONE
       /\ \A j \in Ids \ {i} : x.r.meta[j] = y.r.meta[j]
  BY <1>1, <1>6, <1>7, Ends
<1> QED BY <1>1, <1>7, <1>9, <1>12, <1>13, MovedEnds

\* A file of the portal is renamed.
LEMMA RenamePortalSteps ==
  ASSUME Calm, NEW y, NEW i, NEW from, NEW d, NEW e, NEW n, NEW D, Renames(y, i, from, d, e, n, D),
         Is_a(tree, i, "portal"),
         NEW x \in RenamePortal(y, i, d, e, n), Finish(x, Forgotten(x.r, from, D))
  PROVE  Steps
<1> DEFINE p == Parents(y, d, e).s
<1>1. /\ Good(y) /\ y.t = tree /\ y.failures = failures /\ Looked(y.r) /\ y.unused = unused
      /\ from \in Paths /\ i \in Ids /\ i = At(tree, from)
      /\ tree[i].parent \in D /\ d \in Dirs /\ e \in Dirs /\ n \in Names /\ e \in D
  BY DEF Renames
<1>2. Shifted(y.t, tree, i, D) /\ y.t \in Trees /\ y \in Work /\ failures \in Nat
  BY RenamesShift
<1>3. \/ x = p
      \/ \E v : /\ v = p \/ Called(v, p, Move(p.t, i, "portal", e), Move(p.u, i, "portal", e))
                /\ Called(x, v, Entitle(v.t, i, "portal", n), Entitle(v.u, i, "portal", n))
  BY RenamePortalIs
<1>4. /\ Good(p) /\ p.t = tree /\ p.failures = failures /\ Looked(p.r)
  BY <1>1, Ends, ParentsRight
<1> HIDE DEF p
<1>5. p \in Work /\ p.t \in Trees /\ p.r \in Redises /\ p.t \in Trees /\ Shifted(p.t, tree, i, D)
  BY <1>1, <1>2, <1>4, WorkFacts DEF Good
<1>6. /\ x.failures >= failures /\ x.failures \in Nat /\ x.r = p.r
      /\ x.failures = failures => Shifted(x.t, tree, i, D)
  <2>1. CASE x = p
    BY <1>2, <1>4, <1>5, <2>1
  <2>2. ASSUME NEW v, v = p \/ Called(v, p, Move(p.t, i, "portal", e), Move(p.u, i, "portal", e)),
               Called(x, v, Entitle(v.t, i, "portal", n), Entitle(v.u, i, "portal", n))
        PROVE  x.failures >= failures /\ x.failures \in Nat /\ x.r = p.r
               /\ (x.failures = failures => Shifted(x.t, tree, i, D))
    <3>1. /\ v.failures >= failures /\ v.failures \in Nat /\ v.r = p.r /\ Good(v)
          /\ v.failures = failures => v.t = p.t \/ v.t = Move(p.t, i, "portal", e)
      <4>1. CASE v = p
        BY <1>2, <1>4, <4>1
      <4>2. CASE Called(v, p, Move(p.t, i, "portal", e), Move(p.u, i, "portal", e))
        <5>1. p.u \in Trees /\ Fits(p.t) /\ Fits(p.u)
          BY <1>4, WorkFacts DEF Good
        <5>2. Tame(Move(p.t, i, "portal", e), p.t) /\ Tame(Move(p.u, i, "portal", e), p.u)
          BY <1>5, <5>1, MoveTame
        <5>3. Good(v)
          BY <1>4, <4>2, <5>2, TameCall
        <5> QED BY <1>4, <1>5, <4>2, <5>3, CallCounts
      <4> QED BY <2>2, <4>1, <4>2
    <3>2. v \in Work /\ v.t \in Trees
      BY <3>1, WorkFacts DEF Good
    <3>3. /\ x.failures >= v.failures /\ x.failures \in Nat /\ x.r = v.r
          /\ x.failures = v.failures => x.t = Entitle(v.t, i, "portal", n)
      BY <2>2, <3>2, CallCounts
    <3>4. v.failures = failures => Shifted(v.t, tree, i, D)
      BY <1>1, <1>5, <3>1, MoveShifts
    <3>5. x.failures = failures => v.failures = failures
      BY <1>2, <3>1, <3>3
    <3>6. x.failures = failures => Shifted(x.t, tree, i, D)
      BY <1>1, <3>2, <3>3, <3>4, <3>5, EntitleShifts
    <3> QED BY <1>2, <3>1, <3>3, <3>6
  <2> QED BY <1>3, <2>1, <2>2
<1>7. tree' = x.t /\ redis' = Forgotten(x.r, from, D) /\ x.failures = failures
  BY <1>6, FinishWell
<1> QED BY <1>1, <1>4, <1>5, <1>6, <1>7, MovedEnds

\* A temporary file or a link is renamed.
LEMMA RenameTempSteps ==
  ASSUME Calm, NEW y, NEW i, NEW from, NEW d, NEW e, NEW n, NEW D, Renames(y, i, from, d, e, n, D),
         NEW x \in RenameTemp(y, i, d, e, n), Finish(x, Forgotten(x.r, from, D))
  PROVE  Steps
<1> DEFINE p == Parents(y, d, e).s
           w == Placed(tree[i], e, n)
<1>1. /\ Good(y) /\ y.t = tree /\ y.failures = failures /\ Looked(y.r) /\ y.unused = unused
      /\ from \in Paths /\ i \in Ids /\ i = At(tree, from)
      /\ tree[i].parent \in D /\ d \in Dirs /\ e \in Dirs /\ n \in Names /\ e \in D
  BY DEF Renames
<1>2. Shifted(tree, tree, i, D) /\ tree \in Trees /\ failures \in Nat
  BY <1>1, RenamesShift
<1>3. \/ x = p
      \/ x = Unread(WithTree(p, Put(tree, i, w)), i) /\ tree[i] \in Rows
  BY <1>1, Ends, RenameTempIs
<1>4. Good(p) /\ p.t = tree /\ p.failures = failures /\ Looked(p.r)
  BY <1>1, Ends, ParentsRight
<1> HIDE DEF p
<1>5. p \in Work /\ p.r \in Redises
  BY <1>4, WorkFacts DEF Good
<1>6. CASE x = p
  <2>1. tree' = tree /\ redis' = Forgotten(p.r, from, D)
    BY <1>2, <1>4, <1>6, FinishWell
  <2> QED BY <1>1, <1>2, <1>4, <1>5, <2>1, MovedEnds
<1>7. CASE x = Unread(WithTree(p, Put(tree, i, w)), i) /\ tree[i] \in Rows
  <2>1. x.t = Put(tree, i, w) /\ x.failures = failures /\ x.r = Del(p.r, {}, {i}, {})
    BY <1>4, <1>5, <1>7 DEF Unread, Forgetting, WithTree, Work
  <2>2. /\ x.r \in Redises /\ x.r.path = p.r.path /\ x.r.list = p.r.list
        /\ \A j \in Dirs : x.r.meta[j] = IF j = i THEN NONE ELSE p.r.meta[j]
    <3>1. /\ Good(Unread(p, i)) /\ Unread(p, i).r = x.r
      BY <1>4, <1>5, <2>1, UnreadFacts DEF Unread, Forgetting, Work
    <3>2. Unread(p, i).r \in Redises
      BY <3>1, WorkFacts DEF Good
    <3> QED BY <1>4, <3>1, <3>2, UnreadFacts
  <2>3. tree' = x.t /\ redis' = Forgotten(x.r, from, D)
    BY <1>2, <2>1, FinishWell
  <2>4. w.parent = e /\ w \in Rows
    BY <1>1, <1>7 DEF Placed, Rows
  <2>5. w # NONE
    BY <2>4, NothingAssumption
  <2> HIDE DEF w
  <2>6. tree'[i] = w /\ \A j \in Ids \ {i} : tree'[j] = tree[j]
    BY <1>1, <1>2, <2>1, <2>3 DEF Put, Trees
  <2>7. Shifted(tree', tree, i, D)
    BY <1>1, <2>4, <2>5, <2>6 DEF Shifted
  <2>8. x.r.meta[i] = NONE /\ \A j \in Ids \ {i} : x.r.meta[j] = p.r.meta[j]
    BY <1>1, <2>2, Ends
  <2> QED BY <1>1, <1>4, <2>2, <2>3, <2>7, <2>8, MovedEnds
<1> QED BY <1>3, <1>6, <1>7

-------------------------------------------------------------------------------
(* Renames from one kind to the other: the entry k appears at to, gets the   *)
(* data of i, and i goes or is hidden.                                       *)

\* v is y with an entry k of name n in e that was not shown.
Fresh(v, y, to, e, n, k) ==
  /\ Good(v) /\ v.failures = y.failures
  /\ Appears(v.t, y.t, e, n, k)
  /\ v.r.meta[k] = NONE \/ Is_a(y.t, k, "portal")
  /\ \A j \in Ids \ {k} : v.r.meta[j] = y.r.meta[j]
  /\ \A d \in Dirs : v.r.list[d] = {} \/ v.r.list[d] = y.r.list[d]
  /\ v.r.path[to] = k \/ v.r.path[to] = NONE
  /\ \A q \in Paths \ {to} : v.r.path[q] = y.r.path[q]

\* psql_create_file makes such an entry.
LEMMA CreateFresh ==
  ASSUME NEW y, Good(y), NEW to \in Paths, NEW e \in Dirs, IsDir(y.t, e), NEW n \in Names,
         Named(y.t, e, n) = {}, y.r.path[to] = NONE, NEW v \in psql_create_file(y, to, e, n)
  PROVE  /\ v.failures >= y.failures /\ v.failures \in Nat /\ Good(v)
         /\ v.failures = y.failures => \E k : Fresh(v, y, to, e, n, k)
<1>1. /\ v.failures >= y.failures /\ v.failures \in Nat
      /\ v.failures = y.failures => \E k : Makes(v, y, to, e, n, k)
  BY CreateFileMakes
<1>2. Good(v)
  BY CreateFileGood DEF Kept
<1>3. ASSUME v.failures = y.failures, NEW k, Makes(v, y, to, e, n, k)
      PROVE  Fresh(v, y, to, e, n, k)
  <2>1. y.t \in Trees
    BY WorkFacts DEF Good
  <2>2. Appears(v.t, y.t, e, n, k)
    BY <1>3, <2>1, MakesAppears
  <2>3. /\ k \in Dirs
        /\ y.r.meta[k] = NONE \/ Is_a(y.t, k, "portal")
        /\ v.r.meta = y.r.meta
        /\ \A d \in Dirs : v.r.list[d] = IF d = e THEN {} ELSE y.r.list[d]
        /\ v.r.path[to] \in {k, NONE}
        /\ \A q \in Paths \ {to} : v.r.path[q] = y.r.path[q]
    BY <1>3, Ends DEF Makes
  <2> QED BY <1>2, <1>3, <2>2, <2>3 DEF Fresh
<1> QED BY <1>1, <1>2, <1>3

\* So does showing the hidden file of the name.
LEMMA ShowsFresh ==
  ASSUME NEW y, Good(y), NEW to \in Paths, NEW e \in Dirs, IsDir(y.t, e), NEW n,
         y.r.path[to] = NONE, NEW h \in Hidden(y.t, e, n), NEW m \in Metas, m.mode # "dir",
         NEW v, v = ShowsAs(y, h, m)
  PROVE  Fresh(v, y, to, e, n, h)
<1>0. Revived(v, y, h, m)
  BY ShowsAsGood
<1>1. /\ Good(v) /\ v.t = Shows(y, h).t /\ v.failures = y.failures /\ v.r = SetMeta(y.r, h, m)
      /\ h \in Ids /\ Is_a(y.t, h, "portal")
  BY <1>0 DEF Revived
<1>2. y \in Work /\ y.t \in Trees /\ y.r \in Redises
  BY WorkFacts DEF Good
<1>3. v.t = [y.t EXCEPT ![h].del = FALSE]
  BY <1>1, <1>2 DEF Shows, set_del_dlfileentry, Work
<1> DEFINE w == [y.t[h] EXCEPT !.del = FALSE]
<1>4. y.t[h] \in Rows /\ y.t[h] # NONE /\ y.t[h].parent = e /\ y.t[h].name = n /\ y.t[h].del
  BY <1>2, TreeFacts DEF Hidden
<1>5. w.parent = e /\ w.name = n /\ ~w.del /\ w \in Rows
  BY <1>4 DEF Rows
<1>6. v.t[h] = w /\ \A j \in Ids \ {h} : v.t[j] = y.t[j]
  BY <1>1, <1>2, <1>3 DEF Trees
<1> HIDE DEF w
<1>7. w # NONE
  BY <1>5, NothingAssumption
<1>8. Appears(v.t, y.t, e, n, h)
  BY <1>1, <1>4, <1>5, <1>6, <1>7 DEF Appears, Shown
<1>9. v.r.path = y.r.path /\ v.r.list = y.r.list /\ v.r.meta = [y.r.meta EXCEPT ![h] = m]
  BY <1>1, <1>2, SetMetaFacts, Ends
<1>10. \A j \in Ids \ {h} : v.r.meta[j] = y.r.meta[j]
  BY <1>2, <1>9, Ends DEF Redises
<1> QED BY <1>1, <1>8, <1>9, <1>10 DEF Fresh

\* z has k as well, which has a key at to.
Crossed(z, y, i, k, to, e, n) ==
  /\ k \in Ids /\ k # i /\ k \notin Shown(y.t) /\ k \in Shown(z.t) /\ z.t[k].parent = e /\ z.t[k].name = n
  /\ \A j \in Ids \ {i, k} : Like(z.t, y.t, j)
  /\ i \notin Shown(z.t) \/ Like(z.t, y.t, i)
  /\ z.r \in Redises
  /\ z.r.meta[i] = NONE \/ (z.r.meta[i] = y.r.meta[i] /\ Like(z.t, y.t, i))
  /\ z.r.meta[k] = NONE \/ Is_a(y.t, k, "portal")
  /\ \A j \in Ids \ {i, k} : z.r.meta[j] = y.r.meta[j]
  /\ \A d \in Dirs : z.r.list[d] = {} \/ z.r.list[d] = y.r.list[d]
  /\ z.r.path[to] = k
  /\ \A q \in Paths \ {to} : z.r.path[q] = y.r.path[q]

\* A row that has not changed.
LEMMA LikeItself ==
  ASSUME NEW t, NEW v, NEW j, v[j] = t[j]
  PROVE  Like(v, t, j)
  BY DEF Like, Shown

\* v is t, where j has other data.
Dated(v, t, j, data) == v = [t EXCEPT ![j].data = data]

\* What is written changes the data of j, no places.
LEMMA DataLike ==
  ASSUME NEW t \in Trees, NEW j \in Ids, t[j] # NONE, NEW data \in Ids \cup {NONE},
         NEW v, Dated(v, t, j, data)
  PROVE  /\ \A l \in Ids : Like(v, t, l)
         /\ \A l \in Ids \ {j} : v[l] = t[l]
         /\ v[j].data = data
<1>1. t[j] \in Rows
  BY TreeFacts
<1>2. v[j] = [t[j] EXCEPT !.data = data] /\ \A l \in Ids \ {j} : v[l] = t[l]
  BY DEF Trees, Dated
<1>3. /\ v[j] \in Rows /\ v[j].data = data /\ v[j].kind = t[j].kind /\ v[j].parent = t[j].parent
      /\ v[j].name = t[j].name /\ v[j].del = t[j].del
  BY <1>1, <1>2 DEF Rows
<1>4. v[j] # NONE
  BY <1>3, NothingAssumption
<1>5. Like(v, t, j)
  BY <1>3, <1>4 DEF Like, Shown
<1> QED BY <1>2, <1>3, <1>5, LikeItself

LEMMA WriteLike ==
  ASSUME NEW s, Good(s), NEW j, NEW data \in Ids \cup {NONE}, NEW x, x = Write(s, j, data)
  PROVE  /\ x.failures = s.failures
         /\ \A l \in Ids : Like(x.t, s.t, l) /\ Like(x.u, s.u, l)
         /\ \A l \in Ids \ {j} : x.t[l] = s.t[l] /\ x.u[l] = s.u[l]
         /\ j \in Ids /\ s.t[j] # NONE => x.t[j].data = data
         /\ j \in Ids /\ s.u[j] # NONE => x.u[j].data = data
<1> DEFINE To(t) == IF j \in Ids /\ t[j] # NONE THEN [t EXCEPT ![j].data = data] ELSE t
<1>1. s \in Work /\ s.t \in Trees /\ s.u \in Trees
  BY WorkFacts DEF Good
<1>2. x.t = To(s.t) /\ x.u = To(s.u) /\ x.failures = s.failures
  BY <1>1 DEF Write, Work
<1>3. ASSUME NEW t \in Trees
      PROVE  /\ \A l \in Ids : Like(To(t), t, l)
             /\ \A l \in Ids \ {j} : To(t)[l] = t[l]
             /\ j \in Ids /\ t[j] # NONE => To(t)[j].data = data
  <2>1. CASE j \in Ids /\ t[j] # NONE
    <3>1. Dated(To(t), t, j, data)
      BY <2>1 DEF Dated
    <3>2. j \in Ids /\ t[j] # NONE /\ t \in Trees /\ data \in Ids \cup {NONE}
      BY <2>1
    <3> HIDE DEF To
    <3>3. To(t)[j].data = data
      BY <3>1, <3>2, DataLike
    <3>4. \A l \in Ids \ {j} : To(t)[l] = t[l]
      BY <3>1, <3>2, DataLike
    <3>5. \A l \in Ids : Like(To(t), t, l)
      BY <3>1, <3>2, DataLike
    <3> QED BY <3>3, <3>4, <3>5
  <2>2. CASE ~(j \in Ids /\ t[j] # NONE)
    <3>1. To(t) = t
      BY <2>2
    <3> HIDE DEF To
    <3> QED BY <2>2, <3>1, LikeItself
  <2> QED BY <2>1, <2>2
<1> HIDE DEF To
<1> QED BY <1>1, <1>2, <1>3

\* copy_mmap writes to j, or not; its errors are counted.
LEMMA CopyLike ==
  ASSUME NEW s, Good(s), NEW i, NEW j, NEW ok, NEW c \in copy_mmap(s, i, j, ok)
  PROVE  /\ Good(c) /\ c.r = s.r /\ c.id = s.id /\ c.failures >= s.failures /\ c.failures \in Nat
         /\ \A l \in Ids : Like(c.t, s.t, l) /\ Like(c.u, s.u, l)
         /\ \A l \in Ids \ {j} : c.t[l] = s.t[l] /\ c.u[l] = s.u[l]
<1> DEFINE y == IF ok THEN s ELSE Failed(s)
<1>1. s \in Work /\ s.failures \in Nat
  BY WorkFacts, NamespaceAssumption DEF Good
<1>2. (ok \/ s.failures < MaxFailures) /\ Written(c, y, j)
  BY <1>1, CopyIs
<1>3. Good(y) /\ y.t = s.t /\ y.u = s.u /\ y.failures >= s.failures /\ y.failures \in Nat
  <2>1. CASE ok
    BY <1>1, <2>1
  <2>2. CASE ~ok
    <3>1. Good(Failed(s)) /\ Failed(s).t = s.t /\ Failed(s).u = s.u /\ Failed(s).failures = s.failures + 1
      BY <1>2, <2>2, Fails
    <3> QED BY <1>1, <2>2, <3>1
  <2> QED BY <2>1, <2>2
<1> HIDE DEF y
<1>4. Good(c) /\ c.r = s.r /\ c.id = s.id
  BY CopyGood
<1>5. CASE c = y
  BY <1>3, <1>4, <1>5, LikeItself
<1>6. CASE \E data \in Ids \cup {NONE} : c = Write(y, j, data)
  <2>1. PICK data \in Ids \cup {NONE} : c = Write(y, j, data)
    BY <1>6
  <2>2. /\ c.failures = y.failures
        /\ \A l \in Ids : Like(c.t, y.t, l) /\ Like(c.u, y.u, l)
        /\ \A l \in Ids \ {j} : c.t[l] = y.t[l] /\ c.u[l] = y.u[l]
    BY <1>3, <2>1, WriteLike
  <2> QED BY <1>3, <1>4, <2>2
<1> QED BY <1>2, <1>5, <1>6 DEF Written

\* copy_mmap does not fail.
Copies(ok) == ok = TRUE

\* Where it succeeds and there is something to copy, it is copied.
LEMMA CopyCopies ==
  ASSUME NEW s, Good(s), NEW i \in Ids, s.t[i] # NONE, s.t[i].data # NONE, NEW j \in Ids,
         NEW ok, Copies(ok), NEW c \in copy_mmap(s, i, j, ok)
  PROVE  /\ c.failures = s.failures
         /\ s.t[j] # NONE => c.t[j].data = s.t[i].data
         /\ s.u[j] # NONE => c.u[j].data = s.t[i].data
<1>1. s.t[i].data \in Ids \cup {NONE}
  BY WorkFacts, TreeFacts DEF Good
<1>2. c = Write(s, j, s.t[i].data)
  BY DEF copy_mmap, Data, Copies
<1> QED BY <1>1, <1>2, WriteLike

\* k has the data of i.
Copied(z, y, i, k) == z.t[k].data = y.t[i].data /\ z.failures = y.failures

\* The data goes to the entry that the key at to leads to.
LEMMA FillCrosses ==
  ASSUME NEW y, Good(y), NEW i \in Ids, i \in Shown(y.t), NEW to \in Paths, to # <<>>,
         NEW e \in Dirs, y.r.path[Front(to)] = e, NEW n, n = Last(to), Named(y.t, e, n) = {},
         NEW v, NEW k, Fresh(v, y, to, e, n, k), NEW ok, NEW z \in Fill(v, i, to, ok)
  PROVE  /\ Good(z) /\ Crossed(z, y, i, k, to, e, n)
         /\ Like(z.t, y.t, i) /\ z.r.meta[i] = y.r.meta[i] /\ z.u[i] = v.u[i]
         /\ Copies(ok) /\ y.t[i].data # NONE => Copied(z, y, i, k)
<1> DEFINE a == psql_path_to_id(v.r, v.t, to)
           u == FindPath(v, v.t, to)
<1>1. /\ Good(v) /\ v.failures = y.failures /\ Appears(v.t, y.t, e, n, k)
      /\ v.r.meta[k] = NONE \/ Is_a(y.t, k, "portal")
      /\ \A j \in Ids \ {k} : v.r.meta[j] = y.r.meta[j]
      /\ \A d \in Dirs : v.r.list[d] = {} \/ v.r.list[d] = y.r.list[d]
      /\ v.r.path[to] = k \/ v.r.path[to] = NONE
      /\ \A q \in Paths \ {to} : v.r.path[q] = y.r.path[q]
  BY DEF Fresh
<1>2. v.t \in Trees /\ v.r \in Redises /\ v.t # Down /\ v \in Work
  BY <1>1, WorkFacts, NothingAssumption DEF Good
<1>3. k \in Ids /\ k \notin Shown(y.t) /\ k # i /\ Named(v.t, e, n) = {k} /\ \A j \in Ids \ {k} : Like(v.t, y.t, j)
  <2>1. Appears(v.t, y.t, e, n, k)
    BY <1>1
  <2>2. Named(v.t, e, n) = {k} /\ \A j \in Ids \ {k} : Like(v.t, y.t, j)
    BY <2>1, AppearsNamed
  <2> QED BY <2>1, <2>2 DEF Appears
<1>4. /\ a.id = k /\ a.r \in Redises /\ a.r.meta = v.r.meta /\ a.r.list = v.r.list
      /\ a.r.path[to] = k /\ \A q \in Paths \ {to} : a.r.path[q] = v.r.path[q]
  <2>1. CASE v.r.path[to] = k
    <3>1. a = [id |-> k, r |-> v.r]
      BY <1>3, <2>1, NamespaceAssumption DEF psql_path_to_id
    <3> HIDE DEF a
    <3> QED BY <1>2, <2>1, <3>1
  <2>2. CASE v.r.path[to] = NONE
    <3>1. to # Front(to) /\ Front(to) \in Paths
      BY PathFacts
    <3>2. v.r.path[Front(to)] = e
      BY <1>1, <3>1
    <3>3. a = [id |-> k, r |-> SetPath(v.r, to, k)]
      BY <1>2, <1>3, <2>2, <3>2, LookupNew
    <3> HIDE DEF a
    <3> DEFINE b == SetPath(v.r, to, k)
    <3>4. /\ b \in Redises /\ b.meta = v.r.meta /\ b.list = v.r.list /\ b.path[to] = k
          /\ \A q \in Paths \ {to} : b.path[q] = v.r.path[q]
      BY <1>2, <1>3, SetPathAt
    <3> HIDE DEF b
    <3>5. a.id = k /\ a.r = b
      BY <3>3 DEF b
    <3> QED BY <3>4, <3>5
  <2> QED BY <1>1, <2>1, <2>2
<1>5. Good(u) /\ u.t = v.t /\ u.u = v.u /\ u.failures = v.failures /\ u.id = a.id /\ u.r = a.r
  BY <1>1, FindGood
<1>6. z \in copy_mmap(u, i, k, ok)
  BY <1>4, <1>5 DEF Fill
<1> HIDE DEF a, u
<1>7. k \in Shown(u.t) /\ u.t[k].parent = e /\ u.t[k].name = n /\ u.t[k] # NONE
  BY <1>1, <1>5 DEF Appears, Shown
<1>8. /\ Good(z) /\ z.r = u.r
      /\ \A l \in Ids : Like(z.t, u.t, l)
      /\ \A l \in Ids \ {k} : z.t[l] = u.t[l] /\ z.u[l] = u.u[l]
  BY <1>5, <1>6, CopyLike
<1>9. k \in Shown(z.t) /\ z.t[k].parent = e /\ z.t[k].name = n
  BY <1>3, <1>7, <1>8 DEF Like
<1>10. z.u[i] = v.u[i]
  BY <1>3, <1>5, <1>8
<1>11. \A j \in Ids \ {k} : Like(z.t, y.t, j)
  BY <1>3, <1>5, <1>8 DEF Like
<1>12. z.r \in Redises /\ z.r = a.r
  BY <1>4, <1>5, <1>8
<1>13. Crossed(z, y, i, k, to, e, n)
  BY <1>1, <1>3, <1>4, <1>9, <1>11, <1>12 DEF Crossed
<1>14. ASSUME Copies(ok), y.t[i].data # NONE
       PROVE  Copied(z, y, i, k)
  <2>1. u.t[i] = y.t[i] /\ y.t[i] # NONE
    BY <1>1, <1>3, <1>5 DEF Appears, Shown
  <2>2. u.t[i] # NONE /\ u.t[i].data # NONE
    BY <1>14, <2>1
  <2>3. z.failures = u.failures /\ z.t[k].data = u.t[i].data
    BY <1>3, <1>5, <1>6, <1>7, <1>14, <2>2, CopyCopies
  <2> QED BY <1>1, <1>5, <2>1, <2>3 DEF Copied
<1>15. Like(z.t, y.t, i) /\ z.r.meta[i] = y.r.meta[i]
  BY <1>1, <1>3, <1>4, <1>11, <1>12
<1> QED BY <1>8, <1>10, <1>13, <1>14, <1>15

\* The file i is hidden.
LEMMA HideCrosses ==
  ASSUME NEW y, Good(y), NEW i \in Ids, NEW to \in Paths, NEW e, NEW n, NEW k,
         NEW z, Good(z), Crossed(z, y, i, k, to, e, n), Like(z.t, y.t, i), i \in Shown(y.t), y.t[i].kind = "portal",
         NEW x, x = Hides(z, i)
  PROVE  Crossed(x, y, i, k, to, e, n)
<1>1. z \in Work /\ z.t \in Trees /\ z.r \in Redises
  BY WorkFacts DEF Good
<1>2. i \in Shown(z.t) /\ z.t[i].kind = "portal" /\ z.t[i] # NONE /\ Is_a(z.t, i, "portal")
  BY DEF Like, Is_a, Shown
<1>3. x.t = [z.t EXCEPT ![i].del = TRUE] /\ x.r = Del(z.r, {}, {i}, {}) /\ x.failures = z.failures
  BY <1>1, <1>2 DEF Hides, set_del_dlfileentry, Work
<1>4. x.t[i].del /\ \A j \in Ids \ {i} : x.t[j] = z.t[j]
  BY <1>1, <1>2, <1>3, TreeFacts DEF Trees, Rows
<1>5. /\ x.r \in Redises
      /\ \A p \in Paths : x.r.path[p] = z.r.path[p]
      /\ \A d \in Dirs : x.r.meta[d] = IF d \in {i} THEN NONE ELSE z.r.meta[d]
      /\ \A d \in Dirs : x.r.list[d] = z.r.list[d]
  BY <1>1, <1>3, DelFacts
<1>6. i \notin Shown(x.t) /\ \A j \in Ids \ {i} : Like(x.t, z.t, j)
  BY <1>4 DEF Shown, Like
<1>7. k \in Ids \ {i} /\ k \in Shown(z.t) /\ z.t[k].parent = e /\ z.t[k].name = n /\ k \notin Shown(y.t)
  BY DEF Crossed
<1>8. k \in Shown(x.t) /\ x.t[k].parent = e /\ x.t[k].name = n
  BY <1>4, <1>7 DEF Shown
<1>9. \A j \in Ids \ {i, k} : Like(x.t, y.t, j)
  BY <1>6 DEF Crossed, Like
<1>10. x.r.meta[i] = NONE /\ \A j \in Ids \ {i} : x.r.meta[j] = z.r.meta[j]
  BY <1>5, Ends
<1>11. /\ k # i
       /\ z.r.meta[k] = NONE \/ Is_a(y.t, k, "portal")
       /\ \A j \in Ids \ {i, k} : z.r.meta[j] = y.r.meta[j]
       /\ \A d \in Dirs : z.r.list[d] = {} \/ z.r.list[d] = y.r.list[d]
       /\ z.r.path[to] = k
       /\ \A q \in Paths \ {to} : z.r.path[q] = y.r.path[q]
  BY DEF Crossed
<1>12. /\ x.r.meta[k] = NONE \/ Is_a(y.t, k, "portal")
       /\ \A j \in Ids \ {i, k} : x.r.meta[j] = y.r.meta[j]
       /\ \A d \in Dirs : x.r.list[d] = {} \/ x.r.list[d] = y.r.list[d]
       /\ x.r.path[to] = k
       /\ \A q \in Paths \ {to} : x.r.path[q] = y.r.path[q]
  BY <1>5, <1>7, <1>10, <1>11
<1> QED BY <1>3, <1>5, <1>6, <1>7, <1>8, <1>9, <1>10, <1>12 DEF Crossed

\* A statement that fails is counted.
LEMMA HideCounts ==
  ASSUME NEW z, Good(z), NEW i, NEW x \in Hide(z, i)
  PROVE  /\ x.failures >= z.failures /\ x.failures \in Nat
         /\ x.failures = z.failures => x = Hides(z, i)
<1>1. z \in Work /\ z.failures \in Nat
  BY WorkFacts, NamespaceAssumption DEF Good
<1>2. CASE x = Hides(z, i)
  <2>1. x.failures = z.failures
    BY <1>1, <1>2 DEF Hides, set_del_dlfileentry, Work
  <2> QED BY <1>1, <1>2, <2>1
<1>3. CASE x = Forgetting(RolledBack(Failed(z)), {}, {i}, {})
  <2>1. x.failures = z.failures + 1
    BY <1>1, <1>3 DEF Forgetting, RolledBack, Failed, Work
  <2> QED BY <1>1, <2>1
<1> QED BY <1>1, <1>2, <1>3, HideIs

\* The row i is deleted.
LEMMA DeleteCrosses ==
  ASSUME NEW y, Good(y), NEW i \in Ids, NEW to \in Paths, NEW e, NEW n, NEW k,
         NEW z, Good(z), Crossed(z, y, i, k, to, e, n), Like(z.t, y.t, i), ~IsDir(y.t, i), e # i,
         NEW x \in psql_delete_file(z, i)
  PROVE  /\ x.failures >= z.failures /\ x.failures \in Nat
         /\ x.failures = z.failures => Crossed(x, y, i, k, to, e, n)
<1>1. z.t \in Trees /\ z.r \in Redises /\ Sound(z.t)
  BY WorkFacts DEF Good, Fits
<1>2. /\ x.failures >= z.failures /\ x.failures \in Nat
      /\ x.failures = z.failures => Gone(x.t, z.t, i)
      /\ x.r = Del(z.r, {}, {i}, {})
  BY DeleteFileGone
<1>3. ~IsDir(z.t, i)
  BY NamespaceAssumption DEF IsDir, Like
<1>4. \A j \in Shown(z.t) : z.t[j].parent # i
  BY <1>1, <1>3, NoChildren
<1>5. /\ x.r \in Redises
      /\ \A p \in Paths : x.r.path[p] = z.r.path[p]
      /\ \A d \in Dirs : x.r.meta[d] = IF d \in {i} THEN NONE ELSE z.r.meta[d]
      /\ \A d \in Dirs : x.r.list[d] = z.r.list[d]
  BY <1>1, <1>2, DelFacts
<1>6. ASSUME x.failures = z.failures
      PROVE  Crossed(x, y, i, k, to, e, n)
  <2>1. i \notin Shown(x.t) /\ \A j \in Ids \ {i} : Like(x.t, z.t, j)
    BY <1>2, <1>4, <1>6, GoneLike
  <2>2. k \in Ids \ {i} /\ k \in Shown(z.t) /\ z.t[k].parent = e /\ z.t[k].name = n /\ k \notin Shown(y.t)
    BY DEF Crossed
  <2>3. k \in Shown(x.t) /\ x.t[k].parent = e /\ x.t[k].name = n
    BY <2>1, <2>2 DEF Like
  <2>4. \A j \in Ids \ {i, k} : Like(x.t, y.t, j)
    BY <2>1 DEF Crossed, Like
  <2>5. x.r.meta[i] = NONE /\ \A j \in Ids \ {i} : x.r.meta[j] = z.r.meta[j]
    BY <1>5, Ends
  <2>6. /\ k # i
        /\ z.r.meta[k] = NONE \/ Is_a(y.t, k, "portal")
        /\ \A j \in Ids \ {i, k} : z.r.meta[j] = y.r.meta[j]
        /\ \A d \in Dirs : z.r.list[d] = {} \/ z.r.list[d] = y.r.list[d]
        /\ z.r.path[to] = k
        /\ \A q \in Paths \ {to} : z.r.path[q] = y.r.path[q]
    BY DEF Crossed
  <2>7. /\ x.r.meta[k] = NONE \/ Is_a(y.t, k, "portal")
        /\ \A j \in Ids \ {i, k} : x.r.meta[j] = y.r.meta[j]
        /\ \A d \in Dirs : x.r.list[d] = {} \/ x.r.list[d] = y.r.list[d]
        /\ x.r.path[to] = k
        /\ \A q \in Paths \ {to} : x.r.path[q] = y.r.path[q]
    BY <1>5, <2>2, <2>5, <2>6
  <2> QED BY <1>5, <2>1, <2>2, <2>3, <2>4, <2>5, <2>7 DEF Crossed
<1> QED BY <1>2, <1>6

\* The steps that lead there.
LEMMA CrossedSteps ==
  ASSUME Calm, NEW y, NEW i, NEW from, NEW d, NEW e, NEW n, NEW D, Renames(y, i, from, d, e, n, D),
         NEW to \in Paths, to # <<>>, e = At(tree, Front(to)), n = Last(to), At(tree, to) = NONE,
         NEW x, NEW k, Crossed(x, y, i, k, to, e, n), tree' = x.t, redis' = Forgotten(x.r, from, D)
  PROVE  Steps
<1> DEFINE X == {i, k}
<1>1. /\ y.t = tree /\ Looked(y.r) /\ from \in Paths /\ i \in Ids /\ i = At(tree, from)
      /\ tree[i].parent \in D /\ e \in D /\ y.r.list = redis.list
  BY DEF Renames, Looked
<1>2. /\ k \in Ids /\ k # i /\ k \notin Shown(tree) /\ k \in Shown(tree') /\ tree'[k].parent = e /\ tree'[k].name = n
      /\ i \notin Shown(tree') \/ Like(tree', tree, i)
      /\ x.r.meta[i] = NONE \/ (x.r.meta[i] = y.r.meta[i] /\ Like(tree', tree, i))
      /\ x.r.meta[k] = NONE \/ Is_a(tree, k, "portal")
      /\ x.r \in Redises
  BY <1>1 DEF Crossed
<1>3. /\ \A j \in Ids \ {i, k} : Like(tree', tree, j)
      /\ \A j \in Ids \ {i, k} : x.r.meta[j] = y.r.meta[j]
      /\ \A c \in Dirs : x.r.list[c] = {} \/ x.r.list[c] = redis.list[c]
      /\ x.r.path[to] = k
      /\ \A q \in Paths \ {to} : x.r.path[q] = y.r.path[q]
  BY <1>1 DEF Crossed
<1>4. /\ \A q \in Paths : redis'.path[q] = IF q = from THEN NONE ELSE x.r.path[q]
      /\ \A c \in Dirs : redis'.meta[c] = x.r.meta[c]
      /\ \A c \in Dirs : redis'.list[c] = IF c \in D THEN {} ELSE x.r.list[c]
  BY <1>2, ForgottenFacts
<1>5. \A j \in X : Lies(tree', j, D) /\ Lies(tree, j, D)
  BY <1>1, <1>2 DEF Lies, Like
<1>6. \A j \in Ids : MetaLeft(y.r, j)
  <2>1. \A j \in Ids \ {i, k} : MetaLeft(y.r, j)
    BY <1>3, <1>4, Ends DEF MetaLeft
  <2>2. MetaLeft(y.r, i)
    BY <1>1, <1>2, <1>4, Ends DEF MetaLeft
  <2>3. MetaLeft(y.r, k)
    <3>1. tree'[k] # tree[k]
      BY <1>2 DEF Shown
    <3> QED BY <1>2, <1>4, <3>1, Ends DEF MetaLeft
  <2> QED BY <2>1, <2>2, <2>3
<1>7. \A c \in Dirs : redis'.list[c] = {} \/ redis'.list[c] = redis.list[c]
  BY <1>3, <1>4
<1>8. \A c \in D \cap Dirs : redis'.list[c] = {}
  BY <1>4
<1>9. \A q \in Paths : PathLeft(y.r, X, q)
  <2>1. \A q \in Paths : q # from => At(tree, q) # i
    BY <1>1, CalmFacts, OnePath, NamespaceAssumption
  <2>2. \A q \in Paths : At(tree, q) # k
    BY <1>2, CalmFacts, AtFacts, NamespaceAssumption
  <2>3. PathLeft(y.r, X, from)
    BY <1>1, <1>4 DEF PathLeft
  <2>4. PathLeft(y.r, X, to)
    <3>1. to # from
      BY <1>1, NamespaceAssumption
    <3>2. Leads(tree, tree', k, to)
      BY <1>2 DEF Leads
    <3> QED BY <1>3, <1>4, <3>1, <3>2 DEF PathLeft
  <2>5. \A q \in Paths \ {from, to} : PathLeft(y.r, X, q)
    BY <1>3, <1>4, <2>1, <2>2 DEF PathLeft
  <2> QED BY <2>3, <2>4, <2>5
<1>10. X \in SUBSET Ids /\ \A j \in Ids \ X : Like(tree', tree, j)
  BY <1>1, <1>2, <1>3
<1> HIDE DEF X
<1> QED BY <1>1, <1>5, <1>6, <1>7, <1>8, <1>9, <1>10, Touches

\* Nothing is renamed: the name is taken.
LEMMA IdleSteps ==
  ASSUME Calm, NEW y, NEW i, NEW from, NEW d, NEW e, NEW n, NEW D, Renames(y, i, from, d, e, n, D),
         Finish(y, Forgotten(y.r, from, D))
  PROVE  Steps
<1>1. /\ Shifted(y.t, tree, i, D) /\ y.r \in Redises /\ failures \in Nat
      /\ y.t = tree /\ y.failures = failures /\ Looked(y.r) /\ from \in Paths /\ i \in Ids /\ i = At(tree, from)
      /\ tree[i].parent \in D
  BY RenamesShift DEF Renames
<1>2. tree' = tree /\ redis' = Forgotten(y.r, from, D)
  BY <1>1, FinishWell
<1> QED BY <1>1, <1>2, MovedEnds

\* So is a copy.
LEMMA FillCounts ==
  ASSUME NEW v, Good(v), NEW i, NEW to \in Paths, NEW ok, NEW z \in Fill(v, i, to, ok)
  PROVE  z.failures >= v.failures /\ z.failures \in Nat
<1> DEFINE u == FindPath(v, v.t, to)
<1>1. Good(u) /\ u.failures = v.failures
  BY FindGood
<1>2. z \in copy_mmap(u, i, u.id, ok)
  BY DEF Fill
<1> HIDE DEF u
<1> QED BY <1>1, <1>2, CopyLike

\* And what goes wrong before.
LEMMA RenameLostCounts ==
  ASSUME NEW y, Good(y), NEW i \in Ids, NEW m \in Metas, m.mode # "dir", NEW to \in Paths, NEW e, NEW n, NEW ok,
         NEW x \in RenameLost(y, i, m, to, e, n, ok)
  PROVE  x.failures > y.failures /\ x.failures \in Nat /\ y.failures \in Nat
<1>1. y \in Work /\ y.failures \in Nat
  BY WorkFacts, NamespaceAssumption DEF Good
<1>2. PICK f, v, z, w : LostFrom(f, v, z, w, y, i, m, to, e, n, ok) /\ x = RolledBack(w)
  BY <1>1, LostIs
<1>3. f \in Fail(y) /\ ShownAgain(v, f, y, m, e, n)
  BY <1>2 DEF LostFrom
<1>4. Good(v) /\ v.failures = y.failures + 1
  BY <1>3, LostBegins
<1>5. Good(z) /\ z.failures >= v.failures /\ z.failures \in Nat
  <2> DEFINE u == FindPath(v, Down, to)
  <2>1. Good(u) /\ u.failures = v.failures
    BY <1>4, FindGood
  <2>2. z = u \/ z \in copy_mmap(u, i, u.id, ok)
    BY <1>2 DEF LostFrom
  <2> HIDE DEF u
  <2> QED BY <1>1, <1>4, <2>1, <2>2, CopyLike
<1>6. w = z \/ w = Unlinks(z, i)
  BY <1>2 DEF LostFrom
<1>7. x.failures = z.failures
  BY <1>2, <1>5, <1>6 DEF Unlinks, RolledBack, Good, Work
<1> QED BY <1>1, <1>4, <1>5, <1>7

\* A temporary file becomes a file of the portal, or the other way round.
LEMMA RenameAcrossSteps ==
  ASSUME Calm, NEW y, NEW i, NEW from, NEW d, NEW e, NEW n, NEW D, Renames(y, i, from, d, e, n, D),
         NEW to \in Paths, to # <<>>, e = At(tree, Front(to)), n = Last(to), At(tree, to) = NONE,
         IsDir(tree, e), ~IsDir(tree, i), NEW m \in Metas, m.mode # "dir",
         NEW ok, NEW x \in RenameAcross(y, i, m, from, to, e, n, ok), Finish(x, Forgotten(x.r, from, D))
  PROVE  Steps
<1>1. /\ Good(y) /\ y.t = tree /\ y.failures = failures /\ Looked(y.r)
      /\ i \in Ids /\ i \in Shown(tree) /\ e \in Dirs /\ n \in Names /\ failures \in Nat /\ tree \in Trees
  BY CalmFacts DEF Renames
<1>2. CASE x = y
  BY <1>2, IdleSteps
<1>3. CASE x # y
  <2>1. PICK v, z : /\ \/ HiddenThere(y, e, n) = {} /\ v \in psql_create_file(y, to, e, n)
                       \/ \E h : h \in HiddenThere(y, e, n) /\ v = ShowsAs(y, h, m)
                    /\ z \in Fill(v, i, to, ok)
                    /\ \/ OfPortal(y.t, i) /\ x \in Hide(z, i)
                       \/ ~OfPortal(y.t, i) /\ z.id \in Ids /\ ~OfPortal(z.t, z.id) /\ x = z
                       \/ /\ ~OfPortal(y.t, i) /\ ~(z.id \in Ids /\ ~OfPortal(z.t, z.id))
                          /\ x \in psql_delete_file(z, i)
    BY <1>3, RenameAcrossIs
  <2>2. y.r.path[to] = NONE /\ y.r.path[Front(to)] = e /\ Named(tree, e, n) = {} /\ e # NONE
    <3>1. PathsRight(y.r, tree) /\ Front(to) \in Paths
      BY <1>1, PathFacts DEF Looked, Right
    <3>2. y.r.path[to] = NONE /\ y.r.path[Front(to)] = e
      BY <3>1 DEF PathsRight
    <3>3. Entry(tree, e, n) = NONE
      BY AtStep
    <3> QED BY <1>1, <3>2, <3>3, EntryFacts, Ends
  <2>3. /\ v.failures >= failures /\ v.failures \in Nat /\ Good(v)
        /\ v.failures = failures => \E k : Fresh(v, y, to, e, n, k)
    <3>1. CASE v \in psql_create_file(y, to, e, n)
      <4>1. IsDir(y.t, e) /\ Named(y.t, e, n) = {}
        BY <1>1, <2>2
      <4>2. /\ v.failures >= y.failures /\ v.failures \in Nat /\ Good(v)
            /\ v.failures = y.failures => \E k : Fresh(v, y, to, e, n, k)
        BY <1>1, <2>2, <3>1, <4>1, CreateFresh
      <4> QED BY <1>1, <4>2
    <3>2. CASE \E h : h \in HiddenThere(y, e, n) /\ v = ShowsAs(y, h, m)
      <4>1. PICK h : h \in HiddenThere(y, e, n) /\ v = ShowsAs(y, h, m)
        BY <3>2
      <4>2. h \in Hidden(y.t, e, n) /\ v = ShowsAs(y, h, m)
        BY <4>1 DEF HiddenThere
      <4>3. IsDir(y.t, e)
        BY <1>1
      <4>4. Fresh(v, y, to, e, n, h)
        BY <1>1, <2>2, <4>2, <4>3, ShowsFresh
      <4> QED BY <1>1, <4>4 DEF Fresh
    <3> QED BY <2>1, <3>1, <3>2
  <2>4. z \in Fill(v, i, to, ok)
    BY <2>1
  <2>5. ASSUME NEW k, Fresh(v, y, to, e, n, k)
        PROVE  Good(z) /\ Crossed(z, y, i, k, to, e, n) /\ Like(z.t, y.t, i)
    <3>1. /\ Good(y) /\ i \in Ids /\ i \in Shown(y.t) /\ e \in Dirs
          /\ y.r.path[Front(to)] = e /\ Named(y.t, e, n) = {}
      BY <1>1, <2>2
    <3>2. Good(z) /\ Crossed(z, y, i, k, to, e, n) /\ Like(z.t, y.t, i)
      BY <2>4, <2>5, <3>1, FillCrosses
    <3> QED BY <1>1, <3>2
  <2>6. z.failures >= v.failures /\ z.failures \in Nat /\ Good(z)
    BY <2>3, <2>4, FillCounts, FillGood
  <2>7. /\ x.failures >= z.failures /\ x.failures \in Nat
        /\ ~OfPortal(y.t, i) /\ x # z => x \in psql_delete_file(z, i)
        /\ OfPortal(y.t, i) /\ x.failures = z.failures => x = Hides(z, i)
    <3>1. CASE OfPortal(y.t, i) /\ x \in Hide(z, i)
      BY <2>6, <3>1, HideCounts
    <3>2. CASE x = z /\ ~OfPortal(y.t, i)
      BY <2>3, <2>6, <3>2
    <3>3. CASE ~OfPortal(y.t, i) /\ x \in psql_delete_file(z, i)
      BY <1>1, <2>6, <3>3, DeleteFileGone
    <3> QED BY <2>1, <3>1, <3>2, <3>3
  <2>8. tree' = x.t /\ redis' = Forgotten(x.r, from, D) /\ x.failures = failures
    BY <1>1, <2>3, <2>6, <2>7, FinishWell
  <2>9. v.failures = failures /\ x.failures = z.failures
    BY <1>1, <2>3, <2>6, <2>7, <2>8
  <2>10. PICK k : Fresh(v, y, to, e, n, k)
    BY <2>3, <2>9
  <2>11. /\ Good(z) /\ Crossed(z, y, i, k, to, e, n) /\ Like(z.t, y.t, i)
    BY <2>5, <2>10
  <2>12. Crossed(x, y, i, k, to, e, n)
    <3>1. CASE OfPortal(y.t, i)
      <4>1. y.t[i].kind = "portal" /\ i \in Shown(y.t)
        BY <1>1, <3>1, NamespaceAssumption DEF OfPortal, IsDir, Portal
      <4> QED BY <1>1, <2>7, <2>9, <2>11, <3>1, <4>1, HideCrosses
    <3>2. CASE x = z
      BY <2>11, <3>2
    <3>3. CASE x \in psql_delete_file(z, i)
      <4>1. ~IsDir(y.t, i) /\ e # i
        BY <1>1
      <4> QED BY <1>1, <2>9, <2>11, <3>3, <4>1, DeleteCrosses
    <3> QED BY <2>7, <3>1, <3>2, <3>3
  <2> QED BY <2>8, <2>12, CrossedSteps
<1> QED BY <1>2, <1>3

-------------------------------------------------------------------------------
(* Renames onto a file there is.                                             *)

\* DEL of the attributes of i and of j.
Unread2(y, i, j) == Forgetting(y, {}, {i, j}, {})

LEMMA Unread2Facts ==
  ASSUME NEW s, Good(s), NEW i, NEW j, NEW x, x = Unread2(s, i, j)
  PROVE  /\ Good(x) /\ x.t = s.t /\ x.failures = s.failures
         /\ x.r \in Redises /\ x.r.path = s.r.path /\ x.r.list = s.r.list
         /\ \A d \in Dirs : x.r.meta[d] = IF d = i \/ d = j THEN NONE ELSE s.r.meta[d]
<1>1. s.r \in Redises
  BY WorkFacts DEF Good
<1>2. /\ Good(x) /\ x.t = s.t /\ x.failures = s.failures /\ x.r = Del(s.r, {}, {i, j}, {})
  BY Forgets DEF Unread2
<1>3. /\ x.r \in Redises
      /\ \A p \in Paths : x.r.path[p] = s.r.path[p]
      /\ \A d \in Dirs : x.r.meta[d] = IF d \in {i, j} THEN NONE ELSE s.r.meta[d]
      /\ \A d \in Dirs : x.r.list[d] = s.r.list[d]
  BY <1>1, <1>2, DelFacts
<1>4. x.r.path = s.r.path
  BY <1>1, <1>3 DEF Redises
<1>5. x.r.list = s.r.list
  BY <1>1, <1>3 DEF Redises
<1> QED BY <1>2, <1>3, <1>4, <1>5

\* What Replace starts from: i at from goes onto j at to.
Replaces(s, i, j, from, to) ==
  /\ Good(s) /\ s.t = tree /\ s.u = tree /\ s.failures = failures /\ Looked(s.r)
  /\ from \in Paths /\ i \in Ids /\ i \in Shown(tree) /\ i = At(tree, from) /\ ~IsDir(tree, i)
  /\ to \in Paths /\ to # <<>> /\ j \in Ids /\ j \in Shown(tree) /\ j = At(tree, to) /\ ~IsDir(tree, j)
  /\ i # j

\* The data of i goes to j, and i goes or is hidden.
LEMMA CopiedSteps ==
  ASSUME Calm, NEW s, NEW i, NEW j, NEW from, NEW to, Replaces(s, i, j, from, to),
         NEW y, Good(y), y.failures = failures, i \notin Shown(y.t), \A l \in Ids \ {i} : Like(y.t, tree, l),
         y.r.path = s.r.path, y.r.list = s.r.list, \A l \in Ids \ {i} : y.r.meta[l] = s.r.meta[l],
         NEW x, x = Unread2(y, i, j), NEW D, D = {tree[i].parent}, Finish(x, Forgotten(x.r, from, D))
  PROVE  Steps
<1>1. /\ Looked(s.r) /\ from \in Paths /\ i \in Ids /\ i = At(tree, from) /\ failures \in Nat /\ s.r.list = redis.list
      /\ tree[i].parent \in D
  BY CalmFacts DEF Replaces, Looked
<1>2. /\ x.t = y.t /\ x.failures = failures /\ x.r \in Redises /\ x.r.path = y.r.path /\ x.r.list = y.r.list
      /\ \A d \in Dirs : x.r.meta[d] = IF d = i \/ d = j THEN NONE ELSE y.r.meta[d]
  BY Unread2Facts
<1>3. tree' = y.t /\ redis' = Forgotten(x.r, from, D)
  BY <1>1, <1>2, FinishWell
<1>4. /\ \A q \in Paths : redis'.path[q] = IF q = from THEN NONE ELSE s.r.path[q]
      /\ \A d \in Dirs : redis'.meta[d] = x.r.meta[d]
      /\ \A d \in Dirs : redis'.list[d] = IF d \in D THEN {} ELSE redis.list[d]
  BY <1>1, <1>2, <1>3, ForgottenFacts
<1>5. Lies(tree', i, D) /\ \A l \in Ids \ {i} : Like(tree', tree, l)
  BY <1>3 DEF Lies
<1>6. \A l \in Ids : MetaLeft(s.r, l)
  BY <1>2, <1>4, <1>5, Ends DEF MetaLeft
<1> QED BY <1>1, <1>4, <1>5, <1>6, MovedSteps

\* The file that was copied is deleted.
LEMMA ReplacedGoes ==
  ASSUME NEW c, Good(c), NEW i \in Ids, i \in Shown(c.t), ~IsDir(c.t, i), ~OfPortal(c.t, i),
         NEW y, y = DeleteRow(c, i)
  PROVE  /\ Good(y) /\ y.failures = c.failures /\ i \notin Shown(y.t) /\ \A l \in Ids \ {i} : Like(y.t, c.t, l)
         /\ y.r = c.r
<1>1. c \in Work /\ c.t \in Trees /\ c.t[i] # NONE
  BY WorkFacts DEF Good, Shown
<1>2. y = WithTree(c, Put(c.t, i, NONE))
  BY <1>1 DEF DeleteRow, OfPortal, WithTree, Put
<1>3. y.t = Put(c.t, i, NONE) /\ y.r = c.r /\ y.failures = c.failures
  BY <1>1, <1>2 DEF WithTree, Work
<1>4. y.t[i] = NONE /\ \A l \in Ids \ {i} : y.t[l] = c.t[l]
  BY <1>1, <1>3 DEF Put, Trees
<1>5. Good(y)
  BY DeleteRowGood
<1> QED BY <1>3, <1>4, <1>5, LikeItself DEF Shown

\* Both are files of the portal: j goes, and the portal is asked to move i to
\* the directory of j.
LEMMA BothSteps ==
  ASSUME Calm, NEW s, NEW i, NEW j, NEW from, NEW to, Replaces(s, i, j, from, to), Replaced(to),
         NEW z, Called(z, s, Drop(s.t, j), Drop(s.u, j)),
         NEW e, e = tree[j].parent,
         NEW y, Called(y, z, Move(z.t, i, "portal", e), Move(z.u, i, "portal", e)),
         NEW x, x = Unread2(y, i, j), NEW D, D = {tree[i].parent}, Finish(x, Forgotten(x.r, from, D))
  PROVE  Steps
<1> DEFINE E == {tree[i].parent, e}
           X == {i, j}
<1>1. /\ Good(s) /\ s.t = tree /\ s.u = tree /\ s.failures = failures /\ Looked(s.r)
      /\ from \in Paths /\ i \in Ids /\ i = At(tree, from) /\ i \in Shown(tree)
      /\ to \in Paths /\ to # <<>> /\ j \in Ids /\ j = At(tree, to) /\ j \in Shown(tree) /\ ~IsDir(tree, j)
      /\ i # j /\ failures \in Nat /\ tree \in Trees /\ s.r.list = redis.list
  BY CalmFacts DEF Replaces, Looked
<1>2. /\ \A l \in Shown(tree) : tree[l].parent # j
  BY <1>1, CalmFacts, NoChildren DEF Fits
<1>3. s \in Work
  BY <1>1 DEF Good
<1>4. Good(z) /\ z.r = s.r
  <2>1. ~IsDir(s.t, j)
    BY <1>1
  <2> QED BY <1>1, <2>1, DropGood
<1>5. /\ z.failures >= failures /\ z.failures \in Nat
      /\ z.failures = failures => z.t = Drop(tree, j)
  BY <1>1, <1>3, CallCounts
<1>6. z \in Work /\ z.t \in Trees /\ z.u \in Trees /\ Fits(z.t) /\ Fits(z.u)
  BY <1>4, WorkFacts DEF Good
<1>7. /\ y.failures >= z.failures /\ y.failures \in Nat /\ y.r = s.r
      /\ y.failures = z.failures => y.t = Move(z.t, i, "portal", e)
  BY <1>4, <1>6, CallCounts
<1>8. Good(y)
  <2>1. Tame(Move(z.t, i, "portal", e), z.t) /\ Tame(Move(z.u, i, "portal", e), z.u)
    BY <1>6, MoveTame
  <2> QED BY <1>4, <2>1, TameCall
<1>9. /\ x.t = y.t /\ x.failures = y.failures /\ x.r \in Redises /\ x.r.path = y.r.path /\ x.r.list = y.r.list
      /\ \A d \in Dirs : x.r.meta[d] = IF d = i \/ d = j THEN NONE ELSE y.r.meta[d]
  BY <1>8, Unread2Facts
<1>10. tree' = y.t /\ redis' = Forgotten(x.r, from, D) /\ y.failures = failures
  BY <1>1, <1>5, <1>7, <1>9, FinishWell
<1>11. z.t = Drop(tree, j) /\ y.t = Move(z.t, i, "portal", e)
  BY <1>1, <1>5, <1>7, <1>10
<1>12. Gone(z.t, tree, j)
  BY <1>1, <1>11, DropGone
<1>13. j \notin Shown(z.t) /\ \A l \in Ids \ {j} : Like(z.t, tree, l)
  BY <1>1, <1>2, <1>12, GoneLike
<1>14. z.t[i] = tree[i]
  BY <1>1, <1>2, <1>12 DEF Gone
<1>15. e \in Dirs /\ e \in E /\ tree[i].parent \in E
  BY <1>1, TreeFacts DEF Shown
<1>16. Shifted(y.t, z.t, i, E)
  <2>1. Shifted(z.t, z.t, i, E)
    BY <1>1, <1>14, <1>15 DEF Shifted, Shown
  <2> HIDE DEF E
  <2> QED BY <1>1, <1>6, <1>11, <1>15, <2>1, MoveShifts
<1>17. /\ tree'[i].parent \in E /\ j \notin Shown(tree')
       /\ \A l \in Ids \ {i, j} : Like(tree', tree, l)
  BY <1>1, <1>10, <1>13, <1>16 DEF Shifted, Like, Shown
<1>18. /\ \A q \in Paths : redis'.path[q] = IF q = from THEN NONE ELSE s.r.path[q]
       /\ \A d \in Dirs : redis'.meta[d] = IF d = i \/ d = j THEN NONE ELSE s.r.meta[d]
       /\ \A d \in Dirs : redis'.list[d] = IF d \in D THEN {} ELSE redis.list[d]
  BY <1>1, <1>7, <1>9, <1>10, ForgottenFacts
<1>19. \A l \in X : Lies(tree', l, E) /\ Lies(tree, l, E)
  BY <1>15, <1>17 DEF Lies
<1>20. \A l \in Ids : MetaLeft(s.r, l)
  BY <1>17, <1>18, Ends DEF MetaLeft
<1>21. \A d \in Dirs : redis'.list[d] = {} \/ redis'.list[d] = redis.list[d]
  BY <1>18
<1>22. ReplacedIn(e)
  BY <1>1, AtFacts, Ends DEF ReplacedIn
<1>23. \A d \in E \cap Dirs : redis'.list[d] = {} \/ ReplacedIn(d)
  BY <1>18, <1>22
<1>24. \A q \in Paths : PathLeft(s.r, X, q)
  <2>1. \A q \in Paths : (q # from => At(tree, q) # i) /\ (q # to => At(tree, q) # j)
    BY <1>1, CalmFacts, OnePath, NamespaceAssumption
  <2> QED BY <1>18, <2>1 DEF PathLeft
<1>25. X \in SUBSET Ids /\ \A l \in Ids \ X : Like(tree', tree, l)
  BY <1>1, <1>17
<1> HIDE DEF X, E
<1> QED BY <1>1, <1>19, <1>20, <1>21, <1>23, <1>24, <1>25, Touches

\* A file is renamed onto another.
LEMMA ReplaceSteps ==
  ASSUME Calm, NEW s, NEW i, NEW j, NEW from, NEW to, Replaces(s, i, j, from, to),
         Is_a(tree, j, "portal") => Replaced(to),
         NEW m, m.parent = tree[j].parent, NEW ok, NEW x \in Replace(s, i, j, m, ok),
         NEW D, D = {tree[i].parent}, Finish(x, Forgotten(x.r, from, D))
  PROVE  Steps
<1>1. /\ Good(s) /\ s.t = tree /\ s.failures = failures /\ i \in Ids /\ i \in Shown(tree) /\ ~IsDir(tree, i)
      /\ j \in Ids /\ j \in Shown(tree) /\ ~IsDir(tree, j) /\ failures \in Nat
  BY CalmFacts DEF Replaces
<1>2. PICK y : /\ x = Forgetting(y, {}, {i, j}, {})
               /\ \/ OfPortal(s.t, i) /\ OfPortal(s.t, j) /\ Moved(y, s, i, j, m.parent)
                  \/ ~OfPortal(s.t, i) /\ ~OfPortal(s.t, j) /\ CopiedOver(y, s, i, j, ok)
  BY ReplaceIs
<1>3. x = Unread2(y, i, j)
  BY <1>2 DEF Unread2
<1>4. CASE ~OfPortal(s.t, i) /\ CopiedOver(y, s, i, j, ok)
  <2>1. PICK c \in copy_mmap(s, i, j, ok) : y = DeleteRow(c, i)
    BY <1>4 DEF CopiedOver
  <2>2. /\ Good(c) /\ c.r = s.r /\ c.failures >= s.failures /\ c.failures \in Nat
        /\ \A l \in Ids : Like(c.t, s.t, l)
    BY <1>1, <2>1, CopyLike
  <2>3. i \in Shown(c.t) /\ ~IsDir(c.t, i) /\ ~OfPortal(c.t, i)
    BY <1>1, <1>4, <2>2, NamespaceAssumption DEF Like, IsDir, OfPortal, Shown
  <2>4. /\ Good(y) /\ y.failures = c.failures /\ i \notin Shown(y.t) /\ \A l \in Ids \ {i} : Like(y.t, c.t, l)
        /\ y.r = c.r
    BY <1>1, <2>1, <2>2, <2>3, ReplacedGoes
  <2>5. x.failures = y.failures
    BY <1>3, <2>4, Unread2Facts
  <2>6. y.failures = failures
    BY <1>1, <2>2, <2>4, <2>5, FinishWell
  <2>7. /\ \A l \in Ids \ {i} : Like(y.t, tree, l)
        /\ y.r.path = s.r.path /\ y.r.list = s.r.list
        /\ \A l \in Ids \ {i} : y.r.meta[l] = s.r.meta[l]
    BY <1>1, <2>2, <2>4 DEF Like
  <2>8. Good(y) /\ i \notin Shown(y.t)
    BY <2>4
  <2> QED BY <1>3, <2>6, <2>7, <2>8, CopiedSteps
<1>5. CASE OfPortal(s.t, j) /\ Moved(y, s, i, j, m.parent)
  <2>1. Replaced(to)
    BY <1>1, <1>5, NamespaceAssumption DEF OfPortal, Is_a, IsDir, Portal
  <2>2. PICK z : /\ Called(z, s, Drop(s.t, j), Drop(s.u, j))
                 /\ Called(y, z, Move(z.t, i, "portal", m.parent), Move(z.u, i, "portal", m.parent))
    BY <1>5 DEF Moved
  <2> QED BY <1>3, <2>1, <2>2, BothSteps
<1> QED BY <1>2, <1>4, <1>5

\* A rename that is refused when the data has been written.
LEMMA ReplaceFailsSteps ==
  ASSUME Calm, NEW r, Looked(r), Good(Start(r)), NEW i, NEW j, NEW from_m, NEW ok,
         NEW x \in ReplaceFails(Start(r), i, j, from_m, ok), Refuse(x)
  PROVE  Steps
<1> DEFINE s == Start(r)
<1>1. s.t = tree /\ s.u = tree /\ s.r = r /\ s.failures = failures /\ failures \in Nat /\ failures' = failures
  BY CalmFacts DEF Start
<1>2. PICK c \in copy_mmap(s, i, j, ok) : x = c \/ x \in Fail([c EXCEPT !.r = SetMeta(@, j, from_m)])
  BY ReplaceFailsIs
<1> HIDE DEF s
<1>3. /\ Good(c) /\ c.r = s.r /\ c.failures >= s.failures /\ c.failures \in Nat
      /\ \A l \in Ids : Like(c.u, s.u, l)
  BY <1>2, CopyLike DEF s
<1>4. x = c
  <2>1. SUFFICES ASSUME x \in Fail([c EXCEPT !.r = SetMeta(@, j, from_m)])
                 PROVE  FALSE
    BY <1>2
  <2>2. x.failures = c.failures + 1
    BY <1>3, <2>1 DEF Fail, Good, Work
  <2>3. failures' = x.failures
    BY DEF Refuse
  <2>4. c.failures >= failures /\ c.failures \in Nat
    BY <1>1, <1>3
  <2> QED BY <1>1, <2>2, <2>3, <2>4
<1>5. tree' = c.u /\ redis' = r
  BY <1>1, <1>3, <1>4 DEF Refuse
<1>6. \A l \in Ids : Like(tree', tree, l)
  BY <1>1, <1>3, <1>5
<1>7. r.list = redis.list
  BY DEF Looked
<1>8. \A l \in Ids : MetaLeft(r, l)
  BY <1>5, <1>6 DEF MetaLeft
<1>9. \A q \in Paths : PathLeft(r, {}, q)
  BY <1>5 DEF PathLeft
<1> QED BY <1>5, <1>6, <1>7, <1>8, <1>9, Touches

-------------------------------------------------------------------------------
(* Renames, and the theorems.                                                *)

\* psql_rename, where there is nothing at the destination.
LEMMA PsqlRenameSteps ==
  ASSUME Calm, NEW r, Looked(r), NEW from \in Paths, Within(tree, from), NEW i \in Ids, i = At(tree, from),
         NEW to \in Paths, to # <<>>, At(tree, to) = NONE,
         NEW d, d = tree[i].parent, NEW e, e = At(tree, Front(to)), IsDir(tree, e),
         NEW ok, NEW x \in psql_rename(Start(r), i, d, e, from, to, ok),
         NEW D, d \in D, e \in D, Finish(x, Forgotten(x.r, from, D))
  PROVE  Steps
<1> DEFINE m == psql_read_meta_from_path(r, tree, from)
           s == Start(r)
           y == WithRedis(s, m.r)
           n == Last(to)
<1>1. s.t = tree /\ s.u = tree /\ s.r = r /\ s.unused = unused /\ s.failures = failures
  BY DEF Start
<1>2. Good(s)
  BY CalmFacts, StartGood DEF Looked
<1>3. /\ Looked(m.r) /\ m.id = i /\ i \in Shown(tree) /\ m.meta = Attributes(tree, i)
      /\ Is(m, "dir") <=> IsDir(tree, i)
  BY LooksRight DEF Finds
<1>4. d \in Dirs /\ e \in Dirs /\ n \in Names /\ m.meta \in Metas /\ m.meta # NONE
  BY <1>3, CalmFacts, TreeFacts, DirFacts, PathFacts, AttributesFacts DEF Shown, Fits
<1>5. m = psql_read_meta_from_path(s.r, s.t, from)
  BY <1>1
<1> HIDE DEF m, s
<1>6. /\ Good(y) /\ y.t = s.t /\ y.u = s.u /\ y.r = m.r /\ y.unused = s.unused
      /\ y.failures = s.failures /\ y.id = s.id
      /\ \/ m.meta = NONE /\ x = y
         \/ Is(m, "dir") /\ x \in RenameDir(y, i, d, e, n)
         \/ /\ m.meta # NONE /\ ~Is(m, "dir") /\ ~OfPortal(s.t, i) /\ n \in TempNames
            /\ x \in RenameTemp(y, i, d, e, n)
         \/ /\ m.meta # NONE /\ ~Is(m, "dir") /\ OfPortal(s.t, i) /\ n \notin TempNames
            /\ x \in RenamePortal(y, i, d, e, n)
         \/ /\ m.meta \in Metas /\ m.meta.mode # "dir" /\ (OfPortal(s.t, i) <=> n \in TempNames)
            /\ x \in RenameAcross(y, i, m.meta, from, to, e, n, ok)
         \/ /\ m.meta \in Metas /\ m.meta.mode # "dir" /\ ~OfPortal(s.t, i) /\ n \notin TempNames
            /\ x \in RenameLost(y, i, m.meta, to, e, n, ok)
  <2>1. x \in psql_rename(s, i, d, e, from, to, ok)
    BY DEF s
  <2> QED BY <1>2, <1>5, <2>1, PsqlRenameIs
<1> HIDE DEF y
<1>7. Renames(y, i, from, d, e, n, D)
  BY <1>1, <1>3, <1>4, <1>6 DEF Renames
<1> HIDE DEF n
<1>8. CASE x \in RenameDir(y, i, d, e, n)
  BY <1>7, <1>8, RenameDirSteps
<1>9. CASE x \in RenameTemp(y, i, d, e, n)
  BY <1>7, <1>9, RenameTempSteps
<1>10. CASE ~Is(m, "dir") /\ OfPortal(s.t, i) /\ x \in RenamePortal(y, i, d, e, n)
  <2>1. Is_a(tree, i, "portal")
    BY <1>1, <1>3, <1>10, NamespaceAssumption DEF OfPortal, Is_a, IsDir, Portal
  <2> QED BY <1>7, <1>10, <2>1, RenamePortalSteps
<1>11. CASE m.meta \in Metas /\ m.meta.mode # "dir" /\ x \in RenameAcross(y, i, m.meta, from, to, e, n, ok)
  <2>1. ~IsDir(tree, i)
    BY <1>3, <1>4, <1>11 DEF Is
  <2>2. n = Last(to)
    BY DEF n
  <2> QED BY <1>7, <1>11, <2>1, <2>2, RenameAcrossSteps
<1>12. CASE m.meta \in Metas /\ m.meta.mode # "dir" /\ x \in RenameLost(y, i, m.meta, to, e, n, ok)
  <2>1. Good(y) /\ y.failures = failures /\ i \in Ids
    BY <1>1, <1>3, <1>6 DEF Shown
  <2>2. x.failures > failures /\ x.failures \in Nat /\ failures \in Nat
    BY <1>12, <2>1, RenameLostCounts
  <2> QED BY <2>2, FinishWell
<1> QED BY <1>4, <1>6, <1>8, <1>9, <1>10, <1>11, <1>12

\* rename, as a whole.
LEMMA RenameSteps ==
  ASSUME Calm, NEW from \in Paths, NEW to \in Paths, NEW ok, RenameTo(from, to, ok), Rename(from, to)
  PROVE  Steps
<1> DEFINE f == psql_read_meta_from_path(redis, tree, from)
           g == psql_read_meta_from_path(f.r, tree, to)
           m == psql_read_meta_from_path(g.r, tree, Front(to))
           there == g.meta # NONE /\ g.id # Root
<1>1. /\ Known(from) /\ Known(to) /\ from # to
  <2>1. Found(from) /\ Known(to) /\ ~IsPrefix(from, to)
    BY DEF RenameTo, Allowed
  <2>2. IsPrefix(from, from)
    BY NamespaceAssumption DEF IsPrefix
  <2> QED BY <2>1, <2>2 DEF Found
<1>2. /\ Within(tree, from) /\ from # <<>> /\ Within(tree, to) /\ to # <<>>
      /\ Within(tree, Front(to)) /\ Front(to) \in Paths
  BY <1>1, KnownWithin, ParentWithin
<1>3. /\ Looked(f.r) /\ f.id = At(tree, from) /\ f.id \in Dirs \cup {NONE}
      /\ f.meta # NONE <=> f.id # NONE
      /\ f.id \in Ids => f.id \in Shown(tree) /\ f.meta = Attributes(tree, f.id)
      /\ Is(f, "dir") <=> IsDir(tree, f.id)
  BY SMTT(30), <1>2, StartLooked, LooksRight DEF Finds
<1> HIDE DEF f
<1>4. /\ Looked(g.r) /\ Good(Start(g.r)) /\ g.id = At(tree, to) /\ g.id \in Dirs \cup {NONE}
      /\ g.meta # NONE <=> g.id # NONE
      /\ g.id \in Ids => g.id \in Shown(tree) /\ g.meta = Attributes(tree, g.id)
      /\ Is(g, "dir") <=> IsDir(tree, g.id)
  BY SMTT(30), <1>2, <1>3, LooksRight DEF Finds
<1> HIDE DEF g
<1>5. /\ Looked(m.r) /\ m.id = At(tree, Front(to))
      /\ Is(m, "dir") <=> IsDir(tree, m.id)
  BY SMTT(30), <1>2, <1>4, LooksRight DEF Finds
<1> DEFINE i == f.id
           j == g.id
<1>6. /\ i # NONE => i \in Ids
      /\ j # NONE => j \in Ids
  BY <1>2, <1>3, <1>4, CalmFacts, AtFacts DEF Dirs
<1>7. /\ i \in Ids => f.meta.parent = tree[i].parent
      /\ j \in Ids => g.meta.parent = tree[j].parent
  BY <1>3, <1>4, NamespaceAssumption DEF Attributes
<1>8. i \in Ids => i # j
  BY <1>1, <1>3, <1>4, CalmFacts, OnePath, NamespaceAssumption
<1>9. \/ Refuse(Start(f.r)) \/ Refuse(Start(g.r)) \/ Refuse(Start(m.r))
      \/ /\ f.meta # NONE /\ ~Is(f, "dir")
         /\ there /\ Is(g, "reg")
         /\ \/ \E s \in Replace(Start(g.r), f.id, g.id, g.meta, ok) :
                Finish(s, Forgotten(s.r, from, {f.meta.parent}))
            \/ \E s \in ReplaceFails(Start(g.r), f.id, g.id, f.meta, ok) : Refuse(s)
      \/ /\ f.meta # NONE /\ ~there /\ Is(m, "dir")
         /\ \E s \in psql_rename(Start(m.r), f.id, f.meta.parent, m.id, from, to, ok) :
              Finish(s, Forgotten(s.r, from, {m.id, f.meta.parent}))
  BY DEF RenameTo, f, g, Forgotten
<1> HIDE DEF m
<1>10. CASE Refuse(Start(f.r)) \/ Refuse(Start(g.r)) \/ Refuse(Start(m.r))
  BY <1>3, <1>4, <1>5, <1>10, RefuseSteps
<1>11. CASE /\ f.meta # NONE /\ ~Is(f, "dir") /\ there /\ Is(g, "reg")
            /\ \E s \in Replace(Start(g.r), f.id, g.id, g.meta, ok) :
                 Finish(s, Forgotten(s.r, from, {f.meta.parent}))
  <2>1. PICK s \in Replace(Start(g.r), i, j, g.meta, ok) :
                 Finish(s, Forgotten(s.r, from, {f.meta.parent}))
    BY <1>11
  <2>2. i \in Ids /\ j \in Ids /\ ~IsDir(tree, i) /\ ~IsDir(tree, j)
    BY <1>3, <1>4, <1>6, <1>11 DEF Is
  <2>3. Start(g.r).t = tree /\ Start(g.r).u = tree /\ Start(g.r).r = g.r /\ Start(g.r).failures = failures
    BY DEF Start
  <2>4. Replaces(Start(g.r), i, j, from, to)
    BY <1>2, <1>3, <1>4, <1>8, <2>2, <2>3 DEF Replaces
  <2>5. Is_a(tree, j, "portal") => Replaced(to)
    BY <1>4, NamespaceAssumption DEF Is_a, Replaced
  <2> DEFINE D == {f.meta.parent}
  <2>6. D = {tree[i].parent} /\ Finish(s, Forgotten(s.r, from, D)) /\ g.meta.parent = tree[j].parent
    BY <1>7, <2>1, <2>2
  <2> HIDE DEF D
  <2> QED BY <2>1, <2>4, <2>5, <2>6, ReplaceSteps
<1>12. CASE \E s \in ReplaceFails(Start(g.r), f.id, g.id, f.meta, ok) : Refuse(s)
  <2>1. PICK s \in ReplaceFails(Start(g.r), f.id, g.id, f.meta, ok) : Refuse(s)
    BY <1>12
  <2> QED BY <1>4, <2>1, ReplaceFailsSteps
<1>13. CASE /\ f.meta # NONE /\ ~there /\ Is(m, "dir")
            /\ \E s \in psql_rename(Start(m.r), f.id, f.meta.parent, m.id, from, to, ok) :
                 Finish(s, Forgotten(s.r, from, {m.id, f.meta.parent}))
  <2> DEFINE d == f.meta.parent
             e == m.id
             q == m.r
             D == {e, d}
  <2>1. PICK s \in psql_rename(Start(q), i, d, e, from, to, ok) : Finish(s, Forgotten(s.r, from, D))
    BY <1>13
  <2>2. i \in Ids
    BY <1>3, <1>6, <1>13
  <2>3. At(tree, to) = NONE
    BY <1>4, <1>6, <1>13, NamespaceAssumption
  <2>4. d = tree[i].parent /\ d \in D /\ e \in D
    BY <1>7, <2>2
  <2>5. /\ Looked(q) /\ Within(tree, from) /\ i = At(tree, from) /\ to # <<>>
        /\ e = At(tree, Front(to)) /\ IsDir(tree, e)
    BY <1>2, <1>3, <1>5, <1>13
  <2> HIDE DEF D, i, d, e, q
  <2> QED BY ZenonT(60), <2>1, <2>2, <2>3, <2>4, <2>5, PsqlRenameSteps
<1> QED BY <1>9, <1>10, <1>11, <1>12, <1>13

\* Every calm step is right about paths, listings and attributes.
LEMMA NextSteps == OInv /\ [Next]_vars /\ Untroubled => Steps
<1> SUFFICES ASSUME OInv, [Next]_vars, Untroubled
             PROVE  Steps
  OBVIOUS
<1>1. RInv /\ Sole(tree)
  BY DEF OInv
<1>2. tree' \in Trees
  BY <1>1, NextInv DEF RInv, TypeOK
<1>3. Calm
  BY <1>1, <1>2 DEF Calm
<1>4. CASE UNCHANGED vars
  BY <1>3, <1>4, StartLooked, TreeStays DEF vars
<1>5. ASSUME NEW p \in Paths,
             \/ Getattr(p) \/ GetattrFails(p) \/ Opendir(p) \/ Create(p)
             \/ Mkdir(p) \/ Symlink(p) \/ Unlink(p) \/ Rmdir(p)
      PROVE  Steps
  BY <1>1, <1>3, <1>5, GetattrSteps, GetattrFailsSteps, OpendirSteps, CreateSteps, MkdirSteps, SymlinkSteps,
     UnlinkSteps, RmdirSteps
<1>6. ASSUME NEW d \in Dirs, Readdir(d)
      PROVE  Steps
  BY <1>3, <1>6, ReaddirSteps
<1>7. ASSUME NEW from \in Paths, NEW to \in Paths, Rename(from, to)
      PROVE  Steps
  BY <1>3, <1>7, RenameSteps DEF Rename
<1> QED BY <1>4, <1>5, <1>6, <1>7 DEF Next, NamespaceNext

\* Keys of paths stay right: where nothing goes wrong each request deletes or
\* sets the key of the path that was made, removed or renamed (pgfuse.c,
\* pgfuse_rename, pgfuse_unlink; pgsql.c, psql_create_file).
THEOREM PathKeysStayTrue == Spec => PathsStayTrue
<1> DEFINE A == \A p \in Paths :
       StalePath(p)' /\ Untroubled =>
         \/ \E n \in 1 .. Len(p) - 1 : At(tree, SubSeq(p, 1, n)) # At(tree', SubSeq(p, 1, n))
         \/ Replaced(p)
<1>1. OInv /\ [Next]_vars => A
  BY NextSteps DEF Steps, PathStep
<1>2. OInv /\ OInv' /\ [Next]_vars => [A]_vars
  BY <1>1
<1> HIDE DEF A
<1>3. Spec => [][A]_vars
  BY <1>2, InitOnce, NextOnce, PTL DEF Spec
<1> QED BY <1>3 DEF PathsStayTrue, A

\* Listings stay complete: each handler deletes those of the directories it
\* changes (pgfuse.c, pgfuse_create, pgfuse_mkdir, pgfuse_rename).
THEOREM ListingsStayTrue == Spec => ListsStayTrue
<1> DEFINE A == \A d \in Dirs :
       StaleList(d)' /\ ~StaleList(d) /\ Untroubled =>
         \/ \E i \in Ids : tree[i] = NONE /\ Is_a(tree', i, "link") /\ tree'[i].parent = d
         \/ \E p \in Paths : p # <<>> /\ At(tree, Front(p)) = d /\ Replaced(p)
<1>1. OInv /\ [Next]_vars => A
  BY NextSteps DEF Steps, ListStep
<1>2. OInv /\ OInv' /\ [Next]_vars => [A]_vars
  BY <1>1
<1> HIDE DEF A
<1>3. Spec => [][A]_vars
  BY <1>2, InitOnce, NextOnce, PTL DEF Spec
<1> QED BY <1>3 DEF ListsStayTrue, A

\* Attributes of an entry that was moved go from Redis, but those of a file of
\* the portal (pgsql.c, psql_rename).
THEOREM AttributesStayTrue == Spec => MetasStayTrue
<1> DEFINE A == \A i \in Ids : StaleMeta(i)' /\ Untroubled => Is_a(tree, i, "portal") /\ tree'[i] # tree[i]
<1>1. OInv /\ [Next]_vars => A
  BY NextSteps DEF Steps, MetaStep
<1>2. OInv /\ OInv' /\ [Next]_vars => [A]_vars
  BY <1>1
<1> HIDE DEF A
<1>3. Spec => [][A]_vars
  BY <1>2, InitOnce, NextOnce, PTL DEF Spec
<1> QED BY <1>3 DEF MetasStayTrue, A

-------------------------------------------------------------------------------
(* Renames keep the data: what is looked up is found by a key of its own or  *)
(* of its directory, from the first to the last lookup of the request, and   *)
(* each call leaves the data in an entry that is shown.                      *)

\* The loop of psql_path_to_id finds the entry when no key on the way is stale.
LEMMA DescendFinds ==
  ASSUME NEW r \in Redises, NEW t \in Trees, NoTwins(t), NEW p \in Paths,
         \A n \in 1 .. Len(p) : r.path[SubSeq(p, 1, n)] \in {NONE, At(t, SubSeq(p, 1, n))}
  PROVE  Descend(r, t, p).id = At(t, p)
<1> DEFINE Up(n) == SubSeq(p, 1, n)
           D(n) == Descend(r, t, Up(n))
           Fine(n) == /\ D(n).id = At(t, Up(n))
                      /\ \A l \in n + 1 .. Len(p) : D(n).r.path[Up(l)] = r.path[Up(l)]
           T == {n \in 0 .. Len(p) : Fine(n)}
<1>1. Len(p) \in Nat /\ p \in Seq(Names)
  BY NamespaceAssumption
<1>2. \A n \in 0 .. Len(p) : Up(n) \in Paths /\ Len(Up(n)) = n
  BY <1>1, NamespaceAssumption, SubSeqProperties
<1>3. 0 \in T
  <2>1. Up(0) = <<>>
    BY <1>1, <1>2, EmptySeq
  <2>2. Descend(r, t, <<>>) = [id |-> Root, r |-> r] /\ At(t, <<>>) = Root
    BY NamespaceAssumption, DescendStep, AtStep
  <2>3. D(0) = [id |-> Root, r |-> r] /\ At(t, Up(0)) = Root
    BY <2>1, <2>2
  <2> HIDE DEF D, Up
  <2> QED BY <1>1, <2>3
<1>4. ASSUME NEW n \in 1 .. Len(p), n - 1 \in T
      PROVE  n \in T
  <2> DEFINE q == Up(n)
             d == D(n - 1)
             i == At(t, q)
             id == IF d.r.path[q] # NONE THEN d.r.path[q] ELSE get_id_from_db(t, d.id, Last(q))
  <2>1. n \in 0 .. Len(p) /\ n - 1 \in 0 .. Len(p) /\ q \in Paths /\ Len(q) = n /\ q # <<>>
    BY <1>1, <1>2
  <2>2. Front(q) = Up(n - 1) /\ Front(q) \in Paths
    <3>1. Front(q) = SubSeq(q, 1, n - 1)
      BY <2>1 DEF Front
    <3>2. SubSeq(q, 1, n - 1) = Up(n - 1)
      BY <1>1, <2>1, SubSeqProperties
    <3> QED BY <1>2, <2>1, <3>1, <3>2
  <2>3. D(n) = Into(d, t, q)
    <3>1. Descend(r, t, q) = Into(Descend(r, t, Front(q)), t, q)
      <4> HIDE DEF q
      <4> QED BY <2>1, DescendStep
    <3>2. Front(q) = Up(n - 1)
      BY <2>2
    <3> QED BY <3>1, <3>2
  <2>4. Into(d, t, q) = IF d.id = NONE THEN d
                        ELSE [id |-> id, r |-> IF id = NONE THEN d.r ELSE SetPath(d.r, q, id)]
    BY DEF Into
  <2>5. i = Entry(t, At(t, Up(n - 1)), Last(q))
    BY <2>1, <2>2, AtStep
  <2>6. /\ d.id = At(t, Up(n - 1)) /\ d.r.path[q] \in {NONE, i}
        /\ \A l \in n .. Len(p) : d.r.path[Up(l)] = r.path[Up(l)]
    BY <1>1, <1>4, <2>1
  <2>7. d.id \in Dirs \cup {NONE} /\ d.r \in Redises /\ i \in Answers
    BY <1>2, <2>1, <2>2, <2>6, AtFacts, DescendFacts, Ends
  <2>8. CASE d.id = NONE
    <3>1. i = NONE
      <4>1. At(t, Front(q)) = NONE
        BY <2>2, <2>6, <2>8
      <4> HIDE DEF q
      <4> QED BY <2>1, <4>1, AtFacts, Ends
    <3>2. D(n) = d
      BY <2>3, <2>4, <2>8
    <3>3. \A l \in n + 1 .. Len(p) : l \in n .. Len(p)
      BY <1>1
    <3> HIDE DEF D, Up
    <3> QED BY <2>1, <2>6, <2>8, <3>1, <3>2, <3>3
  <2>9. CASE d.id # NONE
    <3>1. get_id_from_db(t, d.id, Last(q)) = i
      BY <2>5, <2>6, <2>7, <2>9, DbFinds
    <3>2. id = i
      BY <2>6, <3>1
    <3> HIDE DEF i, id
    <3>3. D(n).id = i /\ D(n).r = IF i = NONE THEN d.r ELSE SetPath(d.r, q, i)
      BY <2>3, <2>4, <2>9, <3>2
    <3>4. SetPath(d.r, q, i).path = [d.r.path EXCEPT ![q] = i] /\ d.r.path \in [Paths -> Dirs \cup {NONE, Bad}]
      <4> HIDE DEF d, q
      <4> QED BY <2>1, <2>7, SetPathFacts DEF Redises
    <3>5. ASSUME NEW l \in n + 1 .. Len(p)
          PROVE  D(n).r.path[Up(l)] = r.path[Up(l)]
      <4>1. l \in n .. Len(p) /\ l \in 0 .. Len(p) /\ l # n
        BY <1>1
      <4>2. Up(l) \in Paths /\ Up(l) # q
        BY <1>2, <2>1, <4>1
      <4>3. d.r.path[Up(l)] = r.path[Up(l)]
        BY <2>6, <4>1
      <4> HIDE DEF D, Up, q, d
      <4> QED BY <3>3, <3>4, <4>2, <4>3
    <3>6. D(n).id = At(t, Up(n))
      BY <3>3 DEF i
    <3> QED BY <2>1, <3>5, <3>6
  <2> QED BY <2>8, <2>9
<1>5. Len(p) \in T
  <2> HIDE DEF T
  <2>1. T = T /\ \A n \in 0 .. Len(p) : n \in T
    BY <1>1, <1>3, <1>4, Induct
  <2> QED BY <1>1, <2>1
<1>6. Up(Len(p)) = p
  BY <1>1, SubSeqFull
<1> QED BY <1>5, <1>6

\* p is found by its key or by that of its directory.
Keyed(r, p) == r.path[p] # NONE \/ r.path[Front(p)] # NONE

\* So is an entry that is no directory, or none, in a directory that is there.
LEMMA FoundKeyed ==
  ASSUME redis \in Redises, tree \in Trees, NoTwins(tree), NEW p \in Paths, Known(p),
         Resolves(p), Straight(p), ~IsDir(tree, At(tree, p))
  PROVE  Keyed(redis, p)
<1> SUFFICES ASSUME redis.path[p] = NONE, redis.path[Front(p)] = NONE
             PROVE  FALSE
  BY DEF Keyed
<1>1. p # <<>> /\ Front(p) \in Paths /\ IsDir(tree, At(tree, Front(p))) /\ Len(p) \in Nat /\ Len(Front(p)) = Len(p) - 1
  BY PathFacts DEF Known
<1>2. psql_path_to_id(redis, tree, p).id = IF Len(p) = 1 THEN Bad ELSE Descend(redis, tree, Front(p)).id
  BY <1>1 DEF psql_path_to_id
<1> DEFINE q == Front(p)
<1>3. \A n \in 1 .. Len(q) : redis.path[SubSeq(q, 1, n)] \in {NONE, At(tree, SubSeq(q, 1, n))}
  <2> SUFFICES ASSUME NEW n \in 1 .. Len(q)
               PROVE  redis.path[SubSeq(q, 1, n)] \in {NONE, At(tree, SubSeq(q, 1, n))}
    OBVIOUS
  <2>1. n \in 1 .. Len(p) /\ q = SubSeq(p, 1, Len(p) - 1) /\ n <= Len(p) - 1 /\ p \in Seq(Names)
    BY <1>1, NamespaceAssumption DEF Front
  <2>2. SubSeq(q, 1, n) = SubSeq(p, 1, n)
    BY <1>1, <2>1, SubSeqProperties
  <2>3. ~StalePath(SubSeq(p, 1, n))
    BY <2>1 DEF Straight
  <2> QED BY <2>2, <2>3 DEF StalePath
<1> HIDE DEF q
<1>4. Descend(redis, tree, q).id = At(tree, q)
  BY <1>1, <1>3, DescendFinds DEF q
<1>5. At(tree, p) # Bad
  BY AtFacts, Ends
<1>6. psql_path_to_id(redis, tree, p).id = At(tree, p)
  BY DEF Resolves
<1> QED BY <1>1, <1>2, <1>4, <1>5, <1>6 DEF q

\* A lookup by such a key leaves the other keys alone, and next time finds the
\* same.
LEMMA KeyedLookup ==
  ASSUME NEW r \in Redises, NEW t \in Trees, NEW p \in Paths,
         r.path[p] # NONE \/ (p # <<>> /\ Keyed(r, p)),
         NEW m, m = psql_read_meta_from_path(r, t, p)
  PROVE  LET a == psql_path_to_id(r, t, p)
         IN /\ m.r.path[p] = a.id /\ \A q \in Paths \ {p} : m.r.path[q] = r.path[q]
            /\ r.path[p] # NONE => a.id = r.path[p]
            /\ m.meta # NONE => m.id = a.id
            /\ a.id = NONE => m.meta = NONE /\ m.id = NONE
            /\ a.id \in Shown(t) => m.id = a.id /\ m.meta # NONE
<1> DEFINE a == psql_path_to_id(r, t, p)
<1>1. a.r \in Redises /\ a.id \in Answers
  BY LookupFacts
<1>2. m = psql_read_meta(a.r, t, a.id)
  BY DEF psql_read_meta_from_path
<1>3. /\ a.r.path[p] = a.id /\ \A q \in Paths \ {p} : a.r.path[q] = r.path[q]
      /\ r.path[p] # NONE => a.id = r.path[p]
  <2>1. CASE r.path[p] # NONE
    <3>1. a = [id |-> r.path[p], r |-> r]
      BY <2>1 DEF psql_path_to_id
    <3> QED BY <3>1
  <2>2. CASE r.path[p] = NONE
    <3> DEFINE id == get_id_from_db(t, r.path[Front(p)], Last(p))
    <3>1. a = [id |-> id, r |-> IF id = NONE THEN r ELSE SetPath(r, p, id)]
      BY <2>2 DEF psql_path_to_id, Keyed
    <3>2. id \in Answers
      BY DbFacts, Ends
    <3> HIDE DEF id
    <3>3. SetPath(r, p, id).path = [r.path EXCEPT ![p] = id] /\ r.path \in [Paths -> Dirs \cup {NONE, Bad}]
      BY <3>2, SetPathFacts DEF Redises
    <3> HIDE DEF a
    <3>4. a.id = id /\ a.r = IF id = NONE THEN r ELSE SetPath(r, p, id)
      BY <3>1
    <3> QED BY <2>2, <3>3, <3>4
  <2> QED BY <2>1, <2>2
<1> HIDE DEF a
<1>4. Reads(m, a.r, t, a.id)
  BY <1>1, <1>2, ReadMetaFacts
<1>5. a.id = NONE => m.meta = NONE /\ m.id = NONE
  BY <1>2, Ends DEF psql_read_meta
<1>6. a.id \in Shown(t) => m.id = a.id /\ m.meta # NONE
  <2>1. SUFFICES ASSUME a.id \in Shown(t)
                 PROVE  m.id = a.id /\ m.meta # NONE
    OBVIOUS
  <2>2. a.id \in Ids /\ a.id \in Dirs /\ t # Down
    BY <2>1, Ends, NothingAssumption DEF Shown
  <2>3. m.id = a.id
    BY <1>2, <2>1, <2>2 DEF psql_read_meta
  <2> QED BY <1>4, <2>2, <2>3 DEF Reads
<1> QED BY <1>3, <1>4, <1>5, <1>6 DEF Reads, a

\* Row i is shown and has the data x; some row does.
Bears(t, i, x) == i \in Shown(t) /\ t[i].data = x
Has(t, x) == \E i \in Ids : Bears(t, i, x)

\* What the portal does with a name or a folder leaves data alone.
LEMMA EntitleBears ==
  ASSUME NEW t \in Trees, NEW i, NEW x, Bears(t, i, x), NEW k, NEW n \in Names
  PROVE  Bears(Entitle(t, i, k, n), i, x)
<1> DEFINE v == [t EXCEPT ![i].name = n]
<1>1. i \in Ids /\ t[i] \in Rows /\ ~t[i].del /\ t[i].data = x
  BY TreeFacts DEF Bears, Shown
<1>2. v[i] = [t[i] EXCEPT !.name = n]
  BY <1>1 DEF Trees
<1>3. ~v[i].del /\ v[i].data = x /\ v[i] \in Rows
  BY <1>1, <1>2 DEF Rows
<1>4. Entitle(t, i, k, n) \in {t, v}
  BY DEF Entitle
<1> HIDE DEF v
<1>5. Bears(v, i, x)
  BY <1>1, <1>3, NothingAssumption DEF Bears, Shown
<1> QED BY <1>4, <1>5

LEMMA MoveBears ==
  ASSUME NEW t \in Trees, Fits(t), NEW i, NEW x, Bears(t, i, x), NEW k, NEW d
  PROVE  Bears(Move(t, i, k, d), i, x)
<1> DEFINE v == [t EXCEPT ![i].parent = d]
<1>1. i \in Ids /\ t[i] \in Rows /\ ~t[i].del /\ t[i].data = x
  BY TreeFacts DEF Bears, Shown
<1>2. v[i] = [t[i] EXCEPT !.parent = d]
  BY <1>1 DEF Trees
<1>3. d \in Dirs => ~v[i].del /\ v[i].data = x /\ v[i] \in Rows
  BY <1>1, <1>2 DEF Rows
<1>4. Move(t, i, k, d) = t \/ (Move(t, i, k, d) = v /\ IsDir(t, d))
  BY DEF Move
<1> HIDE DEF v
<1>5. IsDir(t, d) => Bears(v, i, x)
  BY <1>1, <1>3, DirFacts, NothingAssumption DEF Bears, Shown, Fits
<1> QED BY <1>4, <1>5

\* The data is in an entry that is shown, in both trees.
Keeps(s, x) == Has(s.t, x) /\ Has(s.u, x)

\* A call that leaves it in the entry i of both leaves it there.
LEMMA CalledKeeps ==
  ASSUME NEW s, s \in Work, NEW i, NEW x, Bears(s.t, i, x), Bears(s.u, i, x),
         NEW a, NEW b, Bears(a, i, x), Bears(b, i, x), NEW y, Called(y, s, a, b)
  PROVE  Bears(y.t, i, x) /\ Bears(y.u, i, x)
<1>1. CASE y = WithTrees(s, a, b)
  BY <1>1 DEF WithTrees, Work
<1>2. CASE y = Failed(s)
  BY <1>2 DEF Failed, Work
<1> QED BY <1>1, <1>2 DEF Called

\* A row in which the data is.
LEMMA BearsHas ==
  ASSUME NEW t, NEW i, NEW x, Bears(t, i, x)
  PROVE  Has(t, x)
  BY DEF Bears, Has, Shown

\* An UPDATE of name and parent of a temporary file: its row.
LEMMA RenameTempKeeps ==
  ASSUME NEW s, Good(s), NEW i \in Ids, NEW x, Bears(s.t, i, x), Bears(s.u, i, x), NEW d \in Answers,
         NEW e \in Dirs, NEW n \in Names, NEW y \in RenameTemp(s, i, d, e, n)
  PROVE  Keeps(y, x)
<1> DEFINE p == Parents(s, d, e).s
           w == Placed(s.t[i], e, n)
<1>1. e \in Answers
  BY Ends
<1>2. /\ Good(p) /\ p.t = s.t /\ p.u = s.u
  BY <1>1, ParentsGood
<1>3. s.t \in Trees /\ p \in Work
  BY <1>2, WorkFacts DEF Good
<1>4. \/ y = p
      \/ s.t[i] \in Rows /\ y = Unread(WithTree(p, Put(s.t, i, w)), i)
  BY <1>1, RenameTempIs
<1> HIDE DEF p
<1>5. CASE y = p
  BY <1>2, <1>5, BearsHas DEF Keeps
<1>6. CASE s.t[i] \in Rows /\ y = Unread(WithTree(p, Put(s.t, i, w)), i)
  <2>1. w.data = x /\ ~w.del /\ w \in Rows
    BY <1>6 DEF Placed, Rows, Bears, Shown
  <2> HIDE DEF w
  <2>2. y.t = Put(s.t, i, w) /\ y.u = s.u
    BY <1>2, <1>3, <1>6 DEF Unread, Forgetting, WithTree, Work
  <2>3. y.t[i] = w
    BY <1>3, <2>2 DEF Put, Trees
  <2>4. Bears(y.t, i, x)
    BY <2>1, <2>3, NothingAssumption DEF Bears, Shown
  <2> QED BY <2>2, <2>4, BearsHas DEF Keeps
<1> QED BY <1>4, <1>5, <1>6

\* Calls to the portal for its own files.
LEMMA RenamePortalKeeps ==
  ASSUME NEW s, Good(s), NEW i \in Ids, NEW x, Bears(s.t, i, x), Bears(s.u, i, x), NEW d \in Answers,
         NEW e \in Dirs, NEW n \in Names, NEW y \in RenamePortal(s, i, d, e, n)
  PROVE  Keeps(y, x)
<1> DEFINE p == Parents(s, d, e).s
<1>1. e \in Answers
  BY Ends
<1>2. Good(p) /\ p.t = s.t /\ p.u = s.u
  BY <1>1, ParentsGood
<1>3. \/ y = p
      \/ \E z : /\ z = p \/ Called(z, p, Move(p.t, i, "portal", e), Move(p.u, i, "portal", e))
                /\ Called(y, z, Entitle(z.t, i, "portal", n), Entitle(z.u, i, "portal", n))
  BY RenamePortalIs
<1> HIDE DEF p
<1>4. p \in Work /\ p.t \in Trees /\ p.u \in Trees /\ Fits(p.t) /\ Fits(p.u)
  BY <1>2, WorkFacts DEF Good
<1>5. Bears(p.t, i, x) /\ Bears(p.u, i, x)
  BY <1>2
<1>6. ASSUME NEW z, z = p \/ Called(z, p, Move(p.t, i, "portal", e), Move(p.u, i, "portal", e)),
             Called(y, z, Entitle(z.t, i, "portal", n), Entitle(z.u, i, "portal", n))
      PROVE  Keeps(y, x)
  <2>1. Good(z)
    <3>1. Tame(Move(p.t, i, "portal", e), p.t) /\ Tame(Move(p.u, i, "portal", e), p.u)
      BY <1>4, MoveTame
    <3> QED BY <1>2, <1>6, <3>1, TameCall
  <2>2. z \in Work /\ z.t \in Trees /\ z.u \in Trees
    BY <2>1, WorkFacts DEF Good
  <2>3. Bears(z.t, i, x) /\ Bears(z.u, i, x)
    <3>1. Bears(Move(p.t, i, "portal", e), i, x) /\ Bears(Move(p.u, i, "portal", e), i, x)
      BY <1>4, <1>5, MoveBears
    <3> QED BY <1>4, <1>5, <1>6, <3>1, CalledKeeps
  <2>4. Bears(Entitle(z.t, i, "portal", n), i, x) /\ Bears(Entitle(z.u, i, "portal", n), i, x)
    BY <2>2, <2>3, EntitleBears
  <2>5. Bears(y.t, i, x) /\ Bears(y.u, i, x)
    BY <1>6, <2>2, <2>3, <2>4, CalledKeeps
  <2> QED BY <2>5, BearsHas DEF Keeps
<1>7. CASE y = p
  BY <1>5, <1>7, BearsHas DEF Keeps
<1> QED BY <1>3, <1>6, <1>7

\* A temporary file is made in the transaction, without a call to the portal.
LEMMA TempMakes ==
  ASSUME NEW s, Good(s), NEW p, NEW d \in Dirs, IsDir(s.t, d), NEW n \in TempNames, NEW v \in psql_create_file(s, p, d, n)
  PROVE  v.u = s.u /\ v.failures = s.failures
<1>1. PICK y \in Insert(s, d, n, "temp") : v = Forgetting(y, {}, {}, {d})
  BY DEF psql_create_file, Forgetting
<1>2. n \in Names
  BY NamespaceAssumption
<1>3. Good(y) /\ y.u = s.u /\ y.failures = s.failures
  BY <1>1, <1>2, InsertGood, InsertMakes
<1>4. v = Unlisted(y, d)
  BY <1>1 DEF Unlisted
<1> QED BY <1>3, <1>4, ForgetsList

\* What a rename from one kind to the other starts from: i goes to the name n in
\* e, which is free and found by the key of e.
Crosses(y, i, to, e, n, x) ==
  /\ Good(y) /\ Unchanged(y) /\ Bears(y.t, i, x) /\ x # NONE /\ i \in Ids /\ ~IsDir(y.t, i)
  /\ to \in Paths /\ to # <<>> /\ n = Last(to) /\ n \in Names
  /\ e \in Dirs /\ IsDir(y.t, e) /\ Named(y.t, e, n) = {}
  /\ y.r.path[to] = NONE /\ y.r.path[Front(to)] = e

\* The new entry k got the data, and the row i is as it was.
Filled(z, v, y, i, k, e, x) ==
  /\ Good(z) /\ z.failures = y.failures /\ Bears(z.t, k, x) /\ k \in Ids \ {i}
  /\ z.u[i] = v.u[i] /\ z.t[k].parent = e

LEMMA FillBears ==
  ASSUME NEW y, NEW i, NEW to, NEW e, NEW n, NEW x, Crosses(y, i, to, e, n, x),
         NEW v, NEW k, Fresh(v, y, to, e, n, k), NEW ok, Copies(ok), NEW z \in Fill(v, i, to, ok)
  PROVE  Filled(z, v, y, i, k, e, x)
<1>1. /\ Good(y) /\ i \in Shown(y.t) /\ to # <<>> /\ i \in Ids /\ to \in Paths /\ e \in Dirs
      /\ y.r.path[Front(to)] = e /\ n = Last(to) /\ Named(y.t, e, n) = {} /\ y.t[i].data = x /\ x # NONE
  BY DEF Crosses, Bears
<1>2. Good(z) /\ Crossed(z, y, i, k, to, e, n) /\ z.u[i] = v.u[i] /\ Copied(z, y, i, k)
  BY <1>1, FillCrosses
<1>3. k \in Ids /\ k # i /\ k \in Shown(z.t) /\ z.t[k].parent = e
  BY <1>2 DEF Crossed
<1>4. z.t[k].data = y.t[i].data /\ z.failures = y.failures
  BY <1>2 DEF Copied
<1> QED BY <1>1, <1>2, <1>3, <1>4 DEF Bears, Filled

\* A file of the portal that becomes a temporary one is hidden in the
\* transaction, and is as it was if that fails.
LEMMA ToTempKeeps ==
  ASSUME NEW y, NEW i, NEW to, NEW e, NEW n, NEW x, Crosses(y, i, to, e, n, x),
         OfPortal(y.t, i), n \in TempNames,
         NEW v \in psql_create_file(y, to, e, n), NEW ok, Copies(ok), NEW z \in Fill(v, i, to, ok), NEW w \in Hide(z, i)
  PROVE  Keeps(w, x)
<1>1. /\ Good(y) /\ i \in Ids /\ to \in Paths /\ e \in Dirs /\ IsDir(y.t, e) /\ n \in Names
      /\ Named(y.t, e, n) = {} /\ y.r.path[to] = NONE /\ y.u = y.t /\ Bears(y.t, i, x) /\ ~IsDir(y.t, i)
  BY DEF Crosses, Unchanged
<1>2. v.u = y.u /\ v.failures = y.failures
  BY <1>1, TempMakes
<1>3. PICK k : Fresh(v, y, to, e, n, k)
  BY <1>1, <1>2, CreateFresh
<1>4. /\ Good(z) /\ Bears(z.t, k, x) /\ k \in Ids \ {i} /\ z.u[i] = v.u[i]
  <2>1. Filled(z, v, y, i, k, e, x)
    BY <1>3, FillBears
  <2> QED BY <2>1 DEF Filled
<1>5. z \in Work /\ z.t \in Trees
  BY <1>4, WorkFacts DEF Good
<1>6. Bears(z.u, i, x)
  BY <1>1, <1>2, <1>4 DEF Bears, Shown
<1>7. CASE w = Hides(z, i)
  <2>1. w.u = z.u /\ (w.t = z.t \/ w.t = [z.t EXCEPT ![i].del = TRUE])
    BY <1>5, <1>7 DEF Hides, set_del_dlfileentry, Work
  <2>2. w.t[k] = z.t[k]
    BY <1>4, <1>5, <2>1 DEF Trees
  <2>3. Bears(w.t, k, x)
    BY <1>4, <2>2 DEF Bears, Shown
  <2> QED BY <1>6, <2>1, <2>3, BearsHas DEF Keeps
<1>8. CASE w = Forgetting(RolledBack(Failed(z)), {}, {i}, {})
  <2>1. w.t = z.u /\ w.u = z.u
    BY <1>5, <1>8 DEF Forgetting, RolledBack, Failed, Work
  <2> QED BY <1>6, <2>1, BearsHas DEF Keeps
<1> QED BY <1>5, <1>7, <1>8, HideIs

\* An entry that becomes one of the portal is deleted, when the data is in the
\* new one, if no call fails.
LEMMA ToPortalKeeps ==
  ASSUME NEW y, NEW i, NEW to, NEW e, NEW n, NEW x, Crosses(y, i, to, e, n, x),
         ~OfPortal(y.t, i), NEW m \in Metas, m.mode # "dir",
         NEW v, \/ v \in psql_create_file(y, to, e, n)
                \/ \E h : h \in HiddenThere(y, e, n) /\ v = ShowsAs(y, h, m),
         NEW ok, Copies(ok), NEW z \in Fill(v, i, to, ok), NEW w, w = z \/ w \in psql_delete_file(z, i)
  PROVE  /\ w.failures >= y.failures /\ w.failures \in Nat
         /\ w.failures = y.failures => Has(w.t, x)
<1>1. /\ Good(y) /\ i \in Ids /\ to \in Paths /\ e \in Dirs /\ IsDir(y.t, e) /\ n \in Names
      /\ Named(y.t, e, n) = {} /\ y.r.path[to] = NONE /\ ~IsDir(y.t, i)
  BY DEF Crosses
<1>2. y.failures \in Nat
  BY <1>1, WorkFacts, NamespaceAssumption DEF Good
<1>3. /\ v.failures >= y.failures /\ v.failures \in Nat /\ Good(v)
      /\ v.failures = y.failures => \E k : Fresh(v, y, to, e, n, k)
  <2>1. CASE v \in psql_create_file(y, to, e, n)
    BY <1>1, <2>1, CreateFresh
  <2>2. CASE \E h : h \in HiddenThere(y, e, n) /\ v = ShowsAs(y, h, m)
    <3>1. PICK h : h \in HiddenThere(y, e, n) /\ v = ShowsAs(y, h, m)
      BY <2>2
    <3>2. h \in Hidden(y.t, e, n) /\ v = ShowsAs(y, h, m)
      BY <3>1 DEF HiddenThere
    <3>3. Fresh(v, y, to, e, n, h)
      BY <1>1, <3>2, ShowsFresh
    <3> QED BY <1>2, <3>3 DEF Fresh
  <2> QED BY <2>1, <2>2
<1>4. Good(z) /\ z.failures >= v.failures /\ z.failures \in Nat
  BY <1>1, <1>3, FillGood, FillCounts
<1>5. /\ w.failures >= z.failures /\ w.failures \in Nat
      /\ w.failures = z.failures => w = z \/ Gone(w.t, z.t, i)
  <2>1. CASE w = z
    BY <1>3, <1>4, <2>1
  <2>2. CASE w \in psql_delete_file(z, i)
    BY <1>1, <1>4, <2>2, DeleteFileGone
  <2> QED BY <2>1, <2>2
<1>6. ASSUME w.failures = y.failures
      PROVE  Has(w.t, x)
  <2>1. v.failures = y.failures /\ w.failures = z.failures
    BY <1>2, <1>3, <1>4, <1>5, <1>6
  <2>2. PICK k : Fresh(v, y, to, e, n, k)
    BY <1>3, <2>1
  <2>3. Bears(z.t, k, x) /\ k \in Ids \ {i} /\ z.t[k].parent = e
    <3>1. Filled(z, v, y, i, k, e, x)
      BY <2>2, FillBears
    <3> QED BY <3>1 DEF Filled
  <2>4. e # i
    BY <1>1
  <2>5. w.t[k] = z.t[k]
    BY <1>5, <2>1, <2>3, <2>4 DEF Gone
  <2>6. Bears(w.t, k, x)
    BY <2>3, <2>5 DEF Bears, Shown
  <2> QED BY <2>6, BearsHas
<1> QED BY <1>2, <1>3, <1>4, <1>5, <1>6

\* From one kind to the other.
LEMMA RenameAcrossKeeps ==
  ASSUME NEW y, NEW i, NEW to, NEW e, NEW n, NEW x, Crosses(y, i, to, e, n, x),
         OfPortal(y.t, i) <=> n \in TempNames, NEW m \in Metas, m.mode # "dir", NEW from,
         NEW ok, Copies(ok), NEW w \in RenameAcross(y, i, m, from, to, e, n, ok)
  PROVE  \/ Keeps(w, x)
         \/ /\ ~OfPortal(y.t, i) /\ w.failures >= y.failures /\ w.failures \in Nat
            /\ w.failures = y.failures => Has(w.t, x)
<1>1. CASE w = y
  BY <1>1, BearsHas DEF Crosses, Unchanged, Keeps
<1>2. CASE w # y
  <2>1. PICK v, z : /\ \/ HiddenThere(y, e, n) = {} /\ v \in psql_create_file(y, to, e, n)
                       \/ \E h : h \in HiddenThere(y, e, n) /\ v = ShowsAs(y, h, m)
                    /\ z \in Fill(v, i, to, ok)
                    /\ \/ OfPortal(y.t, i) /\ w \in Hide(z, i)
                       \/ ~OfPortal(y.t, i) /\ z.id \in Ids /\ ~OfPortal(z.t, z.id) /\ w = z
                       \/ /\ ~OfPortal(y.t, i) /\ ~(z.id \in Ids /\ ~OfPortal(z.t, z.id))
                          /\ w \in psql_delete_file(z, i)
    BY <1>2, RenameAcrossIs
  <2>2. CASE OfPortal(y.t, i)
    <3>1. HiddenThere(y, e, n) = {}
      BY <2>2 DEF HiddenThere
    <3>2. v \in psql_create_file(y, to, e, n) /\ z \in Fill(v, i, to, ok) /\ w \in Hide(z, i)
      BY <2>1, <2>2, <3>1
    <3> QED BY <2>2, <3>2, ToTempKeeps
  <2>3. CASE ~OfPortal(y.t, i)
    <3>1. z \in Fill(v, i, to, ok) /\ (w = z \/ w \in psql_delete_file(z, i))
      BY <2>1, <2>3
    <3>2. \/ v \in psql_create_file(y, to, e, n)
          \/ \E h : h \in HiddenThere(y, e, n) /\ v = ShowsAs(y, h, m)
      BY <2>1
    <3> QED BY <2>3, <3>1, <3>2, ToPortalKeeps
  <2> QED BY <2>2, <2>3
<1> QED BY <1>1, <1>2

\* What Replace starts from, as far as the data of i is concerned: i and j are
\* two files.
Overwrites(s, i, j, x) ==
  /\ Good(s) /\ Unchanged(s) /\ Bears(s.t, i, x) /\ x # NONE /\ i \in Ids /\ ~IsDir(s.t, i)
  /\ j \in Ids /\ j \in Shown(s.t) /\ ~IsDir(s.t, j) /\ i # j

\* The file j gets the data of i, at once.
LEMMA CopyBears ==
  ASSUME NEW s, NEW i, NEW j, NEW x, Overwrites(s, i, j, x), NEW ok, Copies(ok), NEW c \in copy_mmap(s, i, j, ok)
  PROVE  /\ Good(c) /\ Bears(c.t, j, x) /\ Bears(c.t, i, x) /\ Bears(c.u, j, x)
<1>1. /\ Good(s) /\ s.u = s.t /\ i \in Ids /\ i \in Shown(s.t) /\ s.t[i].data = x /\ x # NONE
      /\ j \in Ids /\ j \in Shown(s.t) /\ i # j
  BY DEF Overwrites, Unchanged, Bears
<1>2. s.t[i] # NONE /\ s.t[j] # NONE
  BY <1>1 DEF Shown
<1>3. /\ Good(c)
      /\ \A l \in Ids : Like(c.t, s.t, l) /\ Like(c.u, s.u, l)
      /\ \A l \in Ids \ {j} : c.t[l] = s.t[l]
  BY <1>1, CopyLike
<1>4. c.t[j].data = x /\ c.u[j].data = x
  BY <1>1, <1>2, CopyCopies
<1>5. j \in Shown(c.t) /\ j \in Shown(c.u) /\ i \in Shown(c.t)
  BY <1>1, <1>3 DEF Like
<1> QED BY <1>1, <1>3, <1>4, <1>5 DEF Bears

\* Two files of the portal: the file i is there whatever calls fail.
LEMMA BothKeeps ==
  ASSUME NEW s, NEW i, NEW j, NEW x, Overwrites(s, i, j, x),
         NEW z, Called(z, s, Drop(s.t, j), Drop(s.u, j)), NEW e,
         NEW y, Called(y, z, Move(z.t, i, "portal", e), Move(z.u, i, "portal", e))
  PROVE  Good(y) /\ Keeps(y, x)
<1>1. /\ Good(s) /\ s.u = s.t /\ i \in Ids /\ Bears(s.t, i, x) /\ Bears(s.u, i, x)
      /\ j \in Ids /\ ~IsDir(s.t, j) /\ i # j
  BY DEF Overwrites, Unchanged
<1>2. s \in Work /\ s.t \in Trees /\ Sound(s.t)
  BY <1>1, WorkFacts DEF Good, Fits
<1>3. Bears(Drop(s.t, j), i, x)
  <2>1. s.t[i].parent # j /\ i \in Shown(s.t)
    BY <1>1, <1>2, NoChildren DEF Bears
  <2>2. Drop(s.t, j)[i] = s.t[i]
    BY <1>1, <2>1 DEF Drop
  <2> QED BY <1>1, <2>2 DEF Bears, Shown
<1>4. Good(z)
  BY <1>1, DropGood
<1>5. Bears(z.t, i, x) /\ Bears(z.u, i, x)
  <2>1. Bears(Drop(s.u, j), i, x)
    BY <1>1, <1>3
  <2> QED BY <1>1, <1>2, <1>3, <2>1, CalledKeeps
<1>6. z \in Work /\ z.t \in Trees /\ z.u \in Trees /\ Fits(z.t) /\ Fits(z.u)
  BY <1>4, WorkFacts DEF Good
<1>7. Bears(Move(z.t, i, "portal", e), i, x) /\ Bears(Move(z.u, i, "portal", e), i, x)
  BY <1>5, <1>6, MoveBears
<1>8. Bears(y.t, i, x) /\ Bears(y.u, i, x)
  BY <1>5, <1>6, <1>7, CalledKeeps
<1>9. Good(y)
  <2>1. Tame(Move(z.t, i, "portal", e), z.t) /\ Tame(Move(z.u, i, "portal", e), z.u)
    BY <1>6, MoveTame
  <2> QED BY <1>4, <2>1, TameCall
<1> QED BY <1>8, <1>9, BearsHas DEF Keeps

\* A file that is renamed onto another.
LEMMA ReplaceKeeps ==
  ASSUME NEW s, NEW i, NEW j, NEW x, Overwrites(s, i, j, x), NEW m, NEW ok, Copies(ok), NEW w \in Replace(s, i, j, m, ok)
  PROVE  Keeps(w, x)
<1>1. PICK y : /\ w = Forgetting(y, {}, {i, j}, {})
               /\ \/ OfPortal(s.t, i) /\ OfPortal(s.t, j) /\ Moved(y, s, i, j, m.parent)
                  \/ ~OfPortal(s.t, i) /\ ~OfPortal(s.t, j) /\ CopiedOver(y, s, i, j, ok)
  BY ReplaceIs
<1>2. Good(y) /\ Keeps(y, x)
  <2>1. CASE Moved(y, s, i, j, m.parent)
    <3>1. PICK z : /\ Called(z, s, Drop(s.t, j), Drop(s.u, j))
                   /\ Called(y, z, Move(z.t, i, "portal", m.parent), Move(z.u, i, "portal", m.parent))
      BY <2>1 DEF Moved
    <3> QED BY <3>1, BothKeeps
  <2>2. CASE CopiedOver(y, s, i, j, ok)
    <3>1. PICK c \in copy_mmap(s, i, j, ok) : y = DeleteRow(c, i)
      BY <2>2 DEF CopiedOver
    <3>2. Good(c) /\ Bears(c.t, j, x) /\ Bears(c.u, j, x)
      BY <3>1, CopyBears
    <3>3. i \in Ids /\ j \in Ids /\ i # j /\ ~IsDir(s.t, i) /\ Good(s)
      BY DEF Overwrites
    <3>4. SameDirs(c.t, s.t)
      BY <3>1, <3>3, CopyGood
    <3>5. c \in Work /\ c.t \in Trees /\ ~IsDir(c.t, i)
      BY <3>2, <3>3, <3>4, WorkFacts, Ends DEF Good, SameDirs
    <3>6. y.u = c.u /\ (y.t = c.t \/ y.t = [c.t EXCEPT ![i] = NONE])
      BY <3>1, <3>5 DEF DeleteRow, Work
    <3>7. y.t[j] = c.t[j]
      BY <3>3, <3>5, <3>6 DEF Trees
    <3>8. Bears(y.t, j, x) /\ Bears(y.u, j, x)
      BY <3>2, <3>6, <3>7 DEF Bears, Shown
    <3>9. Good(y)
      BY <3>1, <3>2, <3>3, <3>5, DeleteRowGood
    <3> QED BY <3>8, <3>9, BearsHas DEF Keeps
  <2> QED BY <1>1, <2>1, <2>2
<1>3. w.t = y.t /\ w.u = y.u
  BY <1>1, <1>2, Forgets
<1> QED BY <1>2, <1>3 DEF Keeps

\* So does one that is refused when the data is copied.
LEMMA ReplaceFailsKeeps ==
  ASSUME NEW s, NEW i, NEW j, NEW x, Overwrites(s, i, j, x), NEW from_m, NEW ok, Copies(ok), NEW w \in ReplaceFails(s, i, j, from_m, ok)
  PROVE  Keeps(w, x)
<1>1. PICK c \in copy_mmap(s, i, j, ok) : w = c \/ w \in Fail([c EXCEPT !.r = SetMeta(@, j, from_m)])
  BY ReplaceFailsIs
<1>2. Good(c) /\ Bears(c.t, j, x) /\ Bears(c.u, j, x)
  BY <1>1, CopyBears
<1>3. w.t = c.t /\ w.u = c.u
  BY <1>1, <1>2 DEF Fail, Good, Work
<1> QED BY <1>2, <1>3, BearsHas DEF Keeps

\* The same keys lead to the same.
LEMMA KeyedSame ==
  ASSUME NEW r, NEW q, NEW t, NEW p, p # <<>>, Keyed(r, p), q.path[p] = r.path[p], q.path[Front(p)] = r.path[Front(p)]
  PROVE  psql_path_to_id(q, t, p).id = psql_path_to_id(r, t, p).id
<1>1. CASE r.path[p] # NONE
  BY <1>1 DEF psql_path_to_id
<1>2. CASE r.path[p] = NONE
  BY <1>2 DEF psql_path_to_id, Keyed
<1> QED BY <1>1, <1>2

\* A rename that keeps the data unless something fails, which is that of an
\* entry of the table that becomes one of the portal.
Risks(w, s, i, n, x) ==
  /\ ~OfPortal(s.t, i) /\ n \notin TempNames
  /\ w.failures >= s.failures /\ w.failures \in Nat
  /\ w.failures = s.failures => Has(w.t, x)

\* psql_rename, where the keys of both paths and of the new directory are right.
LEMMA PsqlRenameKeeps ==
  ASSUME NEW s, NEW i, NEW x, NEW from \in Paths, NEW to, NEW e, NEW n,
         Crosses(s, i, to, e, n, x), from # <<>>, s.r.path[from] = i, from # to, from # Front(to),
         NEW d \in Answers, NEW ok, Copies(ok), NEW w \in psql_rename(s, i, d, e, from, to, ok)
  PROVE  Keeps(w, x) \/ Risks(w, s, i, n, x)
<1> DEFINE m == psql_read_meta_from_path(s.r, s.t, from)
           y == WithRedis(s, m.r)
<1>1. /\ Good(s) /\ s.u = s.t /\ Bears(s.t, i, x) /\ i \in Ids /\ ~IsDir(s.t, i)
      /\ to \in Paths /\ to # <<>> /\ n = Last(to) /\ n \in Names
      /\ e \in Dirs /\ IsDir(s.t, e) /\ Named(s.t, e, n) = {} /\ x # NONE
      /\ s.r.path[to] = NONE /\ s.r.path[Front(to)] = e
  BY DEF Crosses, Unchanged
<1>2. s.t \in Trees /\ s.r \in Redises /\ i # NONE /\ Front(to) \in Paths
  BY <1>1, WorkFacts, NamespaceAssumption, PathFacts DEF Good
<1>3. /\ m.r.path[from] = i /\ m.id = i /\ m.meta # NONE
      /\ \A q \in Paths \ {from} : m.r.path[q] = s.r.path[q]
  <2>1. s.r.path[from] # NONE /\ i \in Shown(s.t)
    BY <1>1, <1>2 DEF Bears
  <2> QED BY <1>2, <2>1, KeyedLookup
<1>4. ~Is(m, "dir")
  <2>1. Knows(s.r, s.t) /\ Unused(s.r, s.t, s.unused) /\ s.unused \in SUBSET Ids
    BY <1>1, WorkFacts DEF Good
  <2> QED BY <1>1, <1>2, <1>3, <2>1, FromPathKnows
<1>5. /\ Good(y) /\ y.t = s.t /\ y.u = s.u /\ y.r = m.r /\ y.unused = s.unused
      /\ y.failures = s.failures /\ y.id = s.id
      /\ \/ m.meta = NONE /\ w = y
         \/ Is(m, "dir") /\ w \in RenameDir(y, i, d, e, n)
         \/ /\ m.meta # NONE /\ ~Is(m, "dir") /\ ~OfPortal(s.t, i) /\ n \in TempNames
            /\ w \in RenameTemp(y, i, d, e, n)
         \/ /\ m.meta # NONE /\ ~Is(m, "dir") /\ OfPortal(s.t, i) /\ n \notin TempNames
            /\ w \in RenamePortal(y, i, d, e, n)
         \/ /\ m.meta \in Metas /\ m.meta.mode # "dir" /\ (OfPortal(s.t, i) <=> n \in TempNames)
            /\ w \in RenameAcross(y, i, m.meta, from, to, e, n, ok)
         \/ /\ m.meta \in Metas /\ m.meta.mode # "dir" /\ ~OfPortal(s.t, i) /\ n \notin TempNames
            /\ w \in RenameLost(y, i, m.meta, to, e, n, ok)
  BY <1>1, PsqlRenameIs
<1> HIDE DEF m, y
<1>6. Bears(y.t, i, x) /\ Bears(y.u, i, x)
  BY <1>1, <1>5
<1>7. CASE w \in RenameTemp(y, i, d, e, n)
  BY <1>1, <1>5, <1>6, <1>7, RenameTempKeeps
<1>8. CASE w \in RenamePortal(y, i, d, e, n)
  BY <1>1, <1>5, <1>6, <1>8, RenamePortalKeeps
<1>9. CASE /\ m.meta \in Metas /\ m.meta.mode # "dir" /\ (OfPortal(s.t, i) <=> n \in TempNames)
           /\ w \in RenameAcross(y, i, m.meta, from, to, e, n, ok)
  <2>1. y.r.path[to] = NONE /\ y.r.path[Front(to)] = e
    BY <1>1, <1>2, <1>3, <1>5
  <2>2. Crosses(y, i, to, e, n, x)
    BY <1>1, <1>5, <1>6, <2>1 DEF Crosses, Unchanged
  <2>3. OfPortal(y.t, i) <=> n \in TempNames
    BY <1>5, <1>9
  <2>4. \/ Keeps(w, x)
        \/ /\ ~OfPortal(y.t, i) /\ w.failures >= y.failures /\ w.failures \in Nat
           /\ w.failures = y.failures => Has(w.t, x)
    BY <1>9, <2>2, <2>3, RenameAcrossKeeps
  <2> QED BY <1>5, <2>3, <2>4 DEF Risks
<1>10. CASE /\ m.meta \in Metas /\ m.meta.mode # "dir" /\ ~OfPortal(s.t, i) /\ n \notin TempNames
            /\ w \in RenameLost(y, i, m.meta, to, e, n, ok)
  <2>1. w.failures > y.failures /\ w.failures \in Nat /\ y.failures \in Nat
    BY <1>1, <1>5, <1>10, RenameLostCounts
  <2> QED BY <1>5, <1>10, <2>1 DEF Risks
<1> QED BY <1>3, <1>4, <1>5, <1>7, <1>8, <1>9, <1>10

\* The data survives the end of the request.
LEMMA KeptAtEnd ==
  ASSUME NEW w, NEW x, Keeps(w, x), Refuse(w) \/ \E r : Finish(w, r)
  PROVE  Has(tree', x)
  BY DEF Keeps, Refuse, Finish

LEMMA RiskedAtEnd ==
  ASSUME NEW w, NEW s, NEW i, NEW n, NEW x, Risks(w, s, i, n, x), s.failures = failures, failures \in Nat,
         NEW r, Finish(w, r), failures' = failures
  PROVE  Has(tree', x)
  BY DEF Risks, Finish

\* The names of a path are those of the paths before it.
LEMMA FrontIsPrefix ==
  ASSUME NEW p \in Paths, p # <<>>
  PROVE  IsPrefix(Front(p), p) /\ IsPrefix(p, p) /\ Front(p) # p
<1>1. Len(p) \in Nat /\ Len(p) > 0 /\ Len(Front(p)) = Len(p) - 1 /\ Front(p) \in Paths /\ p \in Seq(Names)
  BY PathFacts
<1>2. Front(p) = SubSeq(p, 1, Len(p) - 1)
  BY DEF Front
<1>3. SubSeq(Front(p), 1, Len(Front(p))) = Front(p)
  BY <1>1, NamespaceAssumption, SubSeqFull
<1> QED BY <1>1, <1>2, <1>3 DEF IsPrefix

\* What the first two lookups of a rename find: i at from, and at to what is
\* there, j or nothing.
Begins(from, to, i, f, g) ==
  /\ f.id = i /\ f.meta # NONE
  /\ ~Is(f, "dir") /\ f.meta.parent \in Answers
  /\ g.r \in Redises /\ Knows(g.r, tree) /\ Unused(g.r, tree, unused) /\ Good(Start(g.r))
  /\ g.r.path[from] = i
  /\ At(tree, to) # NONE => g.id = At(tree, to) /\ g.meta # NONE
  /\ At(tree, to) = NONE =>
       /\ g.meta = NONE /\ g.id = NONE
       /\ g.r.path[to] = NONE /\ g.r.path[Front(to)] # NONE
       /\ g.r.path[Front(to)] \in Dirs => Named(tree, g.r.path[Front(to)], Last(to)) = {}

\* A path that is looked up by its key, or by that of its directory where there
\* is nothing.
LEMMA KeyedAbsent ==
  ASSUME NEW r \in Redises, NEW t \in Trees, NEW p, p # <<>>, Keyed(r, p),
         psql_path_to_id(r, t, p).id = NONE
  PROVE  /\ r.path[p] = NONE /\ r.path[Front(p)] # NONE
         /\ r.path[Front(p)] \in Dirs => Named(t, r.path[Front(p)], Last(p)) = {}
<1>1. r.path[p] = NONE /\ r.path[Front(p)] # NONE
  BY DEF psql_path_to_id, Keyed
<1>2. get_id_from_db(t, r.path[Front(p)], Last(p)) = NONE
  BY <1>1 DEF psql_path_to_id
<1>3. ASSUME NEW d \in Dirs, d = r.path[Front(p)]
      PROVE  Named(t, d, Last(p)) = {}
  <2>1. get_id_from_db(t, d, Last(p)) = NONE
    BY <1>2, <1>3
  <2>2. t # Down /\ Named(t, d, Last(p)) \subseteq Ids
    BY NothingAssumption DEF Named, Children, Shown
  <2> QED BY <2>1, <2>2, NamespaceAssumption DEF get_id_from_db
<1> QED BY <1>1, <1>3

\* A rename of which RenameKeepsData speaks, of the file i.
Speaks(i, from, to) ==
  /\ RInv /\ NoTwins(tree) /\ i \in Shown(tree) /\ tree[i].kind # "dir" /\ tree[i].data # NONE
  /\ from \in Paths \ {<<>>} /\ to \in Paths \ {<<>>} /\ At(tree, from) = i
  /\ \A p \in {from, to} : Resolves(p) /\ Straight(p)
  /\ Allowed(from, to)

LEMMA SpeaksFacts ==
  ASSUME NEW i, NEW from, NEW to, Speaks(i, from, to)
  PROVE  /\ RInv /\ NoTwins(tree) /\ tree \in Trees /\ redis \in Redises
         /\ Knows(redis, tree) /\ Unused(redis, tree, unused)
         /\ i \in Ids /\ i \in Shown(tree) /\ ~IsDir(tree, i)
         /\ from \in Paths /\ from # <<>> /\ to \in Paths /\ to # <<>> /\ At(tree, from) = i
         /\ Front(to) \in Paths /\ from # to /\ from # Front(to) /\ to # Front(to)
         /\ Resolves(from) /\ Resolves(to) /\ Keyed(redis, from) /\ Keyed(redis, to)
         /\ At(tree, to) # NONE => At(tree, to) \in Ids /\ At(tree, to) \in Shown(tree) /\ ~IsDir(tree, At(tree, to))
<1>1. /\ RInv /\ NoTwins(tree) /\ tree \in Trees /\ redis \in Redises
      /\ Knows(redis, tree) /\ Unused(redis, tree, unused) /\ HiddenAreFiles(tree)
      /\ from \in Paths /\ from # <<>> /\ to \in Paths /\ to # <<>> /\ At(tree, from) = i
      /\ Resolves(from) /\ Resolves(to) /\ Straight(from) /\ Straight(to)
  BY RInvFacts DEF Speaks, RInv, Fits
<1>2. i \in Ids /\ i \in Shown(tree) /\ ~IsDir(tree, i)
  BY NamespaceAssumption DEF Speaks, Shown, IsDir
<1>3. /\ Known(from) /\ Known(to) /\ ~IsPrefix(from, to)
      /\ At(tree, to) # NONE => IsDir(tree, At(tree, from)) = IsDir(tree, At(tree, to))
  BY DEF Speaks, Allowed, Found
<1>4. Front(to) \in Paths /\ from # to /\ from # Front(to) /\ to # Front(to)
  BY <1>1, <1>3, FrontIsPrefix, PathFacts
<1>5. ~IsDir(tree, At(tree, from)) /\ ~IsDir(tree, At(tree, to))
  BY <1>1, <1>2, <1>3, DirFacts, Ends
<1>6. Keyed(redis, from) /\ Keyed(redis, to)
  BY <1>1, <1>3, <1>5, FoundKeyed
<1>7. At(tree, to) # NONE => At(tree, to) \in Ids /\ At(tree, to) \in Shown(tree)
  BY <1>1, AtFacts
<1> QED BY <1>1, <1>2, <1>4, <1>5, <1>6, <1>7

LEMMA RenameBegins ==
  ASSUME NEW i, NEW from, NEW to, Speaks(i, from, to),
         NEW f, f = psql_read_meta_from_path(redis, tree, from), NEW g, g = psql_read_meta_from_path(f.r, tree, to)
  PROVE  Begins(from, to, i, f, g)
<1>1. /\ RInv /\ NoTwins(tree) /\ tree \in Trees /\ redis \in Redises
      /\ Knows(redis, tree) /\ Unused(redis, tree, unused)
      /\ i \in Ids /\ i \in Shown(tree) /\ ~IsDir(tree, i)
      /\ from \in Paths /\ from # <<>> /\ to \in Paths /\ to # <<>> /\ At(tree, from) = i
      /\ Front(to) \in Paths /\ from # to /\ from # Front(to) /\ to # Front(to)
      /\ Resolves(from) /\ Resolves(to) /\ Keyed(redis, from) /\ Keyed(redis, to)
      /\ At(tree, to) # NONE => At(tree, to) \in Ids /\ At(tree, to) \in Shown(tree) /\ ~IsDir(tree, At(tree, to))
  BY SpeaksFacts
<1>2. psql_path_to_id(redis, tree, from).id = i /\ psql_path_to_id(redis, tree, to).id = At(tree, to)
  BY <1>1 DEF Resolves
<1>3. /\ f.r.path[from] = i /\ \A q \in Paths \ {from} : f.r.path[q] = redis.path[q]
      /\ f.id = i /\ f.meta # NONE
  BY <1>1, <1>2, KeyedLookup
<1>4. /\ f.r \in Redises /\ Knows(f.r, tree) /\ Unused(f.r, tree, unused)
      /\ f.meta \in Metas \cup {NONE}
      /\ Is(f, "dir") => IsDir(tree, f.id)
  BY <1>1, Looks
<1>5. f.meta.parent \in Answers
  BY <1>3, <1>4, Ends DEF Metas
<1>6. f.r.path[to] = redis.path[to] /\ f.r.path[Front(to)] = redis.path[Front(to)]
  BY <1>1, <1>3
<1>7. Keyed(f.r, to)
  BY <1>1, <1>6 DEF Keyed
<1>8. psql_path_to_id(f.r, tree, to).id = At(tree, to)
  BY <1>1, <1>2, <1>6, KeyedSame
<1>9. /\ g.r.path[to] = At(tree, to) /\ \A q \in Paths \ {to} : g.r.path[q] = f.r.path[q]
      /\ At(tree, to) = NONE => g.meta = NONE /\ g.id = NONE
      /\ At(tree, to) \in Shown(tree) => g.id = At(tree, to) /\ g.meta # NONE
  BY <1>1, <1>4, <1>7, <1>8, KeyedLookup
<1>10. g.r \in Redises /\ Knows(g.r, tree) /\ Unused(g.r, tree, unused) /\ Good(Start(g.r))
  BY <1>1, <1>4, Looks
<1>11. ASSUME At(tree, to) = NONE
       PROVE  /\ f.r.path[Front(to)] # NONE
              /\ f.r.path[Front(to)] \in Dirs => Named(tree, f.r.path[Front(to)], Last(to)) = {}
  <2>1. psql_path_to_id(f.r, tree, to).id = NONE
    BY <1>8, <1>11
  <2> QED BY <1>1, <1>4, <1>7, <2>1, KeyedAbsent
<1>12. g.r.path[Front(to)] = f.r.path[Front(to)] /\ g.r.path[from] = i
  BY <1>1, <1>3, <1>9
<1> QED BY <1>1, <1>3, <1>4, <1>5, <1>9, <1>10, <1>11, <1>12 DEF Begins

\* What Rename does then.
LEMMA RenameDoes ==
  ASSUME NEW from, NEW to, NEW ok, Copies(ok), RenameTo(from, to, ok),
         NEW f, f = psql_read_meta_from_path(redis, tree, from), f.meta # NONE, ~Is(f, "dir"),
         NEW g, g = psql_read_meta_from_path(f.r, tree, to),
         NEW m, m = psql_read_meta_from_path(g.r, tree, Front(to))
  PROVE  \/ tree' = tree
         \/ /\ g.meta # NONE
            /\ \/ \E s \in Replace(Start(g.r), f.id, g.id, g.meta, ok) : \E r : Finish(s, r)
               \/ \E s \in ReplaceFails(Start(g.r), f.id, g.id, f.meta, ok) : Refuse(s)
         \/ /\ ~(g.meta # NONE /\ g.id # Root) /\ Is(m, "dir")
            /\ \E s \in psql_rename(Start(m.r), f.id, f.meta.parent, m.id, from, to, ok) : \E r : Finish(s, r)
<1>1. \A r : Refuse(Start(r)) => tree' = tree
  BY DEF Refuse, Start
<1>2. \/ Refuse(Start(f.r)) \/ Refuse(Start(g.r)) \/ Refuse(Start(m.r))
      \/ /\ g.meta # NONE
         /\ \/ \E s \in Replace(Start(g.r), f.id, g.id, g.meta, ok) :
                 Finish(s, Del(s.r, {from}, {}, {f.meta.parent}))
            \/ \E s \in ReplaceFails(Start(g.r), f.id, g.id, f.meta, ok) : Refuse(s)
      \/ /\ ~(g.meta # NONE /\ g.id # Root) /\ Is(m, "dir")
         /\ \E s \in psql_rename(Start(m.r), f.id, f.meta.parent, m.id, from, to, ok) :
              Finish(s, Del(s.r, {from}, {}, {m.id, f.meta.parent}))
  BY DEF RenameTo
<1> QED BY <1>1, <1>2

\* Onto another file.
LEMMA OntoKeeps ==
  ASSUME NEW i, NEW from, NEW to, Speaks(i, from, to), At(tree, to) # NONE, NEW ok, Copies(ok),
         NEW f, NEW g, Begins(from, to, i, f, g),
         NEW w, \/ w \in Replace(Start(g.r), f.id, g.id, g.meta, ok) /\ \E r : Finish(w, r)
                \/ w \in ReplaceFails(Start(g.r), f.id, g.id, f.meta, ok) /\ Refuse(w)
  PROVE  Has(tree', tree[i].data)
<1> DEFINE s == Start(g.r)
           j == g.id
           x == tree[i].data
<1>0. x # NONE
  BY DEF Speaks
<1>1. /\ i \in Ids /\ i \in Shown(tree) /\ ~IsDir(tree, i) /\ tree \in Trees
      /\ from \in Paths /\ to \in Paths /\ from # to /\ At(tree, from) = i
      /\ At(tree, to) \in Ids /\ At(tree, to) \in Shown(tree) /\ ~IsDir(tree, At(tree, to))
  BY SpeaksFacts
<1>2. f.id = i /\ j = At(tree, to) /\ Good(s)
  BY DEF Begins
<1>3. s.t = tree /\ s.u = tree
  BY DEF Start
<1>4. i # j
  BY <1>1, <1>2, OnePath, NamespaceAssumption
<1>5. \/ w \in Replace(s, i, j, g.meta, ok) /\ \E r : Finish(w, r)
      \/ w \in ReplaceFails(s, i, j, f.meta, ok) /\ Refuse(w)
  BY <1>2
<1> HIDE DEF s, j
<1>6. Overwrites(s, i, j, x)
  BY <1>0, <1>1, <1>2, <1>3, <1>4 DEF Overwrites, Unchanged, Bears
<1> HIDE DEF x
<1>7. Keeps(w, x)
  BY <1>5, <1>6, ReplaceKeeps, ReplaceFailsKeeps
<1>8. Has(tree', x)
  BY <1>5, <1>7, KeptAtEnd
<1> QED BY <1>8 DEF x

\* To a free name.
LEMMA FreeKeeps ==
  ASSUME NEW i, NEW from, NEW to, Speaks(i, from, to), At(tree, to) = NONE,
         tree[i].kind = "portal" \/ Last(to) \in TempNames \/ failures' = failures,
         NEW f, NEW g, Begins(from, to, i, f, g),
         NEW m, m = psql_read_meta_from_path(g.r, tree, Front(to)), Is(m, "dir"),
         NEW ok, Copies(ok), NEW w \in psql_rename(Start(m.r), f.id, f.meta.parent, m.id, from, to, ok), NEW r, Finish(w, r)
  PROVE  Has(tree', tree[i].data)
<1> DEFINE s == Start(m.r)
           x == tree[i].data
           d == f.meta.parent
           e == m.id
           n == Last(to)
<1>0. x # NONE
  BY DEF Speaks
<1>1. /\ RInv /\ i \in Ids /\ i \in Shown(tree) /\ ~IsDir(tree, i) /\ tree \in Trees
      /\ from \in Paths /\ from # <<>> /\ to \in Paths /\ to # <<>> /\ from # to
      /\ Front(to) \in Paths /\ from # Front(to) /\ to # Front(to)
  BY SpeaksFacts
<1>2. /\ f.id = i /\ d \in Answers
      /\ g.r \in Redises /\ Knows(g.r, tree) /\ Unused(g.r, tree, unused)
      /\ g.r.path[from] = i /\ g.r.path[to] = NONE /\ g.r.path[Front(to)] # NONE
      /\ g.r.path[Front(to)] \in Dirs => Named(tree, g.r.path[Front(to)], n) = {}
  BY DEF Begins
<1>3. /\ m.r.path[Front(to)] = g.r.path[Front(to)] /\ \A q \in Paths \ {Front(to)} : m.r.path[q] = g.r.path[q]
      /\ e = g.r.path[Front(to)]
  <2>1. /\ m.r.path[Front(to)] = psql_path_to_id(g.r, tree, Front(to)).id
        /\ \A q \in Paths \ {Front(to)} : m.r.path[q] = g.r.path[q]
        /\ psql_path_to_id(g.r, tree, Front(to)).id = g.r.path[Front(to)]
        /\ m.meta # NONE => m.id = psql_path_to_id(g.r, tree, Front(to)).id
    BY <1>1, <1>2, KeyedLookup
  <2> QED BY <2>1 DEF Is
<1>4. Good(s) /\ IsDir(tree, e) /\ e \in Dirs
  BY <1>1, <1>2, Looks
<1>5. s.t = tree /\ s.u = tree /\ s.r = m.r /\ s.failures = failures
  BY DEF Start
<1>6. s.r.path[from] = i /\ s.r.path[to] = NONE /\ s.r.path[Front(to)] = e
  BY <1>1, <1>2, <1>3, <1>5
<1>7. n \in Names /\ failures \in Nat
  BY <1>1, PathFacts, RInvFacts, NamespaceAssumption
<1>8. w \in psql_rename(s, i, d, e, from, to, ok)
  BY <1>2
<1> HIDE DEF s, d, e
<1>9. Crosses(s, i, to, e, n, x)
  BY <1>0, <1>1, <1>2, <1>3, <1>4, <1>5, <1>6, <1>7 DEF Crosses, Unchanged, Bears
<1> HIDE DEF x, n
<1>10. Keeps(w, x) \/ Risks(w, s, i, n, x)
  BY <1>1, <1>2, <1>6, <1>8, <1>9, PsqlRenameKeeps
<1>11. CASE Keeps(w, x)
  <2>1. Has(tree', x)
    BY <1>11, KeptAtEnd
  <2> QED BY <2>1 DEF x
<1>12. CASE Risks(w, s, i, n, x)
  <2>1. ~OfPortal(tree, i) /\ n \notin TempNames
    BY <1>5, <1>12 DEF Risks
  <2>2. tree[i].kind # "portal"
    BY <1>1, <2>1 DEF OfPortal, Portal, Shown
  <2>3. failures' = failures
    BY <2>1, <2>2 DEF n
  <2>4. Has(tree', x)
    BY <1>5, <1>7, <1>12, <2>3, RiskedAtEnd
  <2> QED BY <2>4 DEF x
<1> QED BY <1>10, <1>11, <1>12

\* rename, as a whole.
LEMMA RenameKeeps ==
  ASSUME NEW i, NEW from, NEW to, Speaks(i, from, to), NEW ok, Copies(ok), RenameTo(from, to, ok),
         tree[i].kind = "portal" \/ Last(to) \in TempNames \/ failures' = failures
  PROVE  Has(tree', tree[i].data)
<1> DEFINE f == psql_read_meta_from_path(redis, tree, from)
           g == psql_read_meta_from_path(f.r, tree, to)
           m == psql_read_meta_from_path(g.r, tree, Front(to))
<1>1. Begins(from, to, i, f, g)
  BY RenameBegins
<1>2. f.meta # NONE /\ ~Is(f, "dir")
  BY <1>1 DEF Begins
<1>3. \/ tree' = tree
      \/ /\ g.meta # NONE
         /\ \/ \E s \in Replace(Start(g.r), f.id, g.id, g.meta, ok) : \E r : Finish(s, r)
            \/ \E s \in ReplaceFails(Start(g.r), f.id, g.id, f.meta, ok) : Refuse(s)
      \/ /\ ~(g.meta # NONE /\ g.id # Root) /\ Is(m, "dir")
         /\ \E s \in psql_rename(Start(m.r), f.id, f.meta.parent, m.id, from, to, ok) : \E r : Finish(s, r)
  BY <1>2, RenameDoes
<1>4. m = psql_read_meta_from_path(g.r, tree, Front(to))
  OBVIOUS
<1> HIDE DEF f, g, m
<1>5. i \in Shown(tree)
  BY DEF Speaks
<1>6. CASE tree' = tree
  BY <1>5, <1>6, BearsHas DEF Bears
<1>7. CASE /\ g.meta # NONE
           /\ \/ \E s \in Replace(Start(g.r), f.id, g.id, g.meta, ok) : \E r : Finish(s, r)
              \/ \E s \in ReplaceFails(Start(g.r), f.id, g.id, f.meta, ok) : Refuse(s)
  <2>1. At(tree, to) # NONE
    BY <1>1, <1>7 DEF Begins
  <2>2. PICK w : \/ w \in Replace(Start(g.r), f.id, g.id, g.meta, ok) /\ \E r : Finish(w, r)
                 \/ w \in ReplaceFails(Start(g.r), f.id, g.id, f.meta, ok) /\ Refuse(w)
    BY <1>7
  <2> QED BY <1>1, <2>1, <2>2, OntoKeeps
<1>8. CASE /\ ~(g.meta # NONE /\ g.id # Root) /\ Is(m, "dir")
           /\ \E s \in psql_rename(Start(m.r), f.id, f.meta.parent, m.id, from, to, ok) : \E r : Finish(s, r)
  <2>1. At(tree, to) = NONE
    <3>1. At(tree, to) # Root
      BY SpeaksFacts, AtFacts
    <3> QED BY <1>1, <1>8, <3>1 DEF Begins
  <2>2. PICK w \in psql_rename(Start(m.r), f.id, f.meta.parent, m.id, from, to, ok) : \E r : Finish(w, r)
    BY <1>8
  <2>3. PICK r : Finish(w, r)
    BY <2>2
  <2> QED BY <1>1, <1>4, <1>8, <2>1, <2>2, <2>3, FreeKeeps
<1> QED BY <1>3, <1>6, <1>7, <1>8

\* A rename that finds the right entries, and whose copy_mmap copies what it is
\* to copy, loses no data, but that of a temporary file that becomes a
\* file of the portal when something fails: the data is in the new entry before
\* the old one goes (pgsql.c, psql_rename, psql_rename_to_existing_file).
THEOREM RenameLosesNoData == Spec => RenameKeepsData
<1> DEFINE A == \A i \in Shown(tree), from, to \in Paths \ {<<>>} :
       tree[i].kind = "portal" \/ Last(to) \in TempNames \/ failures' = failures
       => ~LosesData(i, from, to)
<1>1. OInv => A
  <2> SUFFICES ASSUME OInv, NEW i \in Shown(tree),
                      NEW from \in Paths \ {<<>>}, NEW to \in Paths \ {<<>>},
                      tree[i].kind = "portal" \/ Last(to) \in TempNames \/ failures' = failures,
                      LosesData(i, from, to)
               PROVE  FALSE
    OBVIOUS
  <2> DEFINE ok == TRUE
  <2>0. Copies(ok)
    BY DEF Copies
  <2>1. /\ tree[i].kind # "dir" /\ tree[i].data # NONE
        /\ Lost(i) /\ NoTwins(tree)
        /\ At(tree, from) = i
        /\ \A p \in {from, to} : Resolves(p) /\ Straight(p)
        /\ RenameTo(from, to, ok)
    BY DEF LosesData
  <2> HIDE DEF ok
  <2>2. Allowed(from, to)
    BY <2>1 DEF RenameTo
  <2>3. Speaks(i, from, to)
    BY <2>1, <2>2 DEF Speaks, OInv
  <2>4. Has(tree', tree[i].data)
    BY <2>0, <2>1, <2>3, RenameKeeps
  <2> QED BY <2>1, <2>4 DEF Lost, Has, Bears
<1>2. OInv /\ OInv' /\ [Next]_vars => [A]_vars
  BY <1>1
<1> HIDE DEF A
<1>3. Spec => [][A]_vars
  BY <1>2, InitOnce, NextOnce, PTL DEF Spec
<1> QED BY <1>3 DEF RenameKeepsData, A
===============================================================================
