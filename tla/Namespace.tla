------------------------------ MODULE Namespace -------------------------------
(***************************************************************************)
(* Paths and directories.  The tree is the view "dir" of the database:     *)
(* folders and files of the portal, and a table of pgfuse's own for        *)
(* temporary files and symbolic links.  Redis keeps the id of each path    *)
(* that was resolved, the attributes of each id (here: its type and its    *)
(* parent) and the names in each directory that was read.                  *)
(*                                                                         *)
(* A handler is one action: the kernel's lock on the directory and the     *)
(* locks of libfuse on the nodes of a path keep others out.  What cuts it  *)
(* short is in the action: a portal that does not answer, a transaction    *)
(* that does not commit, a crash before the keys of Redis are deleted.     *)
(***************************************************************************)
EXTENDS Naturals, FiniteSets, SequencesExt

CONSTANTS
  Names,        \* names of entries
  TempNames,    \* names of temporary files, see name_file_is_temp
  Paths,        \* paths, as sequences of names
  Ids,          \* bound: ids of the entries that are ever made
  Root,         \* id 0
  NONE,         \* no key, no row, -ENOENT
  Bad,          \* -EIO, or what psql_path_to_id makes of it
  Down,         \* the tree seen by a transaction that has failed
  MaxFailures   \* bound: things that go wrong

ASSUME NamespaceAssumption ==
  /\ TempNames \subseteq Names
  /\ Paths \subseteq Seq(Names)
  /\ <<>> \in Paths
  /\ \A p \in Paths : \A n \in 0 .. Len(p) : SubSeq(p, 1, n) \in Paths
  /\ Root \notin Ids /\ NONE \notin Ids /\ Bad \notin Ids
  /\ Root # NONE /\ Root # Bad /\ Bad # NONE
  /\ MaxFailures \in Nat

VARIABLES
  tree,      \* the rows, committed
  redis,     \* the keys <path>:path, the hashes <id>, the lists <id>:dir
  unused,    \* ids not given out yet
  failures

vars == <<tree, redis, unused, failures>>

Dirs == Ids \cup {Root}
Kinds == {"dir", "portal", "temp", "link"}
Rows == [parent : Dirs, name : Names, kind : Kinds, data : Ids \cup {NONE}, del : BOOLEAN]
Metas == [mode : {"dir", "reg", "link"}, parent : Dirs]
Trees == [Ids -> Rows \cup {NONE}]
Redises == [path : [Paths -> Dirs \cup {NONE, Bad}],
            meta : [Dirs -> Metas \cup {NONE}],
            list : [Dirs -> SUBSET Names]]

ASSUME NothingAssumption ==
  /\ NONE \notin Rows \cup Metas
  /\ Down \notin Trees

\* The tree holds rows, Redis ids of them or of an error; an id not given out
\* yet has no row.
TypeOK ==
  /\ tree \in Trees
  /\ redis \in Redises
  /\ unused \subseteq Ids
  /\ \A i \in unused : tree[i] = NONE
  /\ failures \in 0 .. MaxFailures

Init ==
  /\ tree = [i \in Ids |-> NONE]
  /\ redis = [path |-> [p \in Paths |-> NONE],
              meta |-> [d \in Dirs |-> NONE],
              list |-> [d \in Dirs |-> {}]]
  /\ unused = Ids
  /\ failures = 0

-------------------------------------------------------------------------------
(* The view, and the entry a path leads to in it.                            *)

Shown(t) == {i \in Ids : t[i] # NONE /\ ~t[i].del}
Children(t, d) == {i \in Shown(t) : t[i].parent = d}
Named(t, d, n) == {i \in Children(t, d) : t[i].name = n}
IsDir(t, d) == d = Root \/ (d \in Shown(t) /\ t[d].kind = "dir")

\* The entry of name n in d, and the entry at p, or NONE.
Entry(t, d, n) ==
  IF Named(t, d, n) = {} THEN NONE ELSE CHOOSE i \in Named(t, d, n) : TRUE

At(t, p) ==
  LET at[n \in 0 .. Len(p)] == IF n = 0 THEN Root ELSE Entry(t, at[n - 1], p[n])
  IN at[Len(p)]

\* Entries by the names of the portal and of the table of pgfuse: the portal
\* and the constraint UNIQUE of the table take no name twice.
Portal == {"dir", "portal"}
Taken(t, d, n, kinds) == \E i \in Ids : t[i] # NONE /\ t[i].parent = d /\ t[i].name = n /\ t[i].kind \in kinds

\* data is what the file of the entry on the disk holds, NONE if there is none:
\* the target of a link is a row of a table.
Row(i, d, n, k) ==
  [parent |-> d, name |-> n, kind |-> k,
   data |-> IF k \in {"portal", "temp"} THEN i ELSE NONE, del |-> FALSE]

-------------------------------------------------------------------------------
(* Redis, and resolution of paths and attributes.                            *)

SetPath(r, p, id) == [r EXCEPT !.path[p] = id]
SetMeta(r, id, m) == [r EXCEPT !.meta[id] = m]
Del(r, ps, ms, ls) ==
  [path |-> [p \in Paths |-> IF p \in ps THEN NONE ELSE r.path[p]],
   meta |-> [d \in Dirs |-> IF d \in ms THEN NONE ELSE r.meta[d]],
   list |-> [d \in Dirs |-> IF d \in ls THEN {} ELSE r.list[d]]]

get_id_from_db(t, d, n) ==
  IF t = Down THEN Bad
  ELSE LET found == IF d \in Dirs THEN Named(t, d, n) ELSE {}
       IN IF found = {} THEN NONE
          ELSE IF Cardinality(found) > 1 THEN Bad
          ELSE CHOOSE i \in found : TRUE

\* The loop of psql_path_to_id from the root to the directory p: what it has
\* before, d, and after it has come to q.
Into(d, t, q) ==
  LET id == IF d.r.path[q] # NONE THEN d.r.path[q] ELSE get_id_from_db(t, d.id, Last(q))
  IN IF d.id = NONE THEN d
     ELSE [id |-> id, r |-> IF id = NONE THEN d.r ELSE SetPath(d.r, q, id)]

Descend(r, t, p) ==
  LET at[n \in 0 .. Len(p)] ==
        IF n = 0 THEN [id |-> Root, r |-> r] ELSE Into(at[n - 1], t, SubSeq(p, 1, n))
  IN at[Len(p)]

\* dirname has cut the path that the loop goes down: its answer is the parent
\* of p, and without a component the number of an error.
psql_path_to_id(r, t, p) ==
  CASE r.path[p] # NONE -> [id |-> r.path[p], r |-> r]
    [] r.path[p] = NONE /\ p = <<>> -> [id |-> Root, r |-> SetPath(r, p, Root)]
    [] r.path[p] = NONE /\ p # <<>> /\ r.path[Front(p)] # NONE ->
         LET id == get_id_from_db(t, r.path[Front(p)], Last(p))
         IN [id |-> id, r |-> IF id = NONE THEN r ELSE SetPath(r, p, id)]
    [] OTHER ->
         LET d == Descend(r, t, Front(p))
         IN [id |-> IF Len(p) = 1 THEN Bad ELSE d.id, r |-> d.r]

Mode(k) == IF k \in {"portal", "temp"} THEN "reg" ELSE k
Attributes(t, id) ==
  IF id = Root THEN [mode |-> "dir", parent |-> Root]
               ELSE [mode |-> Mode(t[id].kind), parent |-> t[id].parent]

\* The field id is NONE or Bad, and meta is NONE, when there is no answer.
psql_read_meta(r, t, id) ==
  CASE id \notin Dirs -> [id |-> id, meta |-> NONE, r |-> r]
    [] id \in Dirs /\ r.meta[id] # NONE -> [id |-> id, meta |-> r.meta[id], r |-> r]
    [] OTHER ->
         IF t = Down THEN [id |-> Bad, meta |-> NONE, r |-> r]
         ELSE IF id # Root /\ id \notin Shown(t) THEN [id |-> NONE, meta |-> NONE, r |-> r]
         ELSE [id |-> id, meta |-> Attributes(t, id), r |-> SetMeta(r, id, Attributes(t, id))]

psql_read_meta_from_path(r, t, p) ==
  LET a == psql_path_to_id(r, t, p) IN psql_read_meta(a.r, t, a.id)

Is(m, mode) == m.meta # NONE /\ m.meta.mode = mode

-------------------------------------------------------------------------------
(* A handler at work: t is the tree as its transaction sees it, u the tree   *)
(* that is left if it does not commit, r Redis.                              *)

Start(r) == [t |-> tree, u |-> tree, r |-> r, unused |-> unused, failures |-> failures, id |-> NONE]

\* A call of the portal, which commits for itself, or fails.
Call(s, Do(_)) ==
  {[s EXCEPT !.t = Do(s.t), !.u = Do(s.u)]}
    \cup (IF s.failures < MaxFailures THEN {[s EXCEPT !.failures = @ + 1]} ELSE {})

\* Mutant: an id is given out twice.
AddAgain(s, d, n, k) ==
  UNION {Call([s EXCEPT !.id = i], LAMBDA t : [t EXCEPT ![i] = Row(i, d, n, k)]) : i \in s.unused}

\* A new entry of the portal; s.id is its id, and 0 if the call failed or the
\* portal refused: the name is taken, the folder is not there.
Add(s, d, n, k) ==
  {IF x.failures # s.failures \/ ~IsDir(s.t, d) \/ Taken(s.t, d, n, Portal)
     THEN [x EXCEPT !.t = s.t, !.u = s.u, !.id = Root]
     ELSE x :
   x \in UNION {Call([s EXCEPT !.id = i, !.unused = @ \ {i}],
                     LAMBDA t : [t EXCEPT ![i] = Row(i, d, n, k)]) : i \in s.unused}}

\* Entries the portal deletes with i: a folder goes with the files it hides.
Drop(t, i) == [j \in Ids |-> IF j = i \/ (t[j] # NONE /\ t[j].parent = i) THEN NONE ELSE t[j]]

\* ROLLBACK: nothing of the transaction is left.
Refuse(s) ==
  /\ tree' = s.u
  /\ redis' = s.r
  /\ unused' = s.unused
  /\ failures' = s.failures

\* COMMIT, then Redis is left as r; or something goes wrong: COMMIT fails, is
\* not heard of, or pgfuse dies after it.
Finish(s, r) ==
  /\ unused' = s.unused
  /\ \/ tree' = s.t /\ redis' = r /\ failures' = s.failures
     \/ /\ s.failures < MaxFailures
        /\ failures' = s.failures + 1
        /\ redis' = s.r
        /\ tree' \in {s.t, s.u}

\* The kernel asks for entries of directories there are, makes new ones where
\* it has just found none, and removes and renames those that are there or
\* that a key in Redis has made it find.
Known(p) == p # <<>> /\ IsDir(tree, At(tree, Front(p)))
Absent(p) == Known(p) /\ psql_read_meta_from_path(redis, tree, p).id = NONE
Found(p) == Known(p) /\ (At(tree, p) # NONE \/ redis.path[p] # NONE)

-------------------------------------------------------------------------------
(* Requests that only look.                                                  *)

Getattr(p) ==
  /\ p = <<>> \/ Known(p)
  /\ Refuse(Start(psql_read_meta_from_path(redis, tree, p).r))

\* The same in a transaction whose connection is lost.
GetattrFails(p) ==
  /\ p = <<>> \/ Known(p)
  /\ failures < MaxFailures
  /\ failures' = failures + 1
  /\ redis' = psql_read_meta_from_path(redis, Down, p).r
  /\ UNCHANGED <<tree, unused>>

Opendir(p) ==
  /\ p = <<>> \/ Known(p)
  /\ Refuse(Start(psql_path_to_id(redis, tree, p).r))

\* The names are pushed one by one to an absent list; a list that is there is
\* the answer.
Readdir(d) ==
  /\ IsDir(tree, d)
  /\ redis.list[d] = {}
  /\ LET all == {tree[i].name : i \in Children(tree, d)}
     IN \E names \in SUBSET all :
          /\ names = all \/ failures < MaxFailures
          /\ failures' = IF names = all THEN failures ELSE failures + 1
          /\ redis' = [redis EXCEPT !.list[d] = names]
  /\ UNCHANGED <<tree, unused>>

-------------------------------------------------------------------------------
(* Requests that make an entry.                                              *)

Hidden(t, d, n) == {i \in Ids : t[i] # NONE /\ t[i].del /\ t[i].parent = d /\ t[i].name = n}
Reveal(t, i) == [t EXCEPT ![i].del = FALSE]

TakenInTable(t, d, n) == Taken(t, d, n, {"temp", "link"})

\* INSERT, unless the name is taken in the table.
Insert(s, d, n, k) ==
  IF TakenInTable(s.t, d, n) THEN {}
  ELSE {[s EXCEPT !.t[i] = Row(i, d, n, k), !.unused = @ \ {i}] : i \in s.unused}

psql_create_file(s, p, d, n) ==
  {[x EXCEPT !.r = Del(@, {}, {}, {d})] :
     x \in IF n \in TempNames THEN Insert(s, d, n, "temp")
           ELSE IF Hidden(s.t, d, n) = {}
             THEN {[y EXCEPT !.r = SetPath(@, p, y.id)] : y \in Add(s, d, n, "portal")}
           ELSE {[s EXCEPT !.t = Reveal(@, i), !.id = i] : i \in Hidden(s.t, d, n)}}

\* The id is looked up, and kept in Redis, before COMMIT.
Create(p) ==
  LET m == psql_read_meta_from_path(redis, tree, Front(p))
  IN /\ Absent(p)
     /\ \/ /\ ~Is(m, "dir") \/ (Last(p) \in TempNames /\ TakenInTable(tree, m.id, Last(p)))
           /\ Refuse(Start(m.r))
        \/ /\ Is(m, "dir")
           /\ \E s \in psql_create_file(Start(m.r), p, m.id, Last(p)) :
                LET a == IF s.id \in Ids THEN [id |-> s.id, r |-> s.r]
                                         ELSE psql_path_to_id(s.r, s.t, p)
                    x == [s EXCEPT !.r = a.r]
                IN IF a.id \in Dirs THEN Finish(x, x.r) ELSE Refuse(x)

\* Mutant: the listing of the parent is kept.
MkdirKeeping(p) ==
  LET m == psql_read_meta_from_path(redis, tree, Front(p))
  IN /\ Absent(p)
     /\ Is(m, "dir")
     /\ \E s \in Add(Start(m.r), m.id, Last(p), "dir") : Finish(s, SetPath(s.r, p, s.id))

\* A hidden file of that name is deleted first.
Mkdir(p) ==
  LET m == psql_read_meta_from_path(redis, tree, Front(p))
      hidden == Hidden(tree, m.id, Last(p))
      Cleared(s) == IF hidden = {} THEN {s}
                    ELSE UNION {Call([s EXCEPT !.r = Del(@, {}, {i}, {})], LAMBDA t : Drop(t, i)) : i \in hidden}
  IN /\ Absent(p)
     /\ \/ ~Is(m, "dir") /\ Refuse(Start(m.r))
        \/ /\ Is(m, "dir")
           /\ \E s \in Cleared(Start(m.r)) : \E x \in Add(s, m.id, Last(p), "dir") :
                LET y == [x EXCEPT !.r = SetPath(@, p, x.id)]
                IN Finish(y, Del(y.r, {}, {}, {m.id}))

\* The listing of the parent is kept.
Symlink(p) ==
  LET m == psql_read_meta_from_path(redis, tree, Front(p))
  IN /\ Absent(p)
     /\ \/ /\ ~Is(m, "dir") \/ TakenInTable(tree, m.id, Last(p))
           /\ Refuse(Start(m.r))
        \/ /\ Is(m, "dir")
           /\ \E s \in Insert(Start(m.r), m.id, Last(p), "link") :
                LET a == psql_read_meta_from_path(s.r, s.t, p)
                    x == [s EXCEPT !.r = a.r]
                IN IF a.meta = NONE THEN Refuse(x) ELSE Finish(x, x.r)

-------------------------------------------------------------------------------
(* Requests that remove an entry.                                            *)

\* The file that holds the data goes at once, the row with the transaction.
\* DELETE does nothing to rows of the portal.
psql_delete_file(s, i) ==
  {[x EXCEPT !.r = Del(@, {}, {i}, {})] :
     x \in IF s.t[i] = NONE THEN {s}
           ELSE IF s.t[i].kind \in Portal THEN Call(s, LAMBDA t : Drop(t, i))
           ELSE {[s EXCEPT !.t[i] = NONE, !.u[i].data = NONE]}}

\* Mutant: the key of the path is kept.
UnlinkKeeping(p) ==
  LET m == psql_read_meta_from_path(redis, tree, p)
  IN /\ Found(p)
     /\ m.meta # NONE
     /\ ~Is(m, "dir")
     /\ \E s \in psql_delete_file(Start(m.r), m.id) : Finish(s, Del(s.r, {}, {}, {m.meta.parent}))

Unlink(p) ==
  LET m == psql_read_meta_from_path(redis, tree, p)
  IN /\ Found(p)
     /\ \/ (m.meta = NONE \/ Is(m, "dir")) /\ Refuse(Start(m.r))
        \/ /\ m.meta # NONE
           /\ ~Is(m, "dir")
           /\ \E s \in psql_delete_file(Start(m.r), m.id) :
                Finish(s, Del(s.r, {p}, {}, {m.meta.parent}))

\* The row of the root is its own child.
Empty(t, d) == d # Root /\ Children(t, d) = {}

\* Mutant: entries are not counted.
RmdirFull(p) ==
  LET m == psql_read_meta_from_path(redis, tree, p)
  IN /\ Found(p)
     /\ Is(m, "dir")
     /\ m.id # Root
     /\ \E s \in Call(Start(m.r), LAMBDA t : [t EXCEPT ![m.id] = NONE]) :
          LET x == [s EXCEPT !.r = Del(@, {}, {m.id}, {m.id})]
          IN Finish(x, Del(x.r, {p}, {}, {m.meta.parent}))

Rmdir(p) ==
  LET m == psql_read_meta_from_path(redis, tree, p)
  IN /\ Found(p)
     /\ \/ ~(Is(m, "dir") /\ Empty(tree, m.id)) /\ Refuse(Start(m.r))
        \/ /\ Is(m, "dir")
           /\ Empty(tree, m.id)
           /\ \E s \in Call(Start(m.r), LAMBDA t : Drop(t, m.id)) :
                LET x == [s EXCEPT !.r = Del(@, {}, {m.id}, {m.id})]
                IN Finish(x, Del(x.r, {p}, {}, {m.meta.parent}))

-------------------------------------------------------------------------------
NamespaceNext ==
  \/ \E p \in Paths :
       \/ Getattr(p)
       \/ GetattrFails(p)
       \/ Opendir(p)
       \/ Create(p)
       \/ Mkdir(p)
       \/ Symlink(p)
       \/ Unlink(p)
       \/ Rmdir(p)
  \/ \E d \in Dirs : Readdir(d)

NamespaceSpec == Init /\ [][NamespaceNext]_vars

===============================================================================
