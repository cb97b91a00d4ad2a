-------------------------------- MODULE Rename --------------------------------
(***************************************************************************)
(* Rename, and with it all requests on the tree.  A rename is an UPDATE    *)
(* only between names of temporary files.  Entries of the portal are       *)
(* renamed by calls of the portal; between the two kinds the data is       *)
(* copied to a new or to a hidden entry and the old one is hidden or       *)
(* deleted.                                                                *)
(***************************************************************************)
EXTENDS Namespace

-------------------------------------------------------------------------------
(* What the portal does with an entry of kind k: it refuses a name that is   *)
(* taken in the folder, a folder that is not there, and to put a folder      *)
(* below itself.                                                             *)

Is_a(t, i, k) == i \in Ids /\ t[i] # NONE /\ t[i].kind = k

Entitle(t, i, k, n) ==
  IF ~Is_a(t, i, k) \/ Taken(t, t[i].parent, n, Portal) THEN t ELSE [t EXCEPT ![i].name = n]

\* d is i or below it: whatever holds d and the parents of what it holds holds
\* i.
Upward(t, S) == \A j \in S \cap Ids : t[j] # NONE => t[j].parent \in S
Below(t, d, i) == \A S \in SUBSET Dirs : d \in S /\ Upward(t, S) => i \in S

Move(t, i, k, d) ==
  IF ~Is_a(t, i, k) \/ ~IsDir(t, d) \/ Taken(t, d, t[i].name, Portal) \/ Below(t, d, i) THEN t
  ELSE [t EXCEPT ![i].parent = d]

-------------------------------------------------------------------------------
Data(t, i) == IF i \in Ids /\ t[i] # NONE THEN t[i].data ELSE NONE
Write(s, j, data) ==
  LET To(t) == IF j \in Ids /\ t[j] # NONE THEN [t EXCEPT ![j].data = data] ELSE t
  IN [s EXCEPT !.t = To(@), !.u = To(@)]
Fail(s) == IF s.failures = MaxFailures THEN {} ELSE {[s EXCEPT !.failures = @ + 1]}

\* copy_mmap; the files are not part of the transaction.  If it does not
\* succeed, because there is nothing to copy or because something fails, the
\* destination is as it was or has been truncated.  No caller asks.
copy_mmap(s, i, j, ok) ==
  LET data == Data(s.t, i)
      Truncated(x) == {x, Write(x, j, NONE)}
  IN IF ok /\ data # NONE THEN {Write(s, j, data)}
     ELSE IF ok THEN Truncated(s)
     ELSE UNION {Truncated(x) : x \in Fail(s)}

set_del_dlfileentry(s, i, del) ==
  [s EXCEPT !.t = IF Is_a(@, i, "portal") THEN [@ EXCEPT ![i].del = del] ELSE @,
            !.r = IF del THEN Del(@, {}, {i}, {}) ELSE @]

DeleteRow(s, i) ==
  IF s.t[i] # NONE /\ s.t[i].kind \notin Portal THEN [s EXCEPT !.t[i] = NONE] ELSE s

\* The statement fails, which nobody sees; COMMIT will roll back.
Hide(s, i) ==
  {set_del_dlfileentry(s, i, TRUE)}
    \cup {[x EXCEPT !.t = x.u, !.r = Del(@, {}, {i}, {})] : x \in Fail(s)}

OfPortal(t, i) == i = Root \/ (i \in Ids /\ t[i] # NONE /\ t[i].kind \in Portal)

\* A directory: two calls, whatever comes of them.
RenameDir(s, i, d, to_d, n) ==
  {[x EXCEPT !.r = Del(@, {}, {i}, {})] :
     x \in UNION {IF d = to_d THEN {y} ELSE Call(y, LAMBDA t : Move(t, i, "dir", to_d)) :
                  y \in Call(s, LAMBDA t : Entitle(t, i, "dir", n))}}

\* Both parents are looked at before a file is renamed in place.
Parents(s, d, to_d) ==
  LET a == psql_read_meta(s.r, s.t, d)
      b == psql_read_meta(a.r, s.t, to_d)
  IN [dirs |-> Is(a, "dir") /\ Is(b, "dir"),
      s |-> [s EXCEPT !.r = IF Is(a, "dir") THEN b.r ELSE a.r]]

\* Mutant: the attributes of the file are kept in Redis.
RenameTempKeeping(s, i, d, to_d, n) ==
  LET x == Parents(s, d, to_d)
  IN IF ~x.dirs \/ s.t[i] = NONE \/ TakenInTable(s.t, to_d, n) THEN {x.s}
     ELSE {[x.s EXCEPT !.t[i].parent = to_d, !.t[i].name = n]}

RenameTemp(s, i, d, to_d, n) ==
  LET x == Parents(s, d, to_d)
  IN IF ~x.dirs \/ s.t[i] = NONE \/ TakenInTable(s.t, to_d, n) THEN {x.s}
     ELSE {[x.s EXCEPT !.t[i].parent = to_d, !.t[i].name = n, !.r = Del(@, {}, {i}, {})]}

\* The attributes of the file are kept in Redis.
RenamePortal(s, i, d, to_d, n) ==
  LET x == Parents(s, d, to_d)
  IN IF ~x.dirs THEN {x.s}
     ELSE UNION {Call(y, LAMBDA t : Entitle(t, i, "portal", n)) :
                 y \in IF d = to_d THEN {x.s} ELSE Call(x.s, LAMBDA t : Move(t, i, "portal", to_d))}

\* Where the path p leads in the tree t, and the data of i is copied there.
FindPath(s, t, p) == LET a == psql_path_to_id(s.r, t, p) IN [s EXCEPT !.r = a.r, !.id = a.id]
Fill(s, i, p, ok) == LET y == FindPath(s, s.t, p) IN copy_mmap(y, i, y.id, ok)

\* Mutant: a file that changes its kind is removed first.
RenameAcrossEarly(s, i, m, from, to, to_d, n, ok) ==
  LET Removed == IF OfPortal(s.t, i) THEN Hide(s, i) ELSE psql_delete_file(s, i)
  IN UNION {UNION {Fill(x, i, to, ok) : x \in psql_create_file(y, to, to_d, n)} : y \in Removed}

\* From one kind to the other; m are the attributes of the file i.
RenameAcross(s, i, m, from, to, to_d, n, ok) ==
  LET hidden == IF n \in TempNames THEN {} ELSE Hidden(s.t, to_d, n)
      Refused == n \in TempNames /\ TakenInTable(s.t, to_d, n)
      Made == IF hidden = {} THEN psql_create_file(s, to, to_d, n)
              ELSE {[set_del_dlfileentry(s, h, FALSE) EXCEPT !.r = SetMeta(@, h, m)] : h \in hidden}
      Removed(x) ==
        IF OfPortal(s.t, i) THEN Hide(x, i)
        ELSE IF x.id \in Ids /\ ~OfPortal(x.t, x.id) THEN {x}
        ELSE psql_delete_file(x, i)
  IN IF Refused THEN {s} ELSE UNION {UNION {Removed(y) : y \in Fill(x, i, to, ok)} : x \in Made}

\* To the portal, when the search for a hidden file fails or the statement
\* that shows it again.  The transaction is lost; what does not need it goes
\* on: keys, the copy and the end of the old data, where Redis knows the files.
RenameLost(s, i, m, to, to_d, n, ok) ==
  LET Begun(x) == {x} \cup {[x EXCEPT !.r = SetMeta(@, h, m)] : h \in Hidden(s.t, to_d, n)}
      Filled(x) == LET y == FindPath(x, Down, to) IN {y} \cup copy_mmap(y, i, y.id, ok)
      Removed(x) ==
        {x} \cup (IF (x.id \in Ids /\ ~OfPortal(s.t, x.id)) \/ x.u[i] = NONE THEN {}
                  ELSE {[x EXCEPT !.u[i].data = NONE]})
      Left(x) == [x EXCEPT !.t = x.u]
  IN UNION {UNION {UNION {{Left(z) : z \in Removed(y)} : y \in Filled(x)} : x \in Begun(f)} : f \in Fail(s)}

\* psql_rename: i and d are from_id and from_parent_id.
psql_rename(s, i, d, to_d, from, to, ok) ==
  LET m == psql_read_meta_from_path(s.r, s.t, from)
      x == [s EXCEPT !.r = m.r]
      n == Last(to)
  IN CASE m.meta = NONE -> {x}
       [] Is(m, "dir") -> RenameDir(x, i, d, to_d, n)
       [] m.meta # NONE /\ ~Is(m, "dir") /\ ~OfPortal(s.t, i) /\ n \in TempNames ->
            RenameTemp(x, i, d, to_d, n)
       [] m.meta # NONE /\ ~Is(m, "dir") /\ OfPortal(s.t, i) /\ n \notin TempNames ->
            RenamePortal(x, i, d, to_d, n)
       [] OTHER -> RenameAcross(x, i, m.meta, from, to, to_d, n, ok)
                     \cup (IF OfPortal(s.t, i) THEN {} ELSE RenameLost(x, i, m.meta, to, to_d, n, ok))

\* psql_rename_to_existing_file, i onto j, whose attributes are m.  Between two
\* files of the portal the new one is deleted and the old one moved.
Replace(s, i, j, m, ok) ==
  LET Forget(x) == [x EXCEPT !.r = Del(@, {}, {i, j}, {})]
      Calls == UNION {Call(x, LAMBDA t : Move(t, i, "portal", m.parent)) : x \in Call(s, LAMBDA t : Drop(t, j))}
  IN {Forget(x) : x \in IF OfPortal(s.t, i) # OfPortal(s.t, j) THEN {}
                        ELSE IF OfPortal(s.t, i) THEN Calls
                        ELSE {DeleteRow(y, i) : y \in copy_mmap(s, i, j, ok)}}

\* The requests it refuses when the data has been copied.  Between the two
\* kinds it takes the id of the temporary file, cut to an int, for the number
\* of an error: these ids are given out downwards from 2^63 - 1.  Between
\* temporary files DELETE may fail when the attributes have been written.
ReplaceFails(s, i, j, from_m, ok) ==
  LET copied == copy_mmap(s, i, j, ok)
  IN IF OfPortal(s.t, i) # OfPortal(s.t, j) THEN copied
     ELSE IF OfPortal(s.t, i) THEN {}
     ELSE UNION {Fail([x EXCEPT !.r = SetMeta(@, j, from_m)]) : x \in copied}

\* The kernel renames only onto entries of the same kind, and nothing below
\* or above itself.
Allowed(from, to) ==
  /\ Found(from) /\ Known(to)
  /\ ~IsPrefix(from, to) /\ ~IsPrefix(to, from)
  /\ At(tree, to) # NONE => IsDir(tree, At(tree, from)) = IsDir(tree, At(tree, to))

\* ok: data that is to be copied is.
RenameTo(from, to, ok) ==
  LET f == psql_read_meta_from_path(redis, tree, from)
      g == psql_read_meta_from_path(f.r, tree, to)
      m == psql_read_meta_from_path(g.r, tree, Front(to))
      there == g.meta # NONE /\ g.id # Root
  IN /\ Allowed(from, to)
     /\ \/ f.meta = NONE /\ Refuse(Start(f.r))
        \/ /\ f.meta # NONE
           /\ g.id = Bad \/ (there /\ ~Is(g, "reg"))
           /\ Refuse(Start(g.r))
        \/ /\ f.meta # NONE /\ ~Is(f, "dir")
           /\ there /\ Is(g, "reg")
           /\ \/ \E s \in Replace(Start(g.r), f.id, g.id, g.meta, ok) :
                  Finish(s, Del(s.r, {from}, {}, {f.meta.parent}))
              \/ \E s \in ReplaceFails(Start(g.r), f.id, g.id, f.meta, ok) : Refuse(s)
        \/ /\ f.meta # NONE /\ ~there /\ g.id # Bad
           /\ \/ ~Is(m, "dir") /\ Refuse(Start(m.r))
              \/ /\ Is(m, "dir")
                 /\ \E s \in psql_rename(Start(m.r), f.id, f.meta.parent, m.id, from, to, ok) :
                      Finish(s, Del(s.r, {from}, {}, {m.id, f.meta.parent}))

Rename(from, to) == \E ok \in BOOLEAN : RenameTo(from, to, ok)

-------------------------------------------------------------------------------
Next == NamespaceNext \/ \E from, to \in Paths : Rename(from, to)

Spec == Init /\ [][Next]_vars

-------------------------------------------------------------------------------
(***************************************************************************)
(* Properties.                                                             *)
(***************************************************************************)

\* An entry that is shown is in a directory that is shown, and below the root:
\* no request takes a directory away from under its entries or moves one below
\* itself, though rmdir counts the entries before the portal deletes the folder,
\* and counts those of the id that Redis gives (pgfuse.c, pgfuse_rmdir; pgsql.c,
\* psql_delete_dir).
TreeIsSound ==
  \A i \in Shown(tree) : IsDir(tree, tree[i].parent) /\ Below(tree, i, Root)

\* What Redis says and the tree does not.
StalePath(p) == redis.path[p] \notin {NONE, At(tree, p)}
StaleMeta(i) == redis.meta[i] # NONE /\ i \in Shown(tree) /\ redis.meta[i] # Attributes(tree, i)
StaleList(d) == redis.list[d] # {} /\ redis.list[d] # {tree[i].name : i \in Children(tree, d)}

\* No name is shown twice in a directory.  The portal and the table of pgfuse
\* know nothing of each other's names.
NoTwins(t) == \A i \in Shown(t) : Named(t, t[i].parent, t[i].name) = {i}

\* A step from a state where Redis is right about paths and attributes and
\* knows all directories, in which nothing goes wrong.
Untroubled ==
  /\ failures' = failures
  /\ NoTwins(tree) /\ NoTwins(tree')
  /\ \A p \in Paths : /\ ~StalePath(p)
                      /\ IsDir(tree, At(tree, p)) => redis.path[p] # NONE
  /\ \A i \in Ids : ~StaleMeta(i)

\* A file of the portal at p is replaced.
Replaced(p) ==
  /\ At(tree, p) # NONE /\ tree[At(tree, p)].kind = "portal"
  /\ \E q \in Paths : Rename(q, p)

\* From such a state each request leaves the keys of paths right: the path
\* that was made, removed or renamed is deleted from Redis or set to the new
\* id.  Two things are excepted, the known defects: the paths below a
\* directory that was itself renamed or removed, whose keys nobody deletes,
\* and the destination when a file of the portal is replaced (pgsql.c,
\* psql_rename_to_existing_file; pgfuse.c, pgfuse_rename).
PathsStayTrue ==
  [][\A p \in Paths :
       StalePath(p)' /\ Untroubled =>
         \/ \E n \in 1 .. Len(p) - 1 : At(tree, SubSeq(p, 1, n)) # At(tree', SubSeq(p, 1, n))
         \/ Replaced(p)]_vars

\* From such a state a listing kept in Redis is not left without an entry that
\* was made or with one that was removed or renamed: each handler deletes the
\* listings of all directories it changes.  Excepted: symlink deletes none,
\* and rename deletes one listing when it replaces a file of the portal, which
\* then changes the other as well (pgfuse.c, pgfuse_symlink, pgfuse_rename).
ListsStayTrue ==
  [][\A d \in Dirs :
       StaleList(d)' /\ ~StaleList(d) /\ Untroubled =>
         \/ \E i \in Ids : tree[i] = NONE /\ Is_a(tree', i, "link") /\ tree'[i].parent = d
         \/ \E p \in Paths : p # <<>> /\ At(tree, Front(p)) = d /\ Replaced(p)]_vars

\* From such a state the attributes of an entry that was moved are deleted
\* from Redis.  Excepted: files of the portal, whose parent there is the old
\* one, or that of another file when a hidden one is shown again (pgsql.c,
\* psql_rename).
MetasStayTrue ==
  [][\A i \in Ids : StaleMeta(i)' /\ Untroubled => Is_a(tree, i, "portal") /\ tree'[i] # tree[i]]_vars

\* The ids that rename finds are those of the tree.
Resolves(p) == psql_path_to_id(redis, tree, p).id = At(tree, p)

\* Where p is found by descending from the root, no key on the way is stale.
Straight(p) ==
  \/ redis.path[p] # NONE \/ redis.path[Front(p)] # NONE
  \/ \A n \in 1 .. Len(p) : ~StalePath(SubSeq(p, 1, n))

\* After the step no entry has the data of i.
Lost(i) == \A j \in Shown(tree') : tree'[j].data # tree[i].data

\* The data of i is lost by a rename that finds the right entries, not by way
\* of a stale key.
LosesData(i, from, to) ==
  /\ tree[i].kind # "dir" /\ tree[i].data # NONE
  /\ Lost(i) /\ NoTwins(tree)
  /\ At(tree, from) = i
  /\ \A p \in {from, to} : Resolves(p) /\ Straight(p)
  /\ RenameTo(from, to, TRUE)

\* Such a rename does not lose the data of the file, when copy_mmap copies it:
\* that is done before the old file is hidden or deleted, and what is not part
\* of the transaction is done so that a failure of the portal, of COMMIT or of
\* a statement, or a crash, leaves the data at the old or at the new name.
\* Excepted: a temporary file that becomes a file of the portal.  Its
\* data is unlinked at once, also when the portal fails to make the new file,
\* which psql_create_file does not see, when the search for a hidden file or
\* the statement that shows it fails, and when the COMMIT after it fails, which
\* leaves the only copy hidden (pgsql.c, psql_rename).
RenameKeepsData ==
  [][\A i \in Shown(tree), from, to \in Paths \ {<<>>} :
       tree[i].kind = "portal" \/ Last(to) \in TempNames \/ failures' = failures
       => ~LosesData(i, from, to)]_vars

\* A path is decomposed by descending the tree: what psql_path_to_id answers
\* for a path in a directory there is is the entry at that path
\* (DEVELOPERS:96-99).  The key of the root is there, as after any getattr.
PathsFollowTree ==
  redis.path[<<>>] = Root => \A p \in Paths : Known(p) => Resolves(p)

\* An untroubled rename that takes the file at from to the file at to.
Onto(from, to) ==
  /\ Untroubled
  /\ \A p \in {from, to} : At(tree, p) \in Shown(tree) /\ tree[At(tree, p)].kind \in {"portal", "temp"}
  /\ Rename(from, to)

\* "make source file disappear and destination file contain the same data as
\* the source one" (pgfuse.c:2041-2045), when nothing goes wrong, between files
\* of the same kind.
RenameReplaces ==
  [][tree' # tree => \A from, to \in Paths \ {<<>>} :
       Onto(from, to) /\ tree[At(tree, from)].kind = tree[At(tree, to)].kind
       => /\ At(tree', from) = NONE
          /\ At(tree', to) # NONE
          /\ tree'[At(tree', to)].data = tree[At(tree, from)].data]_vars
===============================================================================
