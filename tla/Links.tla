------------------------------- MODULE Links --------------------------------
(***************************************************************************)
(* The life of the symbolic links at one path of a known directory: rows   *)
(* of the table "dir", their targets in the table "data", and what Redis   *)
(* knows of the path and of the attributes.  A handler is one action, as   *)
(* the kernel locks the directory; inside it the order of the code says    *)
(* what Redis and the database have when a statement or COMMIT fails.      *)
(***************************************************************************)
EXTENDS Blocks, Timestamps

CONSTANTS Ids,          \* ids of the sequence of dir_fs, given out once
          Bytes,        \* what targets are made of
          Targets,      \* the targets of links
          Times,        \* the times that requests bring along
          None,         \* no row, no key, no id
          MaxFailures   \* bound on failing statements and COMMITs

VARIABLES dir,       \* id -> row, as far as it is modelled
          data,      \* id -> rows of the table "data"
          path,      \* Redis: the id the path leads to
          meta,      \* Redis: id -> attributes
          used,      \* ids the sequence has given out
          reply,     \* the last answer to the kernel
          given,     \* id -> the target of the symlink request (history)
          kept,      \* the link that was acknowledged and not removed (history)
          times,     \* modification times the answers allow (history)
          failures

Rows == [size : Nat, mtime : 0 .. Words - 1]
Metas == [size : Nat, mtime : Timespec]

ASSUME LinksAssumption ==
  /\ \A g \in Targets : g \in Seq(Bytes) /\ Len(g) # 0
  /\ \A t \in Times : t \in Timespec /\ Storable(t)
  /\ None \notin Ids /\ None \notin Targets
  /\ None \notin Rows /\ None \notin Metas
  /\ MaxFailures \in Nat

redis == <<path, meta>>
database == <<dir, data>>
history == <<given, kept, times>>
vars == <<database, redis, used, reply, history, failures>>

Nothing == [op |-> "none", id |-> None, text |-> None]

TypeOK ==
  /\ dir \in [Ids -> Rows \cup {None}]
  /\ DOMAIN data = Ids
  /\ path \in Ids \cup {None}
  /\ meta \in [Ids -> Metas \cup {None}]
  /\ used \subseteq Ids
  /\ given \in [Ids -> Targets \cup {None}]
  /\ kept \in Ids \cup {None}
  /\ times \subseteq Times
  /\ failures \in 0 .. MaxFailures

Init ==
  /\ dir = [i \in Ids |-> None]
  /\ data = [i \in Ids |-> NoRows]
  /\ path = None
  /\ meta = [i \in Ids |-> None]
  /\ used = {}
  /\ reply = Nothing
  /\ given = [i \in Ids |-> None]
  /\ kept = None
  /\ times = {}
  /\ failures = 0

-----------------------------------------------------------------------------
FromRow(row) == [size |-> row.size, mtime |-> convert_from_timestamp(row.mtime)]
ToRow(m) == [size |-> m.size, mtime |-> convert_to_timestamp(m.mtime)]

\* psql_path_to_id: the key of the path, else the one row of that name.
Lookup(d) ==
  LET R == {i \in Ids : d[i] # None}
  IN  IF path # None THEN path
      ELSE IF \E i \in R : R = {i} THEN CHOOSE i \in R : TRUE
      ELSE None

\* psql_read_meta: the copy in Redis, else the row, which is then copied.
ReadMeta(d, id) ==
  IF meta[id] # None THEN meta[id]
  ELSE IF d[id] # None THEN FromRow(d[id])
  ELSE None

Link == Lookup(dir)

Found == Link # None /\ ReadMeta(dir, Link) # None

\* psql_read_meta_from_path leaves path and attributes in Redis.
Fill(id, m) == path' = id /\ meta' = [meta EXCEPT ![id] = m]

Fails == failures < MaxFailures /\ failures' = failures + 1

\* The transaction did not come to its end: the request is refused, what it
\* did to Redis stays.
NotStored == Fails /\ UNCHANGED database

Answer(r) == reply' = r

-----------------------------------------------------------------------------
NotFound == ~Found /\ Answer(Nothing) /\ UNCHANGED <<database, redis, used, history, failures>>

Getattr ==
  /\ Found
  /\ Fill(Link, ReadMeta(dir, Link))
  /\ Answer(Nothing)
  /\ UNCHANGED <<database, used, history, failures>>

Readlink ==
  LET m == ReadMeta(dir, Link)
  IN  /\ Found
      /\ ~ReadFails(m.size)
      /\ Fill(Link, m)
      /\ Answer([op |-> "readlink", id |-> Link, text |-> psql_read_buf(data[Link], m.size)])
      /\ UNCHANGED <<database, used, history, failures>>

\* The row is inserted, looked up through Redis, its blocks are written under
\* the id that was found, and the transaction is committed.
Insert(new, target, t) ==
  [dir EXCEPT ![new] = ToRow([size |-> Len(target), mtime |-> t])]

Begin(new, target) ==
  /\ ~Found
  /\ new \in Ids \ used
  /\ used' = used \cup {new}
  /\ given' = [given EXCEPT ![new] = target]
  /\ Answer(Nothing)

\* INSERT fails, or the path leads to an id that is gone: ROLLBACK.
SymlinkRefused(new, target, t) ==
  LET d == Insert(new, target, t)
      id == Lookup(d)
  IN  /\ Begin(new, target)
      /\ UNCHANGED <<database, redis, kept, times>>
      /\ \/ Fails
         \/ (id = None \/ ReadMeta(d, id) = None) /\ UNCHANGED failures

\* A block cannot be written, or COMMIT fails: Redis keeps path and attributes.
SymlinkFails(new, target, t) ==
  LET d == Insert(new, target, t)
      id == Lookup(d)
  IN  /\ Begin(new, target)
      /\ id # None /\ ReadMeta(d, id) # None
      /\ Fill(id, ReadMeta(d, id))
      /\ NotStored
      /\ UNCHANGED <<kept, times>>

\* COMMIT is carried out; its answer may be lost.
Symlink(new, target, t) ==
  LET d == Insert(new, target, t)
      id == Lookup(d)
  IN  /\ Begin(new, target)
      /\ id # None /\ ReadMeta(d, id) # None
      /\ ~WriteFails(0, Len(target))
      /\ Fill(id, ReadMeta(d, id))
      /\ dir' = d
      /\ data' = [data EXCEPT ![id] = psql_write_buf(@, 0, target)]
      /\ times' = {t}
      /\ \/ kept' = id /\ UNCHANGED failures
         \/ kept' = kept /\ Fails

\* psql_write_meta: HSET, then UPDATE; a row that is gone is no error.
Update(m) == IF dir[Link] = None THEN dir ELSE [dir EXCEPT ![Link] = ToRow(m)]

WriteMeta(m, possible) ==
  /\ Found
  /\ Fill(Link, m)
  /\ Answer(Nothing)
  /\ UNCHANGED <<data, used, given, kept>>
  /\ \/ dir' = Update(m) /\ times' = possible /\ UNCHANGED failures
     \/ dir' \in {dir, Update(m)} /\ times' = times \cup possible /\ Fails

Utimens(t) == WriteMeta([ReadMeta(dir, Link) EXCEPT !.mtime = t], {t})

\* chown and chmod write the times back as they were read.
\* A link is none of the portal's: pgfuse_chown ends with RELEASE.
Chown == WriteMeta(ReadMeta(dir, Link), times)

\* Mutant: the trigger leaves the blocks.
DeleteRowOnly(id) == dir' = [dir EXCEPT ![id] = None] /\ UNCHANGED data

\* Row and blocks go in the transaction (the trigger of "dir" deletes both),
\* the attributes in Redis before COMMIT, the path after it.
Delete(id) ==
  /\ dir' = [dir EXCEPT ![id] = None]
  /\ data' = [data EXCEPT ![id] = NoRows]

Unlink ==
  /\ Found
  /\ meta' = [meta EXCEPT ![Link] = None]
  /\ kept' = None
  /\ Answer(Nothing)
  /\ UNCHANGED <<used, given, times>>
  /\ \/ Delete(Link) /\ path' = None /\ UNCHANGED failures
     \/ Delete(Link) /\ path' = Link /\ Fails      \* answer lost, or a crash
     \/ NotStored /\ path' = Link                  \* COMMIT fails

\* Mutant: the row is deleted outside the transaction that is rolled back.
UnlinkNotRolledBack ==
  /\ Found
  /\ Fill(Link, ReadMeta(dir, Link))
  /\ Fails
  /\ Delete(Link)
  /\ Answer(Nothing)
  /\ UNCHANGED <<used, history>>

\* DELETE fails.
UnlinkRefused ==
  /\ Found
  /\ Fill(Link, ReadMeta(dir, Link))
  /\ NotStored
  /\ Answer(Nothing)
  /\ UNCHANGED <<used, history>>

\* pgfuse_destroy empties Redis.
Remount ==
  /\ path' = None
  /\ meta' = [i \in Ids |-> None]
  /\ Answer(Nothing)
  /\ UNCHANGED <<database, used, history, failures>>

Next ==
  \/ \E new \in Ids, target \in Targets, t \in Times :
        \/ Symlink(new, target, t)
        \/ SymlinkFails(new, target, t)
        \/ SymlinkRefused(new, target, t)
  \/ \E t \in Times : Utimens(t)
  \/ NotFound \/ Getattr \/ Readlink \/ Chown
  \/ Unlink \/ UnlinkRefused \/ Remount

Spec == Init /\ [][Next]_vars

-----------------------------------------------------------------------------
\* readlink answers with the target that symlink was given, across all blocks,
\* unless the link has no row: after a COMMIT that failed Redis still has its
\* attributes, and readlink finds no blocks (pgfuse_symlink, psql_read_buf).
ReadsBack ==
  reply.op = "readlink" /\ dir[reply.id] # None => reply.text = given[reply.id]

\* A link is there with all its blocks or not at all, and no block is left
\* behind, whatever fails in symlink and unlink (the transaction around
\* psql_create_symlink and psql_write_buf, the trigger of "dir").
WholeOrNothing ==
  \A i \in Ids : IF dir[i] = None THEN data[i] = NoRows
                 ELSE psql_read_buf(data[i], dir[i].size) = given[i]

\* An acknowledged link is the only one at its path until it is removed, and
\* Redis leads there and knows its length, whatever stale ids were in Redis
\* when it was made (psql_read_meta_from_path in pgfuse_symlink).
Promised ==
  kept # None => /\ {i \in Ids : dir[i] # None} = {kept}
                 /\ path \in {kept, None}
                 /\ meta[kept] # None => meta[kept].size = dir[kept].size

\* The stored time is, as the signed number the server takes it for, one that
\* the answers allow, and so is the one in Redis, to the tick from the epoch on:
\* reading and writing attributes back loses nothing (convert_to_timestamp,
\* convert_from_timestamp in psql_read_meta and psql_write_meta).
TimesKept ==
  \A i \in Ids : dir[i] # None =>
    /\ \E t \in times : Signed(dir[i].mtime) = Ticks(t)
    /\ meta[i] # None =>
         \E t \in times : t.sec >= Epoch =>
           Truncated(meta[i].mtime) = Truncated(t)
=============================================================================
