------------------------------ MODULE MetaCache ------------------------------
(***************************************************************************)
(* The attributes of one file in three places: the row of table dir, the   *)
(* hash of its id in Redis (fields meta, event, uid), and the PgMeta of    *)
(* each running handler.  psql_read_meta reads Redis and falls back to the *)
(* database; psql_write_meta writes Redis and, unless the field event says *)
(* that the file has been read or written since, the database.             *)
(* pgfuse_release drops the whole hash and so writes the database again.   *)
(*                                                                         *)
(* A handler is a script of steps, each one command to Redis or to the     *)
(* database.  Redis is a process of its own: it outlives a crash of pgfuse *)
(* and is emptied by pgfuse_destroy; the ACL daemon deletes the hash when  *)
(* it likes.  Of the attributes the size and the permissions (mode, uid,   *)
(* gid) are kept; the times go their way.  The file is one of the portal:  *)
(* its id is below MAX_ID_PORTAL.                                          *)
(***************************************************************************)
EXTENDS Naturals, Sequences, FiniteSets

CONSTANTS
  Workers,      \* threads of the FUSE loop: one with -s
  MaxSize,      \* bound: sizes the file may have
  Perms,        \* values of mode, uid and gid
  Uids,         \* users that write
  MaxOpens,     \* bound: open handles
  MaxFailures,  \* bound: database or file operations that fail
  MaxCrashes,   \* bound: crashes of pgfuse
  NoAtime,      \* the option noatime
  NONE          \* a field that is not set

ASSUME MetaCacheAssumption ==
  /\ MaxSize \in Nat
  /\ MaxOpens \in Nat
  /\ MaxFailures \in Nat
  /\ MaxCrashes \in Nat
  /\ NoAtime \in BOOLEAN
  /\ NONE \notin Uids

VARIABLES
  redis,     \* the hash of the file: meta, event (0 for none), uid
  db,        \* its row in table dir, as committed
  tx,        \* tx[w]: the row as updated by the transaction of w, or NONE
  op,        \* op[w]: the request w serves, or NONE
  at,        \* at[w]: the step of its script w comes to next
  meta,      \* meta[w]: the PgMeta of the handler
  ev,        \* ev[w]: its variable event
  signer,    \* signer[w]: its variable uid, in pgfuse_release
  opens,     \* handles the kernel holds
  allowed,   \* the attributes that the answers given so far allow
  writer,    \* the user of the last acknowledged write, NONE before any
  told,      \* the user the portal was given since that write, or NONE
  lost,      \* a release was interrupted, or a dirty hash deleted
  failures,
  crashes

handlerVars == <<tx, op, at, meta, ev, signer>>
ghostVars == <<allowed, writer, lost, failures, crashes>>
vars == <<redis, db, handlerVars, opens, told, ghostVars>>

Metas == [size : 0 .. MaxSize, perm : Perms]
EmptyHash == [meta |-> NONE, event |-> 0, uid |-> NONE]

-------------------------------------------------------------------------------
(* The requests and the scripts of their handlers.                           *)

Requests ==
       [kind : {"getattr", "open", "utimens", "read", "release"}]
  \cup [kind : {"write"}, size : 1 .. MaxSize, uid : Uids]
  \cup [kind : {"truncate", "ftruncate"}, size : 0 .. MaxSize]
  \cup [kind : {"chmod", "chown"}, perm : Perms]

ASSUME NoneAssumption == NONE \notin Metas \cup Requests

\* psql_read_meta, and psql_write_meta.
ReadMeta == <<"hget", "select", "fill">>
WriteMeta == <<"hset", "flag", "update">>
Rewrite == ReadMeta \o WriteMeta \o <<"commit">>

Getattr == ReadMeta \o <<"commit">>
Open == Rewrite
Utimens == Rewrite
Chmod == Rewrite

\* Up to RELEASE.  What pgfuse_chown does after it, the query of the user on a
\* connection it has given back, is Session's (LateQuery); the call of the
\* portal that follows changes no attribute kept here.
Chown == Rewrite
Truncate == ReadMeta \o <<"data">> \o WriteMeta \o <<"commit">>
Ftruncate == Truncate

Read ==
  <<"data">> \o (IF NoAtime THEN <<>> ELSE ReadMeta \o WriteMeta)
    \o <<"commit", "peek", "markRead">>

Write ==
  ReadMeta \o <<"data">> \o WriteMeta \o <<"commit", "markWritten", "sign">>

\* Mutants: the event is dropped after the attributes are written; the uid is
\* not looked up.
ReleaseDelLast ==
  <<"signer", "peek">> \o ReadMeta \o <<"tell">> \o WriteMeta \o <<"commit", "del">>
ReleaseUnsigned ==
  <<"peek">> \o ReadMeta \o <<"tell", "del">> \o WriteMeta \o <<"commit">>

Release ==
  <<"signer", "peek">> \o ReadMeta \o <<"tell", "del">> \o WriteMeta \o <<"commit">>

Script(kind) ==
  CASE kind = "getattr" -> Getattr
    [] kind = "open" -> Open
    [] kind = "utimens" -> Utimens
    [] kind = "chmod" -> Chmod
    [] kind = "chown" -> Chown
    [] kind = "truncate" -> Truncate
    [] kind = "ftruncate" -> Ftruncate
    [] kind = "read" -> Read
    [] kind = "write" -> Write
    [] kind = "release" -> Release

\* What a request does to the attributes.
Change(r, m) ==
  CASE r.kind = "write" -> [m EXCEPT !.size = IF r.size > @ THEN r.size ELSE @]
    [] r.kind \in {"truncate", "ftruncate"} -> [m EXCEPT !.size = r.size]
    [] r.kind \in {"chmod", "chown"} -> [m EXCEPT !.perm = r.perm]
    [] OTHER -> m

\* The kernel holds the inode's lock for requests that modify it, and sends
\* RELEASE for a handle when no other request uses it.
Locking == {"write", "truncate", "ftruncate", "chmod", "chown", "utimens"}
OnHandle == {"read", "write", "ftruncate"}

\* The copies of the attributes are attributes; some are always allowed.
TypeOK ==
  /\ redis \in [meta : Metas \cup {NONE}, event : 0 .. 2, uid : Uids \cup {NONE}]
  /\ db \in Metas
  /\ tx \in [Workers -> Metas \cup {NONE}]
  /\ op \in [Workers -> Requests \cup {NONE}]
  /\ at \in [Workers -> 1 .. 13]
  /\ meta \in [Workers -> Metas \cup {NONE}]
  /\ ev \in [Workers -> 0 .. 2]
  /\ signer \in [Workers -> Uids \cup {NONE}]
  /\ opens \in 0 .. MaxOpens
  /\ allowed \subseteq Metas /\ allowed # {}
  /\ writer \in Uids \cup {NONE}
  /\ told \in Uids \cup {NONE}
  /\ lost \in BOOLEAN
  /\ failures \in 0 .. MaxFailures
  /\ crashes \in 0 .. MaxCrashes

Init ==
  /\ redis = EmptyHash
  /\ db \in [size : {0}, perm : Perms]
  /\ tx = [w \in Workers |-> NONE]
  /\ op = [w \in Workers |-> NONE]
  /\ at = [w \in Workers |-> 1]
  /\ meta = [w \in Workers |-> NONE]
  /\ ev = [w \in Workers |-> 0]
  /\ signer = [w \in Workers |-> NONE]
  /\ opens = 0
  /\ allowed = {db}
  /\ writer = NONE
  /\ told = NONE
  /\ lost = FALSE
  /\ failures = 0
  /\ crashes = 0

-------------------------------------------------------------------------------
Busy(w) == op[w] # NONE
Running(kinds) == {w \in Workers : Busy(w) /\ op[w].kind \in kinds}

Start(w, r) ==
  /\ ~Busy(w)
  /\ r.kind \in Locking => Running(Locking) = {}
  /\ r.kind \in OnHandle => opens > 0
  /\ r.kind = "open" => opens + Cardinality(Running({"open"})) < MaxOpens
  /\ r.kind = "release" => opens > (IF Running(OnHandle) = {} THEN 0 ELSE 1)
  /\ op' = [op EXCEPT ![w] = r]
  /\ opens' = IF r.kind = "release" THEN opens - 1 ELSE opens
  /\ UNCHANGED <<redis, db, tx, at, meta, ev, signer, told, ghostVars>>

\* The handlers of ws are over, their variables gone.
Leave(ws) ==
  /\ op' = [w \in Workers |-> IF w \in ws THEN NONE ELSE op[w]]
  /\ at' = [w \in Workers |-> IF w \in ws THEN 1 ELSE at[w]]
  /\ meta' = [w \in Workers |-> IF w \in ws THEN NONE ELSE meta[w]]
  /\ ev' = [w \in Workers |-> IF w \in ws THEN 0 ELSE ev[w]]
  /\ signer' = [w \in Workers |-> IF w \in ws THEN NONE ELSE signer[w]]
  /\ tx' = [w \in Workers |-> IF w \in ws THEN NONE ELSE tx[w]]

Comes(w, s) ==
  /\ Busy(w)
  /\ at[w] <= Len(Script(op[w].kind))
  /\ Script(op[w].kind)[at[w]] = s
Advance(w, n) == at' = [at EXCEPT ![w] = @ + n]
Rest == <<opens, told, ghostVars>>

\* HGET meta.
Hit(w) ==
  /\ Comes(w, "hget")
  /\ redis.meta # NONE
  /\ meta' = [meta EXCEPT ![w] = redis.meta]
  /\ Advance(w, 3)
  /\ UNCHANGED <<redis, db, tx, op, ev, signer, Rest>>

Miss(w) ==
  /\ Comes(w, "hget")
  /\ redis.meta = NONE
  /\ Advance(w, 1)
  /\ UNCHANGED <<redis, db, tx, op, meta, ev, signer, Rest>>

Select(w) ==
  /\ Comes(w, "select")
  /\ meta' = [meta EXCEPT ![w] = db]
  /\ Advance(w, 1)
  /\ UNCHANGED <<redis, db, tx, op, ev, signer, Rest>>

Fill(w) ==
  /\ Comes(w, "fill")
  /\ redis' = [redis EXCEPT !.meta = meta[w]]
  /\ Advance(w, 1)
  /\ UNCHANGED <<db, tx, op, meta, ev, signer, Rest>>

\* pread, pwrite or truncate of the file that holds the data.
Data(w) ==
  /\ Comes(w, "data")
  /\ Advance(w, 1)
  /\ UNCHANGED <<redis, db, tx, op, meta, ev, signer, Rest>>

\* Mutant: only the attributes of files that are cached are written to Redis.
HsetCached(w) ==
  /\ Comes(w, "hset")
  /\ meta' = [meta EXCEPT ![w] = Change(op[w], @)]
  /\ redis' = IF redis.meta = NONE THEN [redis EXCEPT !.meta = meta'[w]] ELSE redis
  /\ Advance(w, 1)
  /\ UNCHANGED <<db, tx, op, ev, signer, Rest>>

\* HSET meta, of the attributes as changed by the handler.
Hset(w) ==
  /\ Comes(w, "hset")
  /\ meta' = [meta EXCEPT ![w] = Change(op[w], @)]
  /\ redis' = [redis EXCEPT !.meta = meta'[w]]
  /\ Advance(w, 1)
  /\ UNCHANGED <<db, tx, op, ev, signer, Rest>>

\* Mutant: the UPDATE is for files that were written.
FlagWritten(w) ==
  /\ Comes(w, "flag")
  /\ Advance(w, IF redis.event = 1 THEN 1 ELSE 2)
  /\ UNCHANGED <<redis, db, tx, op, meta, ev, signer, Rest>>

\* HGET event: the UPDATE is for files without one.
Flag(w) ==
  /\ Comes(w, "flag")
  /\ Advance(w, IF redis.event = 0 THEN 1 ELSE 2)
  /\ UNCHANGED <<redis, db, tx, op, meta, ev, signer, Rest>>

\* UPDATE waits for the transaction that has the row locked.
Update(w) ==
  /\ Comes(w, "update")
  /\ \A v \in Workers : tx[v] = NONE
  /\ tx' = [tx EXCEPT ![w] = meta[w]]
  /\ Advance(w, 1)
  /\ UNCHANGED <<redis, db, op, meta, ev, signer, Rest>>

Commit(w) ==
  /\ Comes(w, "commit")
  /\ db' = IF tx[w] = NONE THEN db ELSE tx[w]
  /\ tx' = [tx EXCEPT ![w] = NONE]
  /\ Advance(w, 1)
  /\ UNCHANGED <<redis, op, meta, ev, signer, Rest>>

\* Mutant: the event counts the writes.
MarkWrittenCounting(w) ==
  /\ Comes(w, "markWritten")
  /\ redis' = [redis EXCEPT !.event = @ + 1]
  /\ Advance(w, 1)
  /\ UNCHANGED <<db, tx, op, meta, ev, signer, Rest>>

\* pgfuse_write: HSET event 1, HSET uid.
MarkWritten(w) ==
  /\ Comes(w, "markWritten")
  /\ redis' = [redis EXCEPT !.event = 1]
  /\ Advance(w, 1)
  /\ UNCHANGED <<db, tx, op, meta, ev, signer, Rest>>

Sign(w) ==
  /\ Comes(w, "sign")
  /\ redis' = [redis EXCEPT !.uid = op[w].uid]
  /\ Advance(w, 1)
  /\ UNCHANGED <<db, tx, op, meta, ev, signer, Rest>>

\* Mutant: a read hides that the file was written.
MarkReadAlways(w) ==
  /\ Comes(w, "markRead")
  /\ redis' = [redis EXCEPT !.event = 2]
  /\ Advance(w, 1)
  /\ UNCHANGED <<db, tx, op, meta, ev, signer, Rest>>

\* pgfuse_read: HSET event 2, unless HGET event said 1.
MarkRead(w) ==
  /\ Comes(w, "markRead")
  /\ redis' = IF ev[w] = 1 THEN redis ELSE [redis EXCEPT !.event = 2]
  /\ Advance(w, 1)
  /\ UNCHANGED <<db, tx, op, meta, ev, signer, Rest>>

Peek(w) ==
  /\ Comes(w, "peek")
  /\ ev' = [ev EXCEPT ![w] = redis.event]
  /\ Advance(w, 1)
  /\ UNCHANGED <<redis, db, tx, op, meta, signer, Rest>>

\* pgfuse_release: HGET uid.
Signer(w) ==
  /\ Comes(w, "signer")
  /\ signer' = [signer EXCEPT ![w] = redis.uid]
  /\ Advance(w, 1)
  /\ UNCHANGED <<redis, db, tx, op, meta, ev, Rest>>

\* pgfuse_release: the portal is told of a file that was written.
Tell(w) ==
  /\ Comes(w, "tell")
  /\ told' = IF ev[w] = 1 THEN signer[w] ELSE told
  /\ Advance(w, 1)
  /\ UNCHANGED <<redis, db, tx, op, meta, ev, signer, opens, ghostVars>>

\* pgfuse_release: DEL with the id and "event" as two keys, so that the whole
\* hash goes.
Del(w) ==
  /\ Comes(w, "del")
  /\ redis' = EmptyHash
  /\ Advance(w, 1)
  /\ UNCHANGED <<db, tx, op, meta, ev, signer, Rest>>

\* The handler returns, the kernel has its answer.
Return(w) ==
  /\ Busy(w)
  /\ at[w] > Len(Script(op[w].kind))
  /\ Leave({w})
  /\ opens' = IF op[w].kind = "open" THEN opens + 1 ELSE opens
  /\ allowed' = {Change(op[w], m) : m \in allowed}
  /\ writer' = IF op[w].kind = "write" THEN op[w].uid ELSE writer
  /\ told' = IF op[w].kind = "write" THEN NONE ELSE told
  /\ UNCHANGED <<redis, db, lost, failures, crashes>>

-------------------------------------------------------------------------------
(* Failures, crashes, and the end of the mount.                              *)

\* In pgfuse_release, Redis has been emptied and the database not yet written.
Exposed(w) ==
  /\ Busy(w)
  /\ op[w].kind = "release"
  /\ \E i \in 1 .. (at[w] - 1) : Release[i] = "del"
  /\ at[w] <= Len(Release)

MayHaveChanged(ws) ==
  {m \in Metas : \E n \in allowed : m = n \/ \E w \in ws : m = Change(op[w], n)}

\* A database command or the file operation fails: ROLLBACK, an error.  A
\* COMMIT may have been carried out all the same.
Fail(w) ==
  /\ failures < MaxFailures
  /\ \E s \in {"select", "data", "update", "commit"} : Comes(w, s)
  /\ Leave({w})
  /\ \/ UNCHANGED db
     \/ Comes(w, "commit") /\ tx[w] # NONE /\ db' = tx[w]
  /\ allowed' = MayHaveChanged({w})
  /\ lost' = (lost \/ Exposed(w))
  /\ failures' = failures + 1
  /\ UNCHANGED <<redis, opens, told, writer, crashes>>

\* pgfuse dies and is started again.
Crash ==
  /\ crashes < MaxCrashes
  /\ allowed' = MayHaveChanged({w \in Workers : Busy(w)})
  /\ lost' = (lost \/ \E w \in Workers : Exposed(w))
  /\ Leave(Workers)
  /\ opens' = 0
  /\ crashes' = crashes + 1
  /\ UNCHANGED <<redis, db, told, writer, failures>>

\* pgfuse_destroy: FLUSHALL.
Unmount ==
  /\ opens = 0
  /\ \A w \in Workers : ~Busy(w)
  /\ redis # EmptyHash
  /\ redis' = EmptyHash
  /\ lost' = (lost \/ redis.event # 0)
  /\ UNCHANGED <<db, handlerVars, opens, told, allowed, writer, failures, crashes>>

\* The ACL daemon: DEL of the id, whatever pgfuse is doing.
AclDaemon ==
  /\ redis # EmptyHash
  /\ redis' = EmptyHash
  /\ lost' = (lost \/ redis.event # 0)
  /\ UNCHANGED <<db, handlerVars, opens, told, allowed, writer, failures, crashes>>

-------------------------------------------------------------------------------
Step(w) ==
  \/ \E r \in Requests : Start(w, r)
  \/ Hit(w)
  \/ Miss(w)
  \/ Select(w)
  \/ Fill(w)
  \/ Data(w)
  \/ Hset(w)
  \/ Flag(w)
  \/ Update(w)
  \/ Commit(w)
  \/ MarkWritten(w)
  \/ Sign(w)
  \/ MarkRead(w)
  \/ Peek(w)
  \/ Signer(w)
  \/ Tell(w)
  \/ Del(w)
  \/ Return(w)
  \/ Fail(w)

Next == Crash \/ Unmount \/ AclDaemon \/ \E w \in Workers : Step(w)

Spec == Init /\ [][Next]_vars

-------------------------------------------------------------------------------
(***************************************************************************)
(* What the users of the file see.                                         *)
(***************************************************************************)
Quiet == \A w \in Workers : ~Busy(w)
Visible == IF redis.meta # NONE THEN redis.meta ELSE db

\* Between requests stat shows what the answers given so far allow: every
\* acknowledged change, and of those that failed or crashed all or nothing of
\* each.  Only an interrupted release, the emptying of a Redis left dirty by a
\* crash, or the daemon may lose more, while the field event is set.
OnlyDirtyIsLost == Quiet /\ ~lost => Visible \in allowed

\* With no handle open the database has everything, and Redis no event that
\* keeps the next change from it.
ClosedIsStored ==
  Quiet /\ opens = 0 /\ failures = 0 /\ crashes = 0 /\ ~lost
     => db \in allowed /\ redis.event = 0

\* When the last handle of a written file is closed the portal has been told,
\* with the user who wrote last, whatever was read in between.  With two
\* workers, where "we trust in FUSE and the locking there" (DEVELOPERS:111), a
\* read may hide a write.
PortalIsTold ==
  Quiet /\ opens = 0 /\ failures = 0 /\ crashes = 0 /\ ~lost => told = writer
===============================================================================
