-------------------------------- MODULE Xattrs --------------------------------
(***************************************************************************)
(* One extended attribute of one file: its row in table xattr, the copy in *)
(* the file's hash in Redis, the handlers getxattr, setxattr, removexattr, *)
(* and the ACL daemon that replaces the row and then deletes the hash.     *)
(* setxattr and removexattr write Redis first and the database after it;   *)
(* getxattr fills Redis with what it finds in the database.                *)
(*                                                                         *)
(* A handler is a script of steps, as in MetaCache.  A statement sees what *)
(* is committed (READ COMMITTED) and waits for a transaction that has the  *)
(* row locked; when that ends, an UPDATE or DELETE finds the row gone and  *)
(* does nothing, and an INSERT fails on the constraint id_data.  That one  *)
(* is in portal.sql only (line 33), not in the later portal7.sql and       *)
(* portal8.sql: the module is about a database that has it.                *)
(***************************************************************************)
EXTENDS Naturals, Sequences

CONSTANTS
  Workers,      \* threads of the FUSE loop
  Daemon,       \* the ACL daemon
  Values,       \* values that users set
  Inherited,    \* the ACL the daemon sets
  Absent,       \* no value
  Untouched,    \* a transaction has not changed the row
  MaxFailures,  \* bound: handlers and runs of the daemon that fail
  MaxAcls       \* bound: runs of the daemon

ASSUME XattrsAssumption ==
  /\ Daemon \notin Workers
  /\ Inherited \notin Values
  /\ Absent \notin Values \cup {Inherited}
  /\ Untouched \notin Values \cup {Inherited, Absent}
  /\ MaxFailures \in Nat
  /\ MaxAcls \in Nat

VARIABLES
  redis,      \* the field in the hash of the file
  db,         \* the row, as committed
  tx,         \* tx[p]: the row as changed by the transaction of p
  op,         \* op[p]: the request p serves
  at,         \* at[p]: the step of its script p comes to next
  val,        \* val[p]: what its SELECT found
  allowed,    \* the values that the answers given so far allow
  overtaken,  \* getters that a change may have overtaken
  crossed,    \* setters during which the daemon committed
  hollow,     \* setters whose UPDATE found no row
  stale,      \* one of the named defects has left a copy in Redis
  failures,
  acls

ghostVars == <<allowed, overtaken, crossed, hollow, stale, failures, acls>>
vars == <<redis, db, tx, op, at, val, ghostVars>>

Procs == Workers \cup {Daemon}
Rows == Values \cup {Inherited, Absent}
Idle == [kind |-> "none"]

\* A get is ample when its buffer is larger than the value; the copy is filled
\* by ample gets only.
Requests ==
       [kind : {"get"}, ample : BOOLEAN]
  \cup [kind : {"create", "replace"}, value : Values]
  \cup [kind : {"remove"}, value : {Absent}]
AclRun == [kind |-> "acl", value |-> Inherited]

\* Mutant: the copy in Redis is left alone.
RemoveRow == <<"change", "commit">>

Get == <<"hget", "select", "fill", "commit">>
SetReplace == <<"cache", "change", "commit">>
SetCreate == <<"cache", "lookup", "store", "commit">>
Remove == <<"cache", "change", "commit">>
Acl == <<"delete", "insert", "commit", "del">>

Script(kind) ==
  [get |-> Get, replace |-> SetReplace, create |-> SetCreate, remove |-> Remove,
   acl |-> Acl, none |-> <<>>][kind]

Busy(p) == op[p] # Idle
Getters == {w \in Workers : Busy(w) /\ op[w].kind = "get"}
Setters == {w \in Workers : Busy(w) /\ op[w].kind # "get"}
Comes(p, s) == at[p] <= Len(Script(op[p].kind)) /\ Script(op[p].kind)[at[p]] = s
Done(p) == Busy(p) /\ at[p] > Len(Script(op[p].kind))
Advance(p, n) == at' = [at EXCEPT ![p] = @ + n]

\* Transactions that change the row are those of running handlers, one at a time.
TypeOK ==
  /\ redis \in Rows
  /\ db \in Rows
  /\ tx \in [Procs -> Rows \cup {Untouched}]
  /\ op \in [Procs -> Requests \cup {AclRun, Idle}]
  /\ at \in [Procs -> 1 .. 5]
  /\ val \in [Procs -> Rows]
  /\ allowed \subseteq Rows
  /\ overtaken \subseteq Getters
  /\ crossed \subseteq Setters /\ hollow \subseteq Setters
  /\ stale \in BOOLEAN
  /\ failures \in 0 .. MaxFailures
  /\ acls \in 0 .. MaxAcls
  /\ \A p \in Procs : tx[p] # Untouched => p \in Setters \cup {Daemon} /\ Busy(p)
  /\ \A p, q \in Procs : tx[p] # Untouched /\ tx[q] # Untouched => p = q

Init ==
  /\ redis = Absent
  /\ db \in Values \cup {Absent}
  /\ tx = [p \in Procs |-> Untouched]
  /\ op = [p \in Procs |-> Idle]
  /\ at = [p \in Procs |-> 1]
  /\ val = [p \in Procs |-> Absent]
  /\ allowed = {db}
  /\ overtaken = {} /\ crossed = {} /\ hollow = {}
  /\ stale = FALSE
  /\ failures = 0
  /\ acls = 0

-------------------------------------------------------------------------------
(* The handlers.                                                             *)

\* The kernel holds the inode's lock for setxattr and removexattr.
Start(w, r) ==
  /\ ~Busy(w)
  /\ r.kind # "get" => Setters = {}
  /\ op' = [op EXCEPT ![w] = r]
  /\ overtaken' = IF r.kind # "get" THEN Getters
                  ELSE overtaken \cup {v \in {w} : Setters # {}}
  /\ UNCHANGED <<redis, db, tx, at, val, allowed, crossed, hollow, stale, failures, acls>>

\* The handlers of ps are over, their variables gone.
Leave(ps) ==
  /\ op' = [p \in Procs |-> IF p \in ps THEN Idle ELSE op[p]]
  /\ at' = [p \in Procs |-> IF p \in ps THEN 1 ELSE at[p]]
  /\ val' = [p \in Procs |-> IF p \in ps THEN Absent ELSE val[p]]
  /\ overtaken' = overtaken \ ps
  /\ hollow' = hollow \ ps

\* An acknowledged change is the value, unless the daemon came in between or
\* there was no row to replace.
Return(w) ==
  /\ w \in Workers
  /\ Done(w)
  /\ Leave({w})
  /\ crossed' = crossed \ {w}
  /\ allowed' = IF w \notin Setters \/ w \in hollow THEN allowed
                ELSE {op[w].value} \cup (IF w \in crossed THEN {Inherited} ELSE {})
  /\ UNCHANGED <<redis, db, tx, stale, failures, acls>>

\* HGET.
Hit(w) ==
  /\ Comes(w, "hget")
  /\ redis # Absent
  /\ Advance(w, 3)
  /\ UNCHANGED <<redis, db, tx, op, val, ghostVars>>

Miss(w) ==
  /\ Comes(w, "hget")
  /\ redis = Absent
  /\ Advance(w, 1)
  /\ UNCHANGED <<redis, db, tx, op, val, ghostVars>>

\* SELECT: -ENODATA without a row.
Select(w) ==
  /\ Comes(w, "select")
  /\ val' = [val EXCEPT ![w] = db]
  /\ Advance(w, IF db = Absent THEN 3 ELSE 1)
  /\ UNCHANGED <<redis, db, tx, op, ghostVars>>

\* HSET of what SELECT found, when it fits the buffer.
Fill(w) ==
  /\ Comes(w, "fill")
  /\ redis' = IF op[w].ample THEN val[w] ELSE redis
  /\ stale' = (stale \/ (op[w].ample /\ w \in overtaken))
  /\ Advance(w, 1)
  /\ UNCHANGED <<db, tx, op, val, allowed, overtaken, crossed, hollow, failures, acls>>

\* HSET or HDEL, before the database is asked.
Cache(w) ==
  /\ Comes(w, "cache")
  /\ redis' = op[w].value
  /\ stale' = FALSE
  /\ Advance(w, 1)
  /\ UNCHANGED <<db, tx, op, val, allowed, overtaken, crossed, hollow, failures, acls>>

Locked(p) == \E q \in Procs \ {p} : tx[q] # Untouched

\* UPDATE or DELETE of the row; nobody looks at how many rows there were.
Change(w) ==
  /\ Comes(w, "change")
  /\ db # Absent => ~Locked(w)
  /\ tx' = [tx EXCEPT ![w] = IF db = Absent THEN @ ELSE op[w].value]
  /\ hollow' = IF db = Absent /\ op[w].kind = "replace" THEN hollow \cup {w} ELSE hollow
  /\ stale' = (stale \/ (db = Absent /\ op[w].kind = "replace"))
  /\ Advance(w, 1)
  /\ UNCHANGED <<redis, db, op, val, allowed, overtaken, crossed, failures, acls>>

\* psql_set_xattr_create: UPDATE of a row its SELECT found, INSERT otherwise.
Lookup(w) ==
  /\ Comes(w, "lookup")
  /\ val' = [val EXCEPT ![w] = db]
  /\ Advance(w, 1)
  /\ UNCHANGED <<redis, db, tx, op, ghostVars>>

\* Mutant: an attribute that exists is not updated.
StoreNew(w) ==
  /\ Comes(w, "store")
  /\ ~Locked(w)
  /\ val[w] = Absent => db = Absent
  /\ tx' = [tx EXCEPT ![w] = IF val[w] = Absent THEN op[w].value ELSE @]
  /\ Advance(w, 1)
  /\ UNCHANGED <<redis, db, op, val, ghostVars>>

Store(w) ==
  /\ Comes(w, "store")
  /\ ~Locked(w)
  /\ val[w] = Absent => db = Absent
  /\ tx' = [tx EXCEPT ![w] = op[w].value]
  /\ Advance(w, 1)
  /\ UNCHANGED <<redis, db, op, val, ghostVars>>

Commit(w) ==
  /\ w \in Workers
  /\ Comes(w, "commit")
  /\ db' = IF tx[w] = Untouched THEN db ELSE tx[w]
  /\ tx' = [tx EXCEPT ![w] = Untouched]
  /\ Advance(w, 1)
  /\ UNCHANGED <<redis, op, val, ghostVars>>

\* A statement fails or pgfuse dies: what comes of the transaction, and what
\* Redis keeps of it.
Lost(w) ==
  /\ Busy(w)
  /\ failures < MaxFailures
  /\ Leave({w})
  /\ crossed' = crossed \ {w}
  /\ allowed' = IF w \in Setters /\ (Comes(w, "commit") \/ Done(w))
                THEN allowed \cup {op[w].value} ELSE allowed
  /\ stale' = (stale \/ (w \in Setters /\ op[w].kind # "remove" /\ at[w] > 1 /\ ~Done(w)))
  /\ failures' = failures + 1
  /\ UNCHANGED <<redis, acls>>

\* Mutant: a handler returns from a failed statement without ROLLBACK.
FailWithoutRollback(w) == Lost(w) /\ UNCHANGED <<db, tx>>

\* ROLLBACK; a COMMIT may have been carried out all the same.
Fail(w) ==
  /\ Lost(w)
  /\ tx' = [tx EXCEPT ![w] = Untouched]
  /\ \/ UNCHANGED db
     \/ Comes(w, "commit") /\ tx[w] # Untouched /\ db' = tx[w]

\* INSERT finds the row of the daemon and fails on the constraint id_data.
Duplicate(w) ==
  /\ Comes(w, "store")
  /\ ~Locked(w)
  /\ val[w] = Absent /\ db # Absent
  /\ Leave({w})
  /\ crossed' = crossed \ {w}
  /\ UNCHANGED <<redis, db, tx, allowed, stale, failures, acls>>

-------------------------------------------------------------------------------
(* The ACL daemon, and the requests that delete the hash.                    *)

AclStart ==
  /\ ~Busy(Daemon)
  /\ acls < MaxAcls
  /\ op' = [op EXCEPT ![Daemon] = AclRun]
  /\ acls' = acls + 1
  /\ UNCHANGED <<redis, db, tx, at, val, allowed, overtaken, crossed, hollow, stale, failures>>

\* DELETE: of no row when there is none it can see.
AclDelete ==
  /\ Comes(Daemon, "delete")
  /\ db # Absent => ~Locked(Daemon)
  /\ tx' = [tx EXCEPT ![Daemon] = IF db = Absent THEN @ ELSE Absent]
  /\ Advance(Daemon, 1)
  /\ UNCHANGED <<redis, db, op, val, ghostVars>>

\* INSERT: refused by id_data, and the transaction with it, when setxattr was
\* faster.
AclInsert ==
  /\ Comes(Daemon, "insert")
  /\ ~Locked(Daemon)
  /\ tx' = [tx EXCEPT ![Daemon] =
              IF db = Absent \/ tx[Daemon] = Absent THEN Inherited ELSE Untouched]
  /\ Advance(Daemon, 1)
  /\ UNCHANGED <<redis, db, op, val, ghostVars>>

\* The statements that wait for the row find it gone.
AclCommit ==
  /\ Comes(Daemon, "commit")
  /\ IF tx[Daemon] = Untouched
     THEN UNCHANGED <<db, tx, allowed, overtaken, crossed>>
     ELSE /\ db' = tx[Daemon]
          /\ tx' = [tx EXCEPT ![Daemon] = Untouched]
          /\ allowed' = {tx[Daemon]}
          /\ overtaken' = Getters
          /\ crossed' = Setters
  /\ \E ws \in SUBSET {w \in Setters : Comes(w, "change") \/ (Comes(w, "store") /\ val[w] # Absent)} :
       /\ tx[Daemon] = Untouched \/ db = Absent => ws = {}
       /\ at' = [p \in Procs |-> IF p \in ws \cup {Daemon} THEN at[p] + 1 ELSE at[p]]
  /\ UNCHANGED <<redis, op, val, hollow, stale, failures, acls>>

\* DEL of the hash.
AclDel ==
  /\ Comes(Daemon, "del")
  /\ redis' = Absent
  /\ stale' = FALSE
  /\ Leave({Daemon})
  /\ UNCHANGED <<db, tx, allowed, crossed, failures, acls>>

\* The daemon dies, or cannot reach Redis.
AclFails ==
  /\ Busy(Daemon)
  /\ failures < MaxFailures
  /\ stale' = (stale \/ Comes(Daemon, "del"))
  /\ tx' = [tx EXCEPT ![Daemon] = Untouched]
  /\ Leave({Daemon})
  /\ failures' = failures + 1
  /\ UNCHANGED <<redis, db, allowed, crossed, acls>>

\* pgfuse_release, pgfuse_destroy.
DropHash ==
  /\ redis' = Absent
  /\ stale' = FALSE
  /\ UNCHANGED <<db, tx, op, at, val, allowed, overtaken, crossed, hollow, failures, acls>>

-------------------------------------------------------------------------------
Step(w) ==
  \/ \E r \in Requests : Start(w, r)
  \/ Hit(w)
  \/ Miss(w)
  \/ Select(w)
  \/ Fill(w)
  \/ Cache(w)
  \/ Change(w)
  \/ Lookup(w)
  \/ Store(w)
  \/ Duplicate(w)
  \/ Commit(w)
  \/ Fail(w)
  \/ Return(w)

Next ==
  \/ \E w \in Workers : Step(w)
  \/ AclStart
  \/ AclDelete
  \/ AclInsert
  \/ AclCommit
  \/ AclDel
  \/ AclFails
  \/ DropHash

Spec == Init /\ [][Next]_vars

-------------------------------------------------------------------------------
(***************************************************************************)
(* What readers of the attribute rely on.                                  *)
(***************************************************************************)
Quiet == \A p \in Procs : ~Busy(p)

\* Between requests the row has what the answers given so far and the daemon
\* allow, in the order they were given; only a replace of an attribute that is
\* not there is acknowledged for nothing.
RowIsAcknowledged == Quiet => db \in allowed

\* Between requests a copy in Redis, which getxattr answers with as long as it
\* is there, is that of the row.  The exceptions are those that set stale: a set
\* that failed after its HSET, a replace without a row, a fill with a value read
\* before a change, and a daemon that dies between COMMIT and DEL.
CopyIsTheRow == Quiet /\ ~stale => redis \in {Absent, db}
===============================================================================
