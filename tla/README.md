# pgfuse: a verification development

pgfuse is a FUSE file system. Its directory tree and attributes are rows of a
PostgreSQL database, cached in Redis; the contents of files are ordinary files
on a local disk; a portal (Liferay) shares the tables and is told of changes by
HTTP. This directory holds TLA+ modules of its core, TLC configurations that
check them on small instances, and TLAPS proofs of what holds for every
instance.

## Inventory

| component | code | state | operations | who calls it |
|---|---|---|---|---|
| Connection pool | `pool.c` | slots: `conns[]`, `avail[]`; mutex, condition | `psql_pool_init`, `_acquire`, `_release`, `_destroy` | every handler, through `ACQUIRE` and `RELEASE` |
| Handler protocol | `pgsql.h:74-93`, `pgfuse.c:50-58`, `pgsql.c:2109-2161` | the server's transaction on each connection | `PSQL_BEGIN`, `PSQL_COMMIT`, `PSQL_ROLLBACK` and their early returns | every handler |
| Redis multiplexer | `thredis.c` | one `redisContext`, a queue of wait records, a reader thread | `thredis_new`, `thredis_command`, `reader_thread_main`, `thredis_close` | everything that touches Redis |
| Attribute cache | `pgsql.c:760-1092`, handlers of `pgfuse.c` | Redis hash `<id>` (`meta`, `event`, `uid`), row of `dir` | `psql_read_meta`, `psql_write_meta`; getattr, open, read, write, truncate, chmod, chown, utimens, release | the kernel; the ACL daemon deletes hashes |
| Paths and directories | `pgsql.c:551-758`, `1094-1658`, handlers | Redis `<gid>:path`, `<id>:dir`; table `dir` | path resolution, create, mkdir, symlink, unlink, rmdir, readdir | the kernel |
| Rename and portal | `pgsql.c:2163-2656`, `pgfuse.c:1983-2150` | the same, `dlfileentry` of the portal | `psql_rename`, `psql_rename_to_existing_file` | the kernel |
| Block arithmetic | `pgsql.c:517-549`, `1254-1384`, `1929-2107` | table `data` | `psql_read_buf`, `psql_write_buf` | readlink, symlink |
| Timestamps | `pgsql.c:497-515` | none | two conversions | the attribute cache |
| Symbolic links | `pgfuse.c:1860-1981, 2152-2203`, handlers; trigger of `dir.sql` | row of `dir`, rows of `data`, Redis keys of path and id | symlink, readlink, getattr, utimens, chown, chmod, unlink of a link | the kernel |
| Extended attributes | `pgsql.c:1660-1927`, handlers; `smbutil.py` | table `xattr`, a field of the Redis hash `<id>` | getxattr, setxattr, removexattr, listxattr | the kernel; the ACL daemon replaces rows and deletes hashes |
| Real paths, users, statistics, options, SQL | see `PROJECT.json` | | | |

The threads of the FUSE loop share the pool and the multiplexer; pool, mutexes
and transactions are the only synchronisation. What is hard: the hand-over of
connections and wakeups; matching replies to the threads that wait for them;
transactions that survive an early return; attributes kept in three places and
changed by read-modify-write without a lock; caches dropped before or after the
transaction they belong to; loss of either server at any step. `PROJECT.json`
lists these hazards line by line.

What makes each component correct: the pool leases a connection to one thread at
a time, wakes who waits and closes what it opened; a handler never hands on an
open transaction and never reports success for what was not stored; a command to
Redis returns its own reply; attributes show every acknowledged change and
survive what the code says they survive; a path leads to the entry the database
has at that path; a rename is all or nothing.

## Plan

Done in this order; the last item is left.

1. `Pool`, with the abstract `ConnLease`, and `PoolProofs`.
2. `Session`: handlers and transactions over `Pool`, and `SessionProofs`.
3. `Thredis`: the multiplexer, and `ThredisProofs`.
4. `MetaCache`: attributes of one file, with the ACL daemon, and
   `MetaCacheProofs`.
5. `Namespace`: paths, listings and the handlers on directories.
6. `Rename`: rename and the portal over `Namespace`, and `RenameProofs`, the
   invariants, and `RenameStepProofs`, what single requests leave right.
7. `Blocks` and `Timestamps`: pure functions against a reference definition;
   `Links`, which composes both with the rows and the copies of a symbolic link,
   and `LinksProofs`, on all three.
8. `Xattrs`: an extended attribute, its copy and the ACL daemon, and
   `XattrsProofs`.
9. Left: an abstract tree that `Rename` refines as long as Redis is right, and
   two requests at once in different directories. The portal commits its changes
   before the handler does, so that the refinement has to name the same defects
   as the action properties do.

## Modules

**`Pool`** models `pool.c`. A slot is a pair of `conns[s]`, an address, and
`avail[s]`, a mark: a thread, `AVAILABLE` or `ERROR`. A critical section under
`pool->lock` is one action (`Take`, `Block`, `Release`); the signal after the
unlock is its own (`Signal`), and a wait may end without one (`SpuriousWakeup`).
Addresses of freed `PGconn` objects are handed out again by malloc, so a slot
that failed in `psql_pool_init` may alias a later one. `Break` and `Abandon` are
what handlers do with a connection: it breaks, or an early return forgets it.
`held` is the lease, from acquire to release; what a handler does with the
pointer after that is the business of `Session`. `DestroySlot` finishes a slot
that failed in `psql_pool_init` a second time, since `ERROR` is greater than 0 as
an unsigned `pthread_t`: the process may die in it (`phase` is `"dead"`), or goes
on. `ConnLease` is the promise: a thread is leased a usable connection that no
other thread has a lease of, and gives it back.

**`Session`** extends `Pool` with the handler's position (`step`), the
transaction of each connection at the server (`tx`, `pending`) and what the
caller was told (`answer`). The handlers of `pgfuse.c` from ACQUIRE to RELEASE
have this shape; they differ in their statements, which are the actions
`Execute`, `StatementFails`, `FailureIsDropped` (code that ignores a result and
goes on to COMMIT) and `Refuse`. `pgfuse_rename` answers with the error of
`psql_rename` and yet comes to COMMIT, when a statement failed and when none did
(`RefuseByCommit`). A connection may be lost at any command, after COMMIT was
carried out included.

`pgfuse_chown` goes on after RELEASE: for an entry of the portal it asks for the
user on the connection it has given back (`pgfuse.c:1835-1839`). `ReleaseAndKeep`
leaves the pointer in `kept`, and by the time of the query another handler may
have the connection and a transaction on it. `LateIsHarmless`: Redis had the
answer, or the SELECT went well. `LateAborts`: the SELECT failed and took the
transaction with it. `LateBreaks`: the server was gone. `LateSpoils` and
`LateCollides`: two threads are in libpq with one connection, and the other one
misses the answer to a statement or to a command of a macro, so that it fails or
returns without RELEASE. `raced` and `givenUp` remember whom that happened to.
What libpq may do to its own memory then is left out.

**`Thredis`** models `thredis.c`. The critical section of `thredis_command` is
one action; the reader's is several, since the threads it wakes run on at once.
hiredis and the socket are modelled by their use: replies come in order, a read
returns any number of complete replies, an error is kept, poll reports data, end
of file or a reset. `pthread_cond_wait` is taken not to wake spuriously, since
the code calls it outside a loop: what a spurious wakeup would do there is
undefined (the hazard at `thredis.c:234` in `PROJECT.json`).

**`MetaCache`** is the life of one file's attributes. A handler is a script of
steps, each one command; the scripts (`Open`, `Read`, `Write`, `Release`, ...)
are put together from `ReadMeta` and `WriteMeta` as the handlers are from
`psql_read_meta` and `psql_write_meta`. The file is one of the portal (its id is
below `MAX_ID_PORTAL`), since the portal is told of no others. `Chown` ends at
RELEASE; the query after it is in `Session`. The kernel serialises requests that
modify an inode and sends RELEASE when a handle is no longer used. `allowed` is
the set of attributes that the answers given so far permit: an acknowledged
request changes each of its members, one that failed or crashed may or may not
have.

**`Namespace`** models the tree and what Redis knows of it. `tree` is the view
`dir`: folders and files of the portal, and the rows of `dir_fs` for temporary
files and links. `redis` has the id of each resolved path, the attributes of
each id (reduced to type and parent) and the names of each directory that was
read; ids that are given out are never used again. The kernel locks the
directory and libfuse the path for the length of a request, so a handler is one
action; inside it the order of the code is kept as a record `s` that goes
through the calls: `t` is the tree its transaction sees, `u` the tree that is
left if it does not commit, `r` is Redis. `Call` is a request to the portal,
which commits for itself and may fail unnoticed; `Finish` is COMMIT and the DEL
after it, where COMMIT may fail, its answer be lost or pgfuse die. A lookup
(`psql_path_to_id`) fills Redis as it goes, as in the code. The portal is known
by its calls only: it refuses a name that is taken in a folder, a folder that is
not there, and to move a folder below itself. `At`, where a path leads in the
database, and `Descend`, where a lookup gets with the help of Redis, are
recursive functions on paths. An entry is below another (`Below`) if every set of
folders that holds the one and is closed under parents holds the other: so said,
without counting steps, a folder on a cycle is below nothing.

**`Rename`** extends `Namespace` with `pgfuse_rename` and thereby gives the
whole system of requests on the tree. What it does depends on the kinds of both
ends (`RenameDir`, `RenameTemp`, `RenamePortal`, `RenameAcross`) and on whether
the destination exists (`Replace`). `TreeIsSound` says that every entry lies in
a folder and hangs below the root whatever was moved, refused or half done. `data`
of an entry names the file the contents came from, which `copy_mmap` passes on.
The copy is a file on disk and no part of the transaction: it stays when the
rename is refused. It may also fail, after the destination has been truncated
(`ok` is FALSE in `RenameTo`); nobody looks at its result. A link has no file, so
that the copy of one always fails. Not all failures of statements are seen:
`Hide` is the UPDATE of `set_del_dlfileentry` that may fail, `RenameLost` the
search for a hidden file (`exist_name_dlfileentry`). A file of the portal and a
temporary one do not replace each other: once the data is copied the 64-bit id of
the temporary file is put into an `int` (`pgsql.c:2281`, `2287`), and as those
ids count down from 2^63-1 the request ends as an error (`ReplaceFails`).

**`Blocks`** is the arithmetic that cuts a buffer into blocks: the fields of
`compute_block_info`, the piece of each block, `psql_write_block`, and the loops
of `psql_write_buf` and `psql_read_buf` as functions on the rows of table
`data`. The number of a row is a 64-bit word that the code gives to `ntohl`,
which on a little-endian machine makes it 0: the n-th block read is the n-th row
there is (`Nth`). For a link, whose blocks are all there, the two are the same,
which `RoundTrip` proves; for a file with a hole they are not, but nothing else is
kept in `data`. `ByteAt` and `WrittenByte` are the reference: a flat array.

**`Timestamps`** has the two conversions on words of any size. A time before
2000 is a huge unsigned word and a negative number at the server; `Signed`,
`Ticks` and `Truncated` say what is meant.

**`Links`** is what happens to the symbolic links at one path: rows and blocks
in the database, path and attributes in Redis, each written before the
transaction is known to succeed. The kernel locks the directory, so a handler is
one action; failures of INSERT, of a block, of UPDATE, DELETE and COMMIT, a lost
answer and a crash are actions or disjuncts of their own. The path of the
directory is taken to be in Redis, since lookups below others are the business of
`Namespace`. The -ENOMEM guard of readlink is left out: the kernel's buffer is
larger than any target.

**`Xattrs`** is one attribute of one file. Attributes of other names are
independent of it but for the DEL of the hash, which is an action. A handler is
a script of commands as in `MetaCache`; statements wait for the row's lock and
see what is committed. A second row of the same file and name is refused, as by
the constraint UNIQUE(dir_id, name) of `portal.sql:33`; `portal7.sql`,
`portal8.sql` and `schema.sql` have none, and a file there could have two rows.
getxattr with a buffer exactly as large as the value does not fill Redis, hence
`ample`. listxattr reads the table and changes nothing; it is no action. `stale`
marks the four ways in which the code leaves a wrong copy: a set that failed
after its HSET, a replace of an attribute that has no row, a fill with a value
read before a change, and a daemon that dies between COMMIT and DEL. `allowed`
is the set of values that the answers given so far permit, as in `MetaCache`. A
crash of pgfuse is a failure of each handler.

## Runs

| run | instance | what it shows |
|---|---|---|
| `pool` | 3 threads, 2 slots, 2 addresses | leases are exclusive and end with the slot they began with, refinement of `ConnLease`, no wakeup lost, everything is closed in the end |
| `session` | 2 threads, 2 slots | no transaction leaks into another handler, success means stored, healthy slots are never leaked, healthy connections serve those who wait; all this with the late query of chown, but for the handler it disturbs |
| `thredis` | 3 threads | own reply or NULL, every command returns, close returns while the connection is up |
| `meta_cache` | 1 worker, 2 handles, sizes 0..2, 2 permissions, 2 users, 1 failure, 1 crash | with the ACL daemon: attributes are never lost but by an interrupted release or by deleting a dirty hash; closed files are stored; the portal is told of the last writer |
| `namespace` | 3 entries, 2 names, 2 levels, no failure | from a state where Redis is right each request leaves paths, listings and attributes right, but for named defects |
| `namespace_failures` | 2 entries, 3 names, 1 failure | the tree is sound whatever fails; a rename loses no data as long as copy_mmap copies, but for a temporary file that becomes a file of the portal |
| `links` | 2 ids, blocks of 2 bytes, targets of 1 to 5, 3 times, 2 failures | targets read back whole; a link has all its blocks or none; an acknowledged link is the only one at its path; times are kept to the tick |
| `xattrs` | 2 handlers, the daemon, 2 values, 2 failures, 2 runs of the daemon | acknowledged changes are in the table; the copy in Redis is the row's but for the named defects |
| `meta_race` | 2 workers, noatime | finding: a concurrent handler undoes an acknowledged change, with no daemon, failure or crash involved |
| `session_late` | 2 threads, 1 slot | finding: chown works with a connection another handler was given |
| `paths_follow_tree` | 2 entries, 3 names | finding: a path below a renamed directory leads to the directory |
| `rename_replaces` | 2 entries, 3 names | finding: a file of the portal moved onto another keeps its name, the other is gone |

Bounds. Two slots and three threads make every contention of the pool happen:
both slots lent and one thread waiting, a condemned slot, an aliased address.
Commands of a thread are told apart from the one before by a bit, which is
enough since a thread has one outstanding. `MaxSize`, `MaxOpens`, `MaxFailures`
and `MaxCrashes` are the only counters of `MetaCache`: a second handle is what
separates closing a handle from closing the file, and a write either extends the
file or does not. Permissions and users are symmetric.

In `Namespace` the name `t` is one of a temporary file, `f` and `g` are of the
portal; requests are made in the root and in `f` (`Folders`, `Inner`), so that a
path has a parent that may be renamed, removed or replaced. Three entries are a
folder and two files in it; two suffice for a rename onto another entry, where
the failures are added. Redis goes wrong in ways the code does not repair, and a
state that has once gone wrong allows nearly anything after it; `PathsStayTrue`,
`ListsStayTrue` and `MetasStayTrue` therefore speak of single steps from states
where Redis is right about paths and attributes and knows every directory
(`Untroubled`), and name the steps the code gets wrong: symlink, replacing a
file of the portal, and what lies below a renamed directory. The states before
the step are all that the handlers reach, and the runs reach many that are
right.

In `Links` a target has one to three blocks, the last of them full or not. Words
have 64 values and a second 4 ticks of 2 nanoseconds; the epoch is second 3, so
that the times of requests lie before it, at it and after it. Two links at a time
are what a COMMIT that was carried out unnoticed and the next symlink make.

In `Xattrs` a second handler is what reads while another writes (the kernel lets
one change attributes of an inode at a time); two runs of the daemon and two
failures let one of each meet the traces of another. Handlers and values are
symmetric.

Fairness. `Pool` and `Session` assume that a thread which may run does, that a
handler comes to its end, and nothing about when connections break. `Thredis`
assumes that the reader runs, that a server which is up answers and that a reply
comes in completely in the end (strong fairness of `ReadSome`, since reads that
bring only a part may recur). `pool`, `session` and `thredis` do not check for
deadlock, since the system ends after destroy or close; the others do.

## Proofs

`PoolProofs` proves for any number of threads, slots and addresses, from
`PoolAssumption` alone (finitely many threads, at least one slot, distinct marks):

- `TypeCorrect`, and `Inductive`: `PoolInv` is invariant. It strengthens the
  properties by what they do not say themselves: a mark that is a thread belongs
  to the slot whose address that thread holds or abandoned; live addresses occur
  in one slot that is not `ERROR`; and while `psql_pool_init` runs, only slots
  below `pos` are filled. The order of the slots matters: an `ERROR` slot that
  aliases a live address lies below the live one, which is why the descending
  search of `psql_pool_release` is right (`OwnSlotIsLast`).
- From it `ExclusiveUse` (of leases), `ReleaseIsExact`, `NeverDangling`,
  `DestroyClosesAll`, `ErrorSlotsStay` and `RefinesLease`, the step simulation of
  `ConnLease`. `DestroyClosesAll` does not say that destroy is right: it says that
  nothing stays open and which slots are finished on an object already freed,
  those that failed in `psql_pool_init` and those that share an address with one.
- `WakeupsSuffice`: idle slots are at most as many as threads about to scan or to
  signal. It needs a count that every action keeps (`WakeupNext`), by the
  cardinality lemmas `FiniteCounts`, `OneMore`, `OneLess`.

`SessionProofs` proves for the handlers over the pool, from the same
assumption:

- `SessionInductive`: a transaction is open only on a connection that works and
  that a handler past BEGIN holds; pending changes are those of that handler;
  stored changes were stored by a COMMIT. From it `NoTransactionLeaks`,
  `SuccessMeansStored`, `RefusalStoresNothing`, `HealthyNeverLeaks` and
  `SessionTypeCorrect`. Every step of a session is one of the pool or leaves it
  as it is (`SessionStepIsPoolStep`), so that `PoolInv` can be used. The late
  query of chown is one of the steps; what it can spoil is excepted by name in
  the properties (`raced`, `givenUp`), and the proof shows that this is all: it
  never leaves a transaction on a connection that is idle, nor stores what was
  refused.

`ThredisProofs` proves for any number of threads: `ThredisInductive`, by which
the replies to come are those of the first records of the queue in order
(`InStep`), and as many while the connection is up, and the reader owns the mutex
as long as it has a record in hand. `RepliesInStep` is part of it; `RepliesAreOwn`,
`NobodyIsForgotten` and `ThredisTypeCorrect` follow.

The first part of `LinksProofs` proves of `Blocks`, for any block size, offset
and buffer: the pieces of a buffer lie in their blocks and follow each other
without gap, so that psql_write_block never refuses (`PiecesFit`); a write
changes the bytes of the buffer and no others (`WriteIsFlat`); a read copies all
(`ReadCopiesAll`); and what was written at offset 0 into no rows is read back
(`RoundTrip`), since the n-th row then is that of block n (`NthOfAll`). Division
by a symbolic block size is left to a few lemmas (`DivMod`, `NextMultiple`,
`DivModUnique`).

Of `Timestamps` it proves, for any word size: the stored word is, signed, the time
in ticks (`SignedIsTicks`); a time from 2000 on is read back to the tick
(`StoredTimeIsKept`); writing back what was read stores the same word, before
2000 as well (`WriteBackIsExact`), which is why chmod and chown do no harm.

The rest of `LinksProofs` builds on these lemmas: `LinksInductive` adds to the
properties that Redis knows no id that was not given out, so that a new link
finds no copies of an old one, and that a time in Redis is one given or one read
back from the row. `TargetsReadBack`, `LinksAreWhole`, `PromisesAreKept`,
`TimesAreKept` and `LinksTypeCorrect` follow, from `BlockAssumption`,
`TimeAssumption` and `LinksAssumption` (targets are not empty, times can be
stored by PostgreSQL).

`XattrsProofs` proves, for any number of handlers, values, failures and runs of
the daemon, `XattrsInductive`: for the one setter there may be it says at each
step what its transaction has done, whether the row is the one before or after it,
and what Redis may hold; while the daemon has yet to delete the hash, that is
anything (`Holds`). `AcknowledgedIsStored`, `CopiesAgree` and `XattrsTypeCorrect`
follow.

`MetaCacheProofs` proves for one thread (the option -s), any sizes, permissions,
users, handles, failures and crashes: `MInvariance`, which says what the running
handler has in hand (before its HSET attributes that are allowed, after it those
with the change applied, after COMMIT the same in Redis and, unless the event
keeps it behind, in the row) and what it knows of event and user. From it
`MetaCacheOnlyDirtyIsLost`, `MetaCacheClosedIsStored`, `MetaCachePortalIsTold` and
`MetaCacheTypeOK`. With two threads they do not hold (`meta_race`). The
assumptions are `MetaCacheAssumption` and `NoneAssumption`; `Positions` says at
which place each script has each step, so that the proofs of the steps speak of
numbers only.

`RenameProofs` proves for any number of entries, names, levels of folders and
failures `RenameInvariant`, the inductive invariant `RInv` of `Namespace` and
`Rename` together: besides types it says that the tree is sound and only files
of the portal are hidden (`Fits`), that what Redis says of an id, however old,
tells folders from the rest (`Knows`), and that an id never given out has no row
and no attributes (`Unused`). Without `Knows` a handler could take a file for a
folder and put an entry below it; without `Unused` a new entry could find the
attributes of an old one, and `Knows` would not last.

The proof follows a request the way the model does, as a record `s` through the
calls of a handler. `Good(s)` says of the record what `RInv` says of a state, and
of both trees at once, the one the transaction sees and the one that is left if it
does not commit. Each function of `pgsql.c` has a lemma that keeps `Good`
(`AddGood`, `RenameDirGood`, `ReplaceGood`, ...), each action one that ends in
`RInv'`. Soundness is a fact about the whole tree that calls change one row at a
time, for which there are four lemmas: a row that no folder depends on changes
(`LeafChanges`), rows go (`RowsGo`), a folder moves to one that is not below it
(`DirMoves`), or names change only (`SameShape`). What `At` and `Descend`
compute is unfolded a step at a time by `AtStep` and `DescendStep`. That these
recursive functions exist is an induction on paths; tlapm cannot cite the
library's theorem for it, whence `Least` and `Induct`, from the least number
principle for sets. The theorems are `NamespaceTypeOK` and `TreeStaysSound`; they
rest on `NamespaceAssumption` and `NothingAssumption`.

Its last part adds to `RInv` that the portal has no name twice in a folder, what is
hidden counted (`Sole`, with `RInv` the inductive `OInv`; `PortalNamesStayApart`).
mkdir depends on it: it deletes one hidden file of the name it is to make, and only
if there was no other does the portal accept the folder.

`RenameStepProofs` proves action properties, first those of the run `namespace`,
for any names, paths, ids and levels: `PathKeysStayTrue`, `ListingsStayTrue` and
`AttributesStayTrue`. They are about one step from a state where Redis is right
(`Untroubled`, which with `RInv` is `Calm`). There lookups find what the tree
has and leave Redis right (`LookupFinds`, `FromPathFinds`), so that a handler
works on the entries its paths lead to. Each handler then has a lemma
(`CreateSteps`, `UnlinkSteps`, `RenameSteps`, ...) that follows its calls to the
rows `X` it touches, the directories `D` they are in before and after, and the
keys it deletes or sets; that this is enough for the three properties is one
lemma for all of them, `Touches`. A path is stale after the step only if a row
in its place was touched, whence the induction on paths in `OnePath` (an entry
has one path) and `PathsConclude`. The cases of rename are those of the code:
within the table or the portal (`MovedEnds`), from one to the other (`Crossed`),
and onto an entry that exists (`CopiedSteps`), whether the copy succeeds or not.
The exceptions are part of the properties and none is added in the proofs: what
lies below a directory that changed, symlink, and files of the portal that are
replaced, moved or hidden. `meta_race` and `paths_follow_tree` show what happens
there and with two handlers at once.

Its last part proves `RenameLosesNoData`, that is `RenameKeepsData` of the run
`namespace_failures`, from `RInv` and for any state it allows: Redis may be
wrong about everything but the two paths, and calls, statements and COMMIT may
fail. Provided is that `copy_mmap` copies what it is asked to (`Copies`): where
it fails, a rename onto a file that exists, or from one kind to the other,
deletes or hides the source with nothing at the destination. What is followed is
the row that has the data, in the tree of the transaction and in the one left
without it: `Bears(t, i, x)` says that row `i` is shown and has the data `x`,
`Keeps(s, x)` that some row does in both. The lookups come first: `FoundKeyed`
says that both paths are found by a key of their own or of their directory,
`KeyedLookup` that such a lookup changes no other key, so that the second lookup
of the source finds the same file, and `RenameBegins` puts them together. Then
each branch keeps the data in both trees: an UPDATE (`RenameTempKeeps`), calls
to the portal (`RenamePortalKeeps`), onto a file that exists (`ReplaceKeeps`,
`ReplaceFailsKeeps`), and from the portal to the table, where the copy comes
before the old file is hidden (`ToTempKeeps`). Only from the table to the portal
does the data depend on nothing going wrong (`ToPortalKeeps`, `Risks`); that is
the exception in the property.

The attempt showed that the property needs `Straight`. Where neither a path nor its
directory has a key, `psql_path_to_id` descends from the root, and with stale keys on
the way its answer can be right by accident: nothing, for a name that is free,
because a stale key near the root leads nowhere, while the directory is then found
by the stale key of the one above it and is another, in which the name is taken. The
portal then refuses the new file, and the old one is deleted. `RInv` allows such a
state for paths of five names; whether requests lead to it is not known. On trees of
the depth the runs have `Straight` is always true.

Only model-checked: the liveness properties (`UsableSlotIsTaken`,
`HealthyConnServes`, `CommandReturns`, `CloseReturns`), which need fairness.

## Known to go wrong, without a run

Some of what the code does wrong is in the models and is excepted in the
properties, or told of here only.

- `copy_mmap` (`pgfuse.c:131-164`) fails after it has truncated the destination,
  and the source is deleted or hidden all the same: the data is lost. With
  `RenameTo(from, to, FALSE)` in place of TRUE in `LosesData`, TLC violates
  `RenameKeepsData` by creating two temporary files and renaming one onto the
  other.
- A file of the portal and a temporary one: the destination is overwritten, then
  the request is refused (`pgsql.c:2281`).
- A read that looks at the field `event` before a write marks it, and sets it
  after that, hides the write from the portal (`pgfuse.c:1385-1400`):
  `PortalIsTold` holds with one worker, and does not with the two of
  `meta_race`.
- `psql_pool_destroy` finishes slots twice that failed in `psql_pool_init`
  (`pool.c:75`, `95`).
- With every slot given up or leaked, `psql_pool_acquire` waits for ever
  (`pool.c:152`), and `thredis_close` and the reader wait for each other when
  the connection goes down during close (`thredis.c:185`). `HealthyConnServes`
  and `CloseReturns` except just these two cases, and so do not catch them.

## Not modelled

Listed with reasons in `PROJECT.json`. `MetaCache` leaves out the call to the
portal that chown makes after its late query. `Namespace` leaves out the
read-only mount, a create of a name that exists (the kernel opens it instead)
and readers of one directory at once: kernels from 4.7 on let two handles read
in parallel, and both would push the names into the cached listing. Left aside
for good: option parsing, logging, `statfs`, the SQL dumps, the portal's
templates, sample programs. Running out of memory in a handler is a refusal like
any other (`Refuse`); failing mutex calls are not modelled, since these mutexes
are initialised and never held twice.
