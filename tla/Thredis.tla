------------------------------- MODULE Thredis -------------------------------
(***************************************************************************)
(* thredis.c: one Redis connection shared by all threads.  thredis_command *)
(* sends a command under the mutex, queues a wait record of its own stack  *)
(* frame and sleeps on it; the reader thread polls the socket, takes the   *)
(* replies in the order they come and hands each to the first record.      *)
(*                                                                         *)
(* A critical section of thredis_command is one step: while it lasts the   *)
(* reader can at most return from poll.  The reader's critical section is  *)
(* several steps, since the threads it wakes run on at once.               *)
(*                                                                         *)
(* pthread_cond_wait is taken not to wake without a signal: the code calls *)
(* it once, outside a loop, and relies on it.  hiredis keeps its error: a  *)
(* context that has failed once fails every further read and write.        *)
(***************************************************************************)
EXTENDS Naturals, Sequences, SequencesExt

CONSTANTS
  Threads,  \* threads that issue commands
  READER,   \* the reader thread, as the owner of the mutex
  CLOSER,   \* the thread in thredis_close, as the owner of the mutex
  NULL,     \* a NULL redisReply*
  NONE      \* no thread

ASSUME ThredisAssumption ==
  /\ READER # CLOSER
  /\ NONE \notin {READER, CLOSER}
  /\ {READER, CLOSER, NONE} \cap Threads = {}
  /\ NULL \notin Threads \X {0, 1}

VARIABLES
  redis,    \* thredis->redis: "open", "failed" (its err is set) or "gone" (NULL)
  mutex,    \* owner of thredis->mutex between steps
  waiters,  \* wait_head ... wait_tail: the threads whose records are queued
  rd,       \* where the reader thread is
  target,   \* the thread whose record deliver_reply has popped, not signalled
  pc,       \* pc[t]: "idle", "unlocked" (before the sleep) or "asleep"
  asked,    \* asked[t]: the last command of t; the bit tells it from the one before
  got,      \* got[t]: wait.reply, the reply or NULL
  link,     \* the socket: "up", "eof" (the server closed it), "reset"
  wire,     \* commands on their way to the server
  inbox,    \* replies in the socket
  buf,      \* complete replies in the reader buffer of hiredis
  closing   \* thredis_close: "no", "join", "done"

clientVars == <<pc, asked, got>>
linkVars == <<link, wire, inbox>>
vars == <<redis, mutex, waiters, rd, target, clientVars, linkVars, buf, closing>>

Commands == Threads \X {0, 1}

\* The queue holds threads, the socket and the buffer hold whole replies.
TypeOK ==
  /\ redis \in {"open", "failed", "gone"}
  /\ mutex \in {NONE, READER, CLOSER}
  /\ waiters \in Seq(Threads)
  /\ rd \in {"poll", "lockIn", "lockErr", "parse", "drain", "exit"}
  /\ target \in Threads \cup {NONE}
  /\ pc \in [Threads -> {"idle", "unlocked", "asleep"}]
  /\ asked \in [Threads -> Commands]
  /\ got \in [Threads -> Commands \cup {NULL}]
  /\ link \in {"up", "eof", "reset"}
  /\ wire \in Seq(Commands)
  /\ inbox \in Seq(Commands)
  /\ buf \in Seq(Commands)
  /\ closing \in {"no", "join", "done"}

\* thredis_new: the reader is started on an empty queue.
Init ==
  /\ redis = "open"
  /\ mutex = NONE
  /\ waiters = <<>>
  /\ rd = "poll"
  /\ target = NONE
  /\ pc = [t \in Threads |-> "idle"]
  /\ asked = [t \in Threads |-> <<t, 0>>]
  /\ got = [t \in Threads |-> NULL]
  /\ link = "up"
  /\ wire = <<>>
  /\ inbox = <<>>
  /\ buf = <<>>
  /\ closing = "no"

-------------------------------------------------------------------------------
(* thredis_command.                                                          *)

\* Mutant: the record goes to the head of the list.
pushAtHead(t) == waiters' = <<t>> \o waiters

push_waiter(t) == waiters' = Append(waiters, t)

MayCommand(t) == pc[t] = "idle" /\ mutex = NONE /\ closing = "no"
NextOf(t) == <<t, 1 - asked[t][2]>>

ReturnNull(t) ==
  /\ MayCommand(t)
  /\ asked' = [asked EXCEPT ![t] = NextOf(t)]
  /\ got' = [got EXCEPT ![t] = NULL]
  /\ UNCHANGED <<mutex, waiters, rd, target, pc, link, inbox, buf, closing>>

NoRedis(t) ==
  /\ redis = "gone"
  /\ ReturnNull(t)
  /\ UNCHANGED <<redis, wire>>

AppendFails(t) ==
  /\ redis # "gone"
  /\ redis' = "failed"
  /\ ReturnNull(t)
  /\ UNCHANGED wire

\* Mutant: a failed write is not kept as an error, although the server may
\* have received the command.
FlushFailsOnce(t) ==
  /\ redis = "failed" \/ (redis = "open" /\ link # "up")
  /\ redis' = "open"
  /\ ReturnNull(t)
  /\ wire' = IF link = "reset" THEN wire ELSE Append(wire, NextOf(t))

FlushFails(t) ==
  /\ redis = "failed" \/ (redis = "open" /\ link = "reset")
  /\ redis' = "failed"
  /\ ReturnNull(t)
  /\ UNCHANGED wire

\* The command is written; a server that has closed its end ignores it.  The
\* record's mutex is locked before thredis->mutex is unlocked.
Send(t) ==
  /\ MayCommand(t)
  /\ redis = "open"
  /\ link # "reset"
  /\ asked' = [asked EXCEPT ![t] = NextOf(t)]
  /\ wire' = IF link = "up" THEN Append(wire, NextOf(t)) ELSE wire
  /\ push_waiter(t)
  /\ pc' = [pc EXCEPT ![t] = "unlocked"]
  /\ UNCHANGED <<redis, mutex, rd, target, got, link, inbox, buf, closing>>

\* pthread_cond_wait releases the record's mutex.
Sleep(t) ==
  /\ pc[t] = "unlocked"
  /\ pc' = [pc EXCEPT ![t] = "asleep"]
  /\ UNCHANGED <<redis, mutex, waiters, rd, target, asked, got, linkVars, buf, closing>>

-------------------------------------------------------------------------------
(* reader_thread_main.                                                       *)

\* Mutant: only POLLIN is looked at, and only while the link is up.
PollInOnly ==
  /\ rd = "poll"
  /\ inbox # <<>>
  /\ rd' = "lockIn"
  /\ UNCHANGED <<redis, mutex, waiters, target, clientVars, linkVars, buf, closing>>

PollReturns ==
  /\ rd = "poll"
  /\ \/ link = "reset" /\ rd' = "lockErr"
     \/ link # "reset" /\ (inbox # <<>> \/ link = "eof") /\ rd' = "lockIn"
  /\ UNCHANGED <<redis, mutex, waiters, target, clientVars, linkVars, buf, closing>>

LockForError ==
  /\ rd = "lockErr"
  /\ mutex = NONE
  /\ mutex' = READER
  /\ rd' = "drain"
  /\ UNCHANGED <<redis, waiters, target, clientVars, linkVars, buf, closing>>

\* redisBufferRead takes n complete replies from the socket.
BufferRead(n) ==
  /\ rd = "lockIn"
  /\ mutex = NONE
  /\ redis = "open"
  /\ inbox # <<>>
  /\ mutex' = READER
  /\ rd' = "parse"
  /\ buf' = buf \o SubSeq(inbox, 1, n)
  /\ inbox' = SubSeq(inbox, n + 1, Len(inbox))
  /\ UNCHANGED <<redis, waiters, target, clientVars, link, wire, closing>>

ReadSome == \E n \in 1 .. Len(inbox) : BufferRead(n)
ReadPart == BufferRead(0)

\* It fails on end of file, on a reset, and after an earlier error.
BufferReadFails ==
  /\ rd = "lockIn"
  /\ mutex = NONE
  /\ redis # "open" \/ inbox = <<>> \/ link = "reset"
  /\ mutex' = READER
  /\ rd' = "drain"
  /\ UNCHANGED <<redis, waiters, target, clientVars, linkVars, buf, closing>>

\* deliver_reply, up to the lock of the record's mutex.
Pop(reply) ==
  /\ target = NONE
  /\ waiters # <<>>
  /\ waiters' = Tail(waiters)
  /\ target' = Head(waiters)
  /\ got' = [got EXCEPT ![Head(waiters)] = reply]
  /\ UNCHANGED <<redis, mutex, rd, pc, asked, linkVars, closing>>

\* Mutant: the record is signalled, its reply never assigned.
DeliverUnset ==
  /\ rd = "parse"
  /\ buf # <<>>
  /\ Pop(NONE)
  /\ buf' = Tail(buf)

Deliver ==
  /\ rd = "parse"
  /\ buf # <<>>
  /\ Pop(Head(buf))
  /\ buf' = Tail(buf)

DeliverNull ==
  /\ rd = "drain"
  /\ Pop(NULL)
  /\ UNCHANGED buf

\* Mutant: the signal does not wait for the record's mutex.
SignalAtOnce ==
  /\ target # NONE
  /\ pc' = [pc EXCEPT ![target] = IF @ = "asleep" THEN "idle" ELSE @]
  /\ target' = NONE
  /\ UNCHANGED <<redis, mutex, waiters, rd, asked, got, linkVars, buf, closing>>

\* The record's mutex is free once its thread sleeps; woken, the thread returns
\* wait.reply.
Signal ==
  /\ target # NONE
  /\ pc[target] = "asleep"
  /\ pc' = [pc EXCEPT ![target] = "idle"]
  /\ target' = NONE
  /\ UNCHANGED <<redis, mutex, waiters, rd, asked, got, linkVars, buf, closing>>

\* redisGetReplyFromReader fails (out of memory).
ParseFails ==
  /\ rd = "parse"
  /\ target = NONE
  /\ rd' = "drain"
  /\ redis' = "failed"
  /\ UNCHANGED <<mutex, waiters, target, clientVars, linkVars, buf, closing>>

Unlock ==
  /\ rd = "parse"
  /\ target = NONE
  /\ buf = <<>>
  /\ mutex' = NONE
  /\ rd' = "poll"
  /\ UNCHANGED <<redis, waiters, target, clientVars, linkVars, buf, closing>>

\* Mutant: the records still queued are left to themselves.
ReaderExitsAtOnce ==
  /\ rd = "drain"
  /\ target = NONE
  /\ redis' = "gone"
  /\ mutex' = NONE
  /\ rd' = "exit"
  /\ UNCHANGED <<waiters, target, clientVars, linkVars, buf, closing>>

ReaderExits ==
  /\ rd = "drain"
  /\ target = NONE
  /\ waiters = <<>>
  /\ redis' = "gone"
  /\ mutex' = NONE
  /\ rd' = "exit"
  /\ UNCHANGED <<waiters, target, clientVars, linkVars, buf, closing>>

-------------------------------------------------------------------------------
(* thredis_close, called by pgfuse_destroy when the threads of the FUSE loop *)
(* are joined and its own FLUSHALL has returned.  poll is a cancellation     *)
(* point, pthread_mutex_lock is not.                                         *)

\* Mutant: commands may still be running.
CloseAtOnce ==
  /\ closing = "no"
  /\ mutex = NONE
  /\ mutex' = CLOSER
  /\ closing' = "join"
  /\ UNCHANGED <<redis, waiters, rd, target, clientVars, linkVars, buf>>

Close ==
  /\ closing = "no"
  /\ \A t \in Threads : pc[t] = "idle"
  /\ mutex = NONE
  /\ mutex' = CLOSER
  /\ closing' = "join"
  /\ UNCHANGED <<redis, waiters, rd, target, clientVars, linkVars, buf>>

Cancelled ==
  /\ closing = "join"
  /\ rd = "poll"
  /\ rd' = "exit"
  /\ UNCHANGED <<redis, mutex, waiters, target, clientVars, linkVars, buf, closing>>

Joined ==
  /\ closing = "join"
  /\ rd = "exit"
  /\ mutex' = NONE
  /\ closing' = "done"
  /\ UNCHANGED <<redis, waiters, rd, target, clientVars, linkVars, buf>>

-------------------------------------------------------------------------------
(* The Redis server and the network.                                         *)

Serve ==
  /\ link = "up"
  /\ wire # <<>>
  /\ wire' = Tail(wire)
  /\ inbox' = Append(inbox, Head(wire))
  /\ UNCHANGED <<redis, mutex, waiters, rd, target, clientVars, link, buf, closing>>

ServerCloses ==
  /\ link = "up"
  /\ link' = "eof"
  /\ wire' = <<>>
  /\ UNCHANGED <<redis, mutex, waiters, rd, target, clientVars, inbox, buf, closing>>

ConnectionReset ==
  /\ link # "reset"
  /\ link' = "reset"
  /\ wire' = <<>>
  /\ UNCHANGED <<redis, mutex, waiters, rd, target, clientVars, inbox, buf, closing>>

-------------------------------------------------------------------------------
Command(t) ==
  \/ NoRedis(t)
  \/ AppendFails(t)
  \/ FlushFails(t)
  \/ Send(t)

Reader ==
  \/ PollReturns
  \/ LockForError
  \/ ReadSome
  \/ ReadPart
  \/ BufferReadFails
  \/ Deliver
  \/ DeliverNull
  \/ Signal
  \/ ParseFails
  \/ Unlock
  \/ ReaderExits

Closing == Close \/ Cancelled \/ Joined

Server == Serve \/ ServerCloses \/ ConnectionReset

Next ==
  \/ \E t \in Threads : Command(t) \/ Sleep(t)
  \/ Reader
  \/ Closing
  \/ Server

Spec == Init /\ [][Next]_vars

(* The threads run, the server answers what it was sent, and a reply comes   *)
(* in completely in the end; a mutex is granted to who asks for it for ever. *)
Fairness ==
  /\ \A t \in Threads : WF_vars(Sleep(t))
  /\ WF_vars(Reader)
  /\ SF_vars(ReadSome)
  /\ WF_vars(Cancelled \/ Joined)
  /\ WF_vars(Serve)

FairSpec == Spec /\ Fairness

-------------------------------------------------------------------------------
(***************************************************************************)
(* What the callers of thredis_command rely on.                            *)
(***************************************************************************)

\* A command returns its own reply or NULL, never that of another thread nor
\* that of an earlier command, although nothing in a reply names its command.
ReplyIsOwn ==
  \A t \in Threads : pc[t] = "idle" => got[t] \in {asked[t], NULL}

\* Replies and records stay in step: what the server was sent and has not been
\* delivered is, in order, what the queue waits for.  In particular no reply
\* finds the queue empty, which pop_waiter would not survive.
Outstanding == buf \o inbox \o wire
RepliesMatchWaiters ==
  rd \notin {"drain", "exit"} =>
    LET askers == [i \in DOMAIN Outstanding |-> Outstanding[i][1]] IN
      /\ IsPrefix(askers, waiters)
      /\ link = "up" => askers = waiters

\* The queue holds the records of exactly the threads inside thredis_command,
\* once each, or the one the reader is about to signal: no record outlives its
\* stack frame and no thread sleeps forgotten, least of all when the reader
\* has gone.
SleepersAreQueued ==
  /\ IsInjective(waiters)
  /\ target \notin ToSet(waiters)
  /\ {t \in Threads : pc[t] # "idle"} = ToSet(waiters) \cup ({target} \ {NONE})
  /\ rd = "exit" => waiters = <<>>

\* Every command returns, whatever becomes of the server or the connection.
CommandReturns == \A t \in Threads : pc[t] # "idle" ~> pc[t] = "idle"

\* thredis_close joins the reader while it holds the mutex the reader may be
\* waiting for.  It returns all the same as long as the connection is up, for
\* then nothing wakes the reader any more.
CloseReturns == closing = "join" ~> (closing = "done" \/ link # "up")
===============================================================================
