------------------------------ MODULE ConnLease ------------------------------
(***************************************************************************)
(* What a connection pool promises to the threads of the file system: a    *)
(* database connection is leased to one thread at a time, only a           *)
(* connection that is open and answering is ever leased, and a connection  *)
(* is never closed under the thread that leases it.  How the pool finds a  *)
(* connection, whom it wakes and when it gives one up is left open, and so  *)
(* is what a thread does with the connection when its lease has ended.     *)
(***************************************************************************)
CONSTANTS
  Threads,  \* threads of the FUSE loop
  Conns,    \* connections
  NONE      \* no connection

VARIABLES
  lease,    \* lease[t]: the connection thread t uses, or NONE
  usable    \* the connections that are open and answering

leaseVars == <<lease, usable>>

Init ==
  /\ lease = [t \in Threads |-> NONE]
  /\ usable = {}

Leased == {c \in Conns : \E t \in Threads : lease[t] = c}

Open(c) ==
  /\ c \notin Leased
  /\ usable' = usable \cup {c}
  /\ UNCHANGED lease

Close(c) ==
  /\ c \notin Leased
  /\ usable' = usable \ {c}
  /\ UNCHANGED lease

\* The server goes away while a thread uses the connection.
Lose(c) ==
  /\ c \in Leased
  /\ usable' = usable \ {c}
  /\ UNCHANGED lease

Grant(t, c) ==
  /\ lease[t] = NONE
  /\ c \in usable \ Leased
  /\ lease' = [lease EXCEPT ![t] = c]
  /\ UNCHANGED usable

Return(t) ==
  /\ lease[t] # NONE
  /\ lease' = [lease EXCEPT ![t] = NONE]
  /\ UNCHANGED usable

Next ==
  \/ \E c \in Conns : Open(c) \/ Close(c) \/ Lose(c)
  \/ \E t \in Threads : Return(t) \/ \E c \in Conns : Grant(t, c)

Spec == Init /\ [][Next]_leaseVars
==============================================================================
