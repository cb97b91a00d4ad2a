----------------------------- MODULE XattrsProofs -----------------------------
(***************************************************************************)
(* RowIsAcknowledged and CopyIsTheRow for any number of handlers, values,  *)
(* failures and runs of the ACL daemon.  XInv ties the step of the one     *)
(* setter there may be to its transaction and to the row, and says what    *)
(* Redis may hold meanwhile; while the daemon has yet to delete the hash,  *)
(* that is anything.                                                       *)
(***************************************************************************)
EXTENDS Xattrs, TLAPS

Kind(p) == op[p].kind
CommitAt(w) == IF Kind(w) = "create" THEN 4 ELSE 3
Alone == \A v, w \in Setters : v = w

\* The daemon will delete the hash, or it has at most a copy of v.
Holds(v) == redis \in {Absent, v} \/ (Busy(Daemon) /\ at[Daemon] = 4)

\* A process is in its script, and an idle one at its start.
InScript ==
  /\ \A w \in Workers : op[w] \in Requests \cup {Idle}
  /\ op[Daemon] \in {AclRun, Idle}
  /\ \A p \in Procs : ~Busy(p) => at[p] = 1
  /\ \A w \in Setters : at[w] <= CommitAt(w) + 1
  /\ Busy(Daemon) => at[Daemon] <= 4

\* What a transaction has done at each step.
TxFits ==
  /\ \A w \in Setters : tx[w] # Untouched => at[w] = CommitAt(w) /\ tx[w] = op[w].value
  /\ at[Daemon] \in {1, 4} => tx[Daemon] = Untouched
  /\ tx[Daemon] \in {Untouched, Absent, Inherited}
  /\ at[Daemon] = 3 => tx[Daemon] # Absent
  /\ \A w \in hollow : Kind(w) = "replace" /\ at[w] >= 3 /\ tx[w] = Untouched

\* The row before the COMMIT of the setter and after it.
RowFits ==
  /\ Setters = {} => db \in allowed
  /\ \A w \in Setters :
       /\ at[w] <= CommitAt(w) \/ w \in hollow => db \in allowed
       /\ w \in crossed => Inherited \in allowed
       /\ at[w] = CommitAt(w) /\ tx[w] = Untouched /\ w \notin hollow =>
            \/ db = Inherited /\ w \in crossed
            \/ db = Absent /\ Kind(w) = "remove"
       /\ at[w] > CommitAt(w) /\ w \notin hollow =>
            db = op[w].value \/ (db = Inherited /\ w \in crossed)

\* A getter that nothing has overtaken has read the row.
GettersFit ==
  /\ Setters # {} => Getters \subseteq overtaken
  /\ \A g \in Getters : at[g] = 3 /\ g \notin overtaken => val[g] = db

\* The copy in Redis, unless a named defect has left another.
CopyFits ==
  /\ Setters = {} => Holds(db)
  /\ \A w \in Setters :
       /\ at[w] = 1 \/ at[w] > CommitAt(w) => Holds(db)
       /\ at[w] > 1 /\ at[w] <= CommitAt(w) => Holds(op[w].value)
       /\ at[w] = CommitAt(w) /\ tx[w] = Untouched => Holds(Absent)
       /\ Kind(w) = "create" /\ at[w] = 3 /\ val[w] = Absent /\ db # Absent => Holds(Absent)

XInv ==
  /\ TypeOK
  /\ Alone
  /\ InScript
  /\ TxFits
  /\ RowFits
  /\ GettersFit
  /\ ~stale => CopyFits

-------------------------------------------------------------------------------
(* Requests and scripts.                                                     *)

Setting == {"create", "replace", "remove"}

\* What the records of requests are made of.
LEMMA RequestFacts ==
  /\ \A r \in Requests :
       /\ r.kind \in {"get"} \cup Setting
       /\ r.kind = "get" => r.ample \in BOOLEAN
       /\ r.kind \in Setting => r.value \in Values \cup {Absent}
       /\ r.kind = "remove" => r.value = Absent
       /\ r # Idle /\ r # AclRun
  /\ AclRun # Idle
  /\ AclRun.kind = "acl" /\ AclRun.value = Inherited /\ Idle.kind = "none"
  BY DEF Requests, Setting, Idle, AclRun

\* The position of each step in its script.
StepAt(k, n, s) == n <= Len(Script(k)) /\ Script(k)[n] = s

LEMMA Positions ==
  ASSUME NEW k \in {"get", "create", "replace", "remove", "acl", "none"},
         NEW n \in 1 .. 5
  PROVE  /\ StepAt(k, n, "hget") <=> k = "get" /\ n = 1
         /\ StepAt(k, n, "select") <=> k = "get" /\ n = 2
         /\ StepAt(k, n, "fill") <=> k = "get" /\ n = 3
         /\ StepAt(k, n, "cache") <=> k \in Setting /\ n = 1
         /\ StepAt(k, n, "change") <=> k \in {"replace", "remove"} /\ n = 2
         /\ StepAt(k, n, "lookup") <=> k = "create" /\ n = 2
         /\ StepAt(k, n, "store") <=> k = "create" /\ n = 3
         /\ StepAt(k, n, "commit") <=> \/ k \in {"get", "create"} /\ n = 4
                                       \/ k \in {"replace", "remove", "acl"} /\ n = 3
         /\ StepAt(k, n, "delete") <=> k = "acl" /\ n = 1
         /\ StepAt(k, n, "insert") <=> k = "acl" /\ n = 2
         /\ StepAt(k, n, "del") <=> k = "acl" /\ n = 4
         /\ k \in {"get", "create", "acl"} => Len(Script(k)) = 4
         /\ k \in {"replace", "remove"} => Len(Script(k)) = 3
<1>0. n \in {1, 2, 3, 4, 5}
  OBVIOUS
<1>1. CASE k = "get"
  <2>1. Script(k) = <<"hget", "select", "fill", "commit">>
    BY <1>1 DEF Script, Get
  <2>2. /\ Len(Script(k)) = 4
        /\ Script(k)[1] = "hget"
        /\ Script(k)[2] = "select"
        /\ Script(k)[3] = "fill"
        /\ Script(k)[4] = "commit"
    BY <2>1
  <2> QED BY <1>0, <1>1, <2>2 DEF StepAt, Setting
<1>2. CASE k = "create"
  <2>1. Script(k) = <<"cache", "lookup", "store", "commit">>
    BY <1>2 DEF Script, SetCreate
  <2>2. /\ Len(Script(k)) = 4
        /\ Script(k)[1] = "cache"
        /\ Script(k)[2] = "lookup"
        /\ Script(k)[3] = "store"
        /\ Script(k)[4] = "commit"
    BY <2>1
  <2> QED BY <1>0, <1>2, <2>2 DEF StepAt, Setting
<1>3. CASE k = "replace"
  <2>1. Script(k) = <<"cache", "change", "commit">>
    BY <1>3 DEF Script, SetReplace
  <2>2. /\ Len(Script(k)) = 3
        /\ Script(k)[1] = "cache"
        /\ Script(k)[2] = "change"
        /\ Script(k)[3] = "commit"
    BY <2>1
  <2> QED BY <1>0, <1>3, <2>2 DEF StepAt, Setting
<1>4. CASE k = "remove"
  <2>1. Script(k) = <<"cache", "change", "commit">>
    BY <1>4 DEF Script, Remove
  <2>2. /\ Len(Script(k)) = 3
        /\ Script(k)[1] = "cache"
        /\ Script(k)[2] = "change"
        /\ Script(k)[3] = "commit"
    BY <2>1
  <2> QED BY <1>0, <1>4, <2>2 DEF StepAt, Setting
<1>5. CASE k = "acl"
  <2>1. Script(k) = <<"delete", "insert", "commit", "del">>
    BY <1>5 DEF Script, Acl
  <2>2. /\ Len(Script(k)) = 4
        /\ Script(k)[1] = "delete"
        /\ Script(k)[2] = "insert"
        /\ Script(k)[3] = "commit"
        /\ Script(k)[4] = "del"
    BY <2>1
  <2> QED BY <1>0, <1>5, <2>2 DEF StepAt, Setting
<1>6. CASE k = "none"
  <2>1. Script(k) = <<>>
    BY <1>6 DEF Script
  <2>2. /\ Len(Script(k)) = 0
    BY <2>1
  <2> QED BY <1>0, <1>6, <2>2 DEF StepAt, Setting
<1> QED BY <1>1, <1>2, <1>3, <1>4, <1>5, <1>6

\* Where a process is, from the step that it comes to.
LEMMA Where ==
  ASSUME TypeOK, InScript, NEW p \in Procs
  PROVE  /\ p \in Workers =>
              /\ Kind(p) \in {"get", "none"} \cup Setting
              /\ p \in Getters <=> Kind(p) = "get"
              /\ p \in Setters <=> Kind(p) \in Setting
         /\ p = Daemon => Kind(p) \in {"acl", "none"} /\ p \notin Workers
         /\ Busy(p) <=> Kind(p) # "none"
         /\ Comes(p, "hget") <=> Kind(p) = "get" /\ at[p] = 1
         /\ Comes(p, "select") <=> Kind(p) = "get" /\ at[p] = 2
         /\ Comes(p, "fill") <=> Kind(p) = "get" /\ at[p] = 3
         /\ Comes(p, "cache") <=> Kind(p) \in Setting /\ at[p] = 1
         /\ Comes(p, "change") <=> Kind(p) \in {"replace", "remove"} /\ at[p] = 2
         /\ Comes(p, "lookup") <=> Kind(p) = "create" /\ at[p] = 2
         /\ Comes(p, "store") <=> Kind(p) = "create" /\ at[p] = 3
         /\ Comes(p, "commit") <=> \/ Kind(p) = "get" /\ at[p] = 4
                                   \/ Kind(p) \in Setting /\ at[p] = CommitAt(p)
                                   \/ Kind(p) = "acl" /\ at[p] = 3
         /\ Comes(p, "delete") <=> Kind(p) = "acl" /\ at[p] = 1
         /\ Comes(p, "insert") <=> Kind(p) = "acl" /\ at[p] = 2
         /\ Comes(p, "del") <=> Kind(p) = "acl" /\ at[p] = 4
         /\ Done(p) <=> \/ Kind(p) \in {"get", "acl"} /\ at[p] > 4
                        \/ Kind(p) \in Setting /\ at[p] > CommitAt(p)
         /\ at[p] \in 1 .. 5
<1>1. at[p] \in 1 .. 5
  BY DEF TypeOK
<1>2. /\ p \in Workers => op[p] \in Requests \cup {Idle}
      /\ p = Daemon => op[p] \in {AclRun, Idle} /\ p \notin Workers
      /\ p \in Workers \/ p = Daemon
  BY XattrsAssumption DEF InScript, Procs
<1>3. /\ Kind(p) \in {"get", "create", "replace", "remove", "acl", "none"}
      /\ p \in Workers => Kind(p) \in {"get", "none"} \cup Setting
      /\ p = Daemon => Kind(p) \in {"acl", "none"} /\ p \notin Workers
      /\ Busy(p) <=> Kind(p) # "none"
  BY <1>2, RequestFacts DEF Kind, Setting, Busy
<1>4. /\ p \in Workers => (p \in Getters <=> Kind(p) = "get")
      /\ p \in Workers => (p \in Setters <=> Kind(p) \in Setting)
  BY <1>3 DEF Getters, Setters, Kind, Setting
<1>5. ASSUME NEW s
      PROVE  Comes(p, s) <=> StepAt(Kind(p), at[p], s)
  BY DEF Comes, Kind, StepAt
<1>6. Done(p) <=> Busy(p) /\ at[p] > Len(Script(Kind(p)))
  BY DEF Done, Kind
<1>7. Kind(p) = "none" \/ Kind(p) = "get" \/ Kind(p) = "acl"
        \/ Kind(p) = "create" \/ Kind(p) = "replace" \/ Kind(p) = "remove"
  BY <1>3 DEF Setting
<1>8. Done(p) <=> \/ Kind(p) \in {"get", "acl"} /\ at[p] > 4
                  \/ Kind(p) \in Setting /\ at[p] > CommitAt(p)
  <2>1. /\ Kind(p) \in {"get", "create", "acl"} => Len(Script(Kind(p))) = 4
        /\ Kind(p) \in {"replace", "remove"} => Len(Script(Kind(p))) = 3
    BY <1>1, <1>3, Positions
  <2> QED BY <1>1, <1>3, <1>6, <1>7, <2>1 DEF CommitAt, Setting
<1>9. /\ Comes(p, "hget") <=> Kind(p) = "get" /\ at[p] = 1
      /\ Comes(p, "select") <=> Kind(p) = "get" /\ at[p] = 2
      /\ Comes(p, "fill") <=> Kind(p) = "get" /\ at[p] = 3
      /\ Comes(p, "cache") <=> Kind(p) \in Setting /\ at[p] = 1
  BY <1>1, <1>3, <1>5, Positions
<1>10. /\ Comes(p, "change") <=> Kind(p) \in {"replace", "remove"} /\ at[p] = 2
       /\ Comes(p, "lookup") <=> Kind(p) = "create" /\ at[p] = 2
       /\ Comes(p, "store") <=> Kind(p) = "create" /\ at[p] = 3
  BY <1>1, <1>3, <1>5, Positions
<1>11. /\ Comes(p, "delete") <=> Kind(p) = "acl" /\ at[p] = 1
       /\ Comes(p, "insert") <=> Kind(p) = "acl" /\ at[p] = 2
       /\ Comes(p, "del") <=> Kind(p) = "acl" /\ at[p] = 4
  BY <1>1, <1>3, <1>5, Positions
<1>12. Comes(p, "commit") <=> \/ Kind(p) \in {"get", "create"} /\ at[p] = 4
                              \/ Kind(p) \in {"replace", "remove", "acl"} /\ at[p] = 3
  BY <1>1, <1>3, <1>5, Positions
<1>13. Comes(p, "commit") <=> \/ Kind(p) = "get" /\ at[p] = 4
                              \/ Kind(p) \in Setting /\ at[p] = CommitAt(p)
                              \/ Kind(p) = "acl" /\ at[p] = 3
  BY <1>1, <1>12, <1>7 DEF CommitAt, Setting
<1> QED BY <1>1, <1>3, <1>4, <1>8, <1>9, <1>10, <1>11, <1>13
-------------------------------------------------------------------------------
(* The handlers keep the invariant.                                          *)

\* What the handlers that change the attribute, and those that do not, are.
LEMMA Roles ==
  ASSUME TypeOK, InScript
  PROVE  /\ \A v \in Setters :
              /\ v \in Workers /\ v \in Procs /\ v # Daemon /\ v \notin Getters
              /\ Kind(v) \in Setting
              /\ op[v].value \in Values \cup {Absent}
              /\ Kind(v) = "remove" => op[v].value = Absent
              /\ at[v] \in 1 .. 5 /\ Busy(v)
              /\ CommitAt(v) = IF Kind(v) = "create" THEN 4 ELSE 3
         /\ \A g \in Getters :
              /\ g \in Workers /\ g \in Procs /\ g # Daemon
              /\ Kind(g) = "get"
              /\ op[g].ample \in BOOLEAN
              /\ at[g] \in 1 .. 5 /\ Busy(g)
         /\ Daemon \in Procs
<1>1. \A v \in Workers : v \in Procs /\ v # Daemon /\ op[v] \in Requests \cup {Idle}
  BY XattrsAssumption DEF Procs, InScript
<1>2. \A v \in Procs : at[v] \in 1 .. 5
  BY DEF TypeOK
<1>3. \A v \in Setters : v \in Workers /\ op[v] # Idle /\ Busy(v) /\ Kind(v) # "get" /\ v \notin Getters
  BY DEF Setters, Getters, Busy, Kind
<1>4. \A g \in Getters : g \in Workers /\ op[g] # Idle /\ Busy(g) /\ Kind(g) = "get"
  BY DEF Getters, Busy, Kind
<1> QED BY <1>1, <1>2, <1>3, <1>4, RequestFacts DEF Setting, Kind, CommitAt, Procs

\* As long as no request begins or ends, everybody keeps his role.
LEMMA SameRoles ==
  ASSUME op' = op
  PROVE  /\ Setters' = Setters /\ Getters' = Getters
         /\ \A p \in Procs : Kind(p)' = Kind(p) /\ Busy(p)' = Busy(p) /\ CommitAt(p)' = CommitAt(p)
  BY DEF Setters, Getters, Kind, Busy, CommitAt

LEMMA HitKeeps ==
  ASSUME XInv, NEW w \in Workers, Hit(w)
  PROVE  XInv'
<1>1. w \in Getters /\ at[w] = 1 /\ w \in Procs /\ w # Daemon /\ at[w] \in 1 .. 5 /\ Busy(w)
  BY Where, XattrsAssumption DEF XInv, Hit, Procs
<1>2. op' = op
  BY DEF Hit
<1>3. TypeOK'
  BY <1>1, <1>2, Roles, SameRoles DEF XInv, TypeOK, Hit, Advance, ghostVars
<1>4. Alone' /\ InScript'
  BY <1>1, <1>2, Roles, SameRoles DEF XInv, TypeOK, Alone, InScript, Hit, Advance
<1>5. TxFits'
  BY <1>1, <1>2, Roles, SameRoles DEF XInv, TypeOK, TxFits, Hit, Advance, ghostVars
<1>6. RowFits'
  BY <1>1, <1>2, Roles, SameRoles DEF XInv, TypeOK, TxFits, RowFits, Hit, Advance, ghostVars
<1>7. GettersFit'
  BY <1>1, <1>2, Roles, SameRoles DEF XInv, TypeOK, GettersFit, Hit, Advance, ghostVars
<1>8. ~stale' => CopyFits'
  BY <1>1, <1>2, Roles, SameRoles DEF XInv, TypeOK, TxFits, GettersFit, CopyFits, Holds, Hit, Advance, ghostVars
<1> QED BY <1>3, <1>4, <1>5, <1>6, <1>7, <1>8 DEF XInv

LEMMA MissKeeps ==
  ASSUME XInv, NEW w \in Workers, Miss(w)
  PROVE  XInv'
<1>1. w \in Getters /\ at[w] = 1 /\ w \in Procs /\ w # Daemon /\ at[w] \in 1 .. 5 /\ Busy(w)
  BY Where, XattrsAssumption DEF XInv, Miss, Procs
<1>2. op' = op
  BY DEF Miss
<1>3. TypeOK'
  BY <1>1, <1>2, Roles, SameRoles DEF XInv, TypeOK, Miss, Advance, ghostVars
<1>4. Alone' /\ InScript'
  BY <1>1, <1>2, Roles, SameRoles DEF XInv, TypeOK, Alone, InScript, Miss, Advance
<1>5. TxFits'
  BY <1>1, <1>2, Roles, SameRoles DEF XInv, TypeOK, TxFits, Miss, Advance, ghostVars
<1>6. RowFits'
  BY <1>1, <1>2, Roles, SameRoles DEF XInv, TypeOK, TxFits, RowFits, Miss, Advance, ghostVars
<1>7. GettersFit'
  BY <1>1, <1>2, Roles, SameRoles DEF XInv, TypeOK, GettersFit, Miss, Advance, ghostVars
<1>8. ~stale' => CopyFits'
  BY <1>1, <1>2, Roles, SameRoles DEF XInv, TypeOK, TxFits, GettersFit, CopyFits, Holds, Miss, Advance, ghostVars
<1> QED BY <1>3, <1>4, <1>5, <1>6, <1>7, <1>8 DEF XInv

LEMMA SelectKeeps ==
  ASSUME XInv, NEW w \in Workers, Select(w)
  PROVE  XInv'
<1>1. w \in Getters /\ at[w] = 2 /\ w \in Procs /\ w # Daemon /\ at[w] \in 1 .. 5 /\ Busy(w)
  BY Where, XattrsAssumption DEF XInv, Select, Procs
<1>2. op' = op
  BY DEF Select
<1>3. TypeOK'
  BY <1>1, <1>2, Roles, SameRoles DEF XInv, TypeOK, Select, Advance, ghostVars
<1>4. Alone' /\ InScript'
  BY <1>1, <1>2, Roles, SameRoles DEF XInv, TypeOK, Alone, InScript, Select, Advance
<1>5. TxFits'
  BY <1>1, <1>2, Roles, SameRoles DEF XInv, TypeOK, TxFits, Select, Advance, ghostVars
<1>6. RowFits'
  BY <1>1, <1>2, Roles, SameRoles DEF XInv, TypeOK, TxFits, RowFits, Select, Advance, ghostVars
<1>7. GettersFit'
  BY <1>1, <1>2, Roles, SameRoles DEF XInv, TypeOK, GettersFit, Select, Advance, ghostVars
<1>8. ~stale' => CopyFits'
  BY <1>1, <1>2, Roles, SameRoles DEF XInv, TypeOK, TxFits, GettersFit, CopyFits, Holds, Select, Advance, ghostVars
<1> QED BY <1>3, <1>4, <1>5, <1>6, <1>7, <1>8 DEF XInv

LEMMA FillKeeps ==
  ASSUME XInv, NEW w \in Workers, Fill(w)
  PROVE  XInv'
<1>1. w \in Getters /\ at[w] = 3 /\ w \in Procs /\ w # Daemon /\ at[w] \in 1 .. 5 /\ Busy(w)
  BY Where, XattrsAssumption DEF XInv, Fill, Procs
<1>2. op' = op
  BY DEF Fill
<1>3. TypeOK'
  BY <1>1, <1>2, Roles, SameRoles DEF XInv, TypeOK, Fill, Advance, ghostVars
<1>4. Alone' /\ InScript'
  BY <1>1, <1>2, Roles, SameRoles DEF XInv, TypeOK, Alone, InScript, Fill, Advance
<1>5. TxFits'
  BY <1>1, <1>2, Roles, SameRoles DEF XInv, TypeOK, TxFits, Fill, Advance, ghostVars
<1>6. RowFits'
  BY <1>1, <1>2, Roles, SameRoles DEF XInv, TypeOK, TxFits, RowFits, Fill, Advance, ghostVars
<1>7. GettersFit'
  BY <1>1, <1>2, Roles, SameRoles DEF XInv, TypeOK, GettersFit, Fill, Advance, ghostVars
<1>8. ~stale' => CopyFits'
  BY <1>1, <1>2, Roles, SameRoles DEF XInv, TypeOK, TxFits, GettersFit, CopyFits, Holds, Fill, Advance, ghostVars
<1> QED BY <1>3, <1>4, <1>5, <1>6, <1>7, <1>8 DEF XInv

LEMMA CacheKeeps ==
  ASSUME XInv, NEW w \in Workers, Cache(w)
  PROVE  XInv'
<1>1. at[w] = 1 /\ Kind(w) \in Setting /\ w \in Procs /\ w # Daemon
  BY Where, XattrsAssumption DEF XInv, Cache, Procs, Setting
<1>2. op' = op
  BY DEF Cache
<1>3. /\ \A v \in Setters : v = w
      /\ w \in Setters /\ Busy(w) /\ at[w] \in 1 .. 5
      /\ CommitAt(w) = IF Kind(w) = "create" THEN 4 ELSE 3
      /\ op[w].value \in Values \cup {Absent}
      /\ Kind(w) = "remove" => op[w].value = Absent
  BY <1>1, Where, Roles DEF XInv, Alone, Setting
<1>4. /\ Setters' = Setters /\ Getters' = Getters
      /\ Kind(w)' = Kind(w) /\ Busy(w)' = Busy(w) /\ CommitAt(w)' = CommitAt(w)
      /\ \A p \in Procs : Busy(p)' = Busy(p)
      /\ \A p \in hollow : Kind(p)' = Kind(p)
      /\ Daemon \in Procs
  BY <1>1, <1>2, SameRoles, <1>3 DEF Procs, XInv, TypeOK
<1>5. TypeOK'
  <2>1. tx' \in [Procs -> Rows \cup {Untouched}] /\ redis' \in Rows /\ at' \in [Procs -> 1 .. 5]
    BY <1>1, <1>3 DEF XInv, TypeOK, Cache, Advance, Rows
  <2>2. /\ \A p \in Procs : tx'[p] # Untouched => p \in Setters \cup {Daemon} /\ Busy(p)
        /\ \A p, q \in Procs : tx'[p] # Untouched /\ tx'[q] # Untouched => p = q
    BY <1>1, <1>3 DEF XInv, TypeOK, Cache, Locked
  <2> QED BY <1>1, <1>2, <1>3, <1>4, <2>1, <2>2 DEF XInv, TypeOK, Cache, ghostVars
<1>6. Alone' /\ InScript'
  BY <1>1, <1>2, <1>3, <1>4 DEF XInv, TypeOK, Alone, InScript, Cache, Advance
<1>7. TxFits'
  BY <1>1, <1>2, <1>3, <1>4, XattrsAssumption DEF XInv, TypeOK, TxFits, Cache, Advance, ghostVars
<1>8. RowFits'
  BY <1>1, <1>2, <1>3, <1>4, XattrsAssumption DEF XInv, TypeOK, TxFits, RowFits, Cache, Advance, ghostVars
<1>9. GettersFit'
  BY <1>1, <1>2, <1>3, <1>4, Roles DEF XInv, TypeOK, GettersFit, Cache, Advance, ghostVars
<1>10. ~stale' => CopyFits'
  BY <1>1, <1>2, <1>3, <1>4, XattrsAssumption DEF XInv, TypeOK, TxFits, CopyFits, Holds, Cache, Advance, ghostVars
<1> QED BY <1>5, <1>6, <1>7, <1>8, <1>9, <1>10 DEF XInv

LEMMA ChangeKeeps ==
  ASSUME XInv, NEW w \in Workers, Change(w)
  PROVE  XInv'
<1>1. at[w] = 2 /\ Kind(w) \in {"replace", "remove"} /\ w \in Procs /\ w # Daemon
  BY Where, XattrsAssumption DEF XInv, Change, Procs, Setting
<1>2. op' = op
  BY DEF Change
<1>3. /\ \A v \in Setters : v = w
      /\ w \in Setters /\ Busy(w) /\ at[w] \in 1 .. 5
      /\ CommitAt(w) = IF Kind(w) = "create" THEN 4 ELSE 3
      /\ op[w].value \in Values \cup {Absent}
      /\ Kind(w) = "remove" => op[w].value = Absent
  BY <1>1, Where, Roles DEF XInv, Alone, Setting
<1>4. /\ Setters' = Setters /\ Getters' = Getters
      /\ Kind(w)' = Kind(w) /\ Busy(w)' = Busy(w) /\ CommitAt(w)' = CommitAt(w)
      /\ \A p \in Procs : Busy(p)' = Busy(p)
      /\ \A p \in hollow : Kind(p)' = Kind(p)
      /\ Daemon \in Procs
  BY <1>1, <1>2, SameRoles, <1>3 DEF Procs, XInv, TypeOK
<1>11. /\ hollow = {} /\ tx[w] = Untouched /\ CommitAt(w) = 3 /\ at'[w] = 3
       /\ tx' = [tx EXCEPT ![w] = IF db = Absent THEN Untouched ELSE op[w].value]
       /\ op[w].value # Untouched
       /\ db = Absent /\ Kind(w) = "replace" => hollow' = {w} /\ stale'
       /\ db # Absent \/ Kind(w) = "remove" => hollow' = {} /\ stale' = stale
       /\ hollow' \subseteq {w} /\ tx' \in [Procs -> Rows \cup {Untouched}]
  <2>1. hollow = {}
    BY <1>1, <1>3 DEF XInv, TypeOK, TxFits
  <2>2. tx[w] = Untouched /\ CommitAt(w) = 3 /\ at'[w] = 3
    BY <1>1, <1>3 DEF XInv, TypeOK, TxFits, Change, Advance
  <2>3. op[w].value # Untouched
    BY <1>3, XattrsAssumption
  <2> QED BY <1>1, <1>3, <2>1, <2>2, <2>3 DEF Change, Kind, XInv, TypeOK, Rows
<1>5. TypeOK'
  <2>1. tx' \in [Procs -> Rows \cup {Untouched}] /\ redis' \in Rows /\ at' \in [Procs -> 1 .. 5]
    BY <1>1, <1>3 DEF XInv, TypeOK, Change, Advance, Rows
  <2>2. /\ \A p \in Procs : tx'[p] # Untouched => p \in Setters \cup {Daemon} /\ Busy(p)
        /\ \A p, q \in Procs : tx'[p] # Untouched /\ tx'[q] # Untouched => p = q
    BY <1>1, <1>3 DEF XInv, TypeOK, Change, Locked
  <2> QED BY <1>1, <1>2, <1>3, <1>4, <2>1, <2>2 DEF XInv, TypeOK, Change, ghostVars
<1>6. Alone' /\ InScript'
  BY <1>1, <1>2, <1>3, <1>4 DEF XInv, TypeOK, Alone, InScript, Change, Advance
<1>7. TxFits'
  BY <1>1, <1>2, <1>3, <1>4, <1>11, XattrsAssumption DEF XInv, TypeOK, TxFits, Change, Advance, ghostVars
<1>8. RowFits'
  BY <1>1, <1>2, <1>3, <1>4, <1>11, XattrsAssumption DEF XInv, TypeOK, TxFits, RowFits, Change, Advance, ghostVars
<1>9. GettersFit'
  BY <1>1, <1>2, <1>3, <1>4, Roles DEF XInv, TypeOK, GettersFit, Change, Advance, ghostVars
<1>10. ~stale' => CopyFits'
  BY <1>1, <1>2, <1>3, <1>4, <1>11, XattrsAssumption DEF XInv, TypeOK, TxFits, CopyFits, Holds, Change, Advance, ghostVars
<1> QED BY <1>5, <1>6, <1>7, <1>8, <1>9, <1>10 DEF XInv

LEMMA LookupKeeps ==
  ASSUME XInv, NEW w \in Workers, Lookup(w)
  PROVE  XInv'
<1>1. at[w] = 2 /\ Kind(w) = "create" /\ w \in Procs /\ w # Daemon
  BY Where, XattrsAssumption DEF XInv, Lookup, Procs, Setting
<1>2. op' = op
  BY DEF Lookup
<1>3. /\ \A v \in Setters : v = w
      /\ w \in Setters /\ Busy(w) /\ at[w] \in 1 .. 5
      /\ CommitAt(w) = IF Kind(w) = "create" THEN 4 ELSE 3
      /\ op[w].value \in Values \cup {Absent}
      /\ Kind(w) = "remove" => op[w].value = Absent
  BY <1>1, Where, Roles DEF XInv, Alone, Setting
<1>4. /\ Setters' = Setters /\ Getters' = Getters
      /\ Kind(w)' = Kind(w) /\ Busy(w)' = Busy(w) /\ CommitAt(w)' = CommitAt(w)
      /\ \A p \in Procs : Busy(p)' = Busy(p)
      /\ \A p \in hollow : Kind(p)' = Kind(p)
      /\ Daemon \in Procs
  BY <1>1, <1>2, SameRoles, <1>3 DEF Procs, XInv, TypeOK
<1>5. TypeOK'
  <2>1. tx' \in [Procs -> Rows \cup {Untouched}] /\ redis' \in Rows /\ at' \in [Procs -> 1 .. 5]
    BY <1>1, <1>3 DEF XInv, TypeOK, Lookup, Advance, Rows
  <2>2. /\ \A p \in Procs : tx'[p] # Untouched => p \in Setters \cup {Daemon} /\ Busy(p)
        /\ \A p, q \in Procs : tx'[p] # Untouched /\ tx'[q] # Untouched => p = q
    BY <1>1, <1>3 DEF XInv, TypeOK, Lookup, Locked
  <2> QED BY <1>1, <1>2, <1>3, <1>4, <2>1, <2>2 DEF XInv, TypeOK, Lookup, ghostVars
<1>6. Alone' /\ InScript'
  BY <1>1, <1>2, <1>3, <1>4 DEF XInv, TypeOK, Alone, InScript, Lookup, Advance
<1>7. TxFits'
  BY <1>1, <1>2, <1>3, <1>4, XattrsAssumption DEF XInv, TypeOK, TxFits, Lookup, Advance, ghostVars
<1>8. RowFits'
  BY <1>1, <1>2, <1>3, <1>4, XattrsAssumption DEF XInv, TypeOK, TxFits, RowFits, Lookup, Advance, ghostVars
<1>9. GettersFit'
  BY <1>1, <1>2, <1>3, <1>4, Roles DEF XInv, TypeOK, GettersFit, Lookup, Advance, ghostVars
<1>10. ~stale' => CopyFits'
  BY <1>1, <1>2, <1>3, <1>4, XattrsAssumption DEF XInv, TypeOK, TxFits, CopyFits, Holds, Lookup, Advance, ghostVars
<1> QED BY <1>5, <1>6, <1>7, <1>8, <1>9, <1>10 DEF XInv

LEMMA StoreKeeps ==
  ASSUME XInv, NEW w \in Workers, Store(w)
  PROVE  XInv'
<1>1. at[w] = 3 /\ Kind(w) = "create" /\ w \in Procs /\ w # Daemon
  BY Where, XattrsAssumption DEF XInv, Store, Procs, Setting
<1>2. op' = op
  BY DEF Store
<1>3. /\ \A v \in Setters : v = w
      /\ w \in Setters /\ Busy(w) /\ at[w] \in 1 .. 5
      /\ CommitAt(w) = IF Kind(w) = "create" THEN 4 ELSE 3
      /\ op[w].value \in Values \cup {Absent}
      /\ Kind(w) = "remove" => op[w].value = Absent
  BY <1>1, Where, Roles DEF XInv, Alone, Setting
<1>4. /\ Setters' = Setters /\ Getters' = Getters
      /\ Kind(w)' = Kind(w) /\ Busy(w)' = Busy(w) /\ CommitAt(w)' = CommitAt(w)
      /\ \A p \in Procs : Busy(p)' = Busy(p)
      /\ \A p \in hollow : Kind(p)' = Kind(p)
      /\ Daemon \in Procs
  BY <1>1, <1>2, SameRoles, <1>3 DEF Procs, XInv, TypeOK
<1>5. TypeOK'
  <2>1. tx' \in [Procs -> Rows \cup {Untouched}] /\ redis' \in Rows /\ at' \in [Procs -> 1 .. 5]
    BY <1>1, <1>3 DEF XInv, TypeOK, Store, Advance, Rows
  <2>2. /\ \A p \in Procs : tx'[p] # Untouched => p \in Setters \cup {Daemon} /\ Busy(p)
        /\ \A p, q \in Procs : tx'[p] # Untouched /\ tx'[q] # Untouched => p = q
    BY <1>1, <1>3 DEF XInv, TypeOK, Store, Locked
  <2> QED BY <1>1, <1>2, <1>3, <1>4, <2>1, <2>2 DEF XInv, TypeOK, Store, ghostVars
<1>6. Alone' /\ InScript'
  BY <1>1, <1>2, <1>3, <1>4 DEF XInv, TypeOK, Alone, InScript, Store, Advance
<1>7. TxFits'
  BY <1>1, <1>2, <1>3, <1>4, XattrsAssumption DEF XInv, TypeOK, TxFits, Store, Advance, ghostVars
<1>8. RowFits'
  BY <1>1, <1>2, <1>3, <1>4, XattrsAssumption DEF XInv, TypeOK, TxFits, RowFits, Store, Advance, ghostVars
<1>9. GettersFit'
  BY <1>1, <1>2, <1>3, <1>4, Roles DEF XInv, TypeOK, GettersFit, Store, Advance, ghostVars
<1>10. ~stale' => CopyFits'
  BY <1>1, <1>2, <1>3, <1>4, XattrsAssumption DEF XInv, TypeOK, TxFits, CopyFits, Holds, Store, Advance, ghostVars
<1> QED BY <1>5, <1>6, <1>7, <1>8, <1>9, <1>10 DEF XInv

LEMMA CommitKeeps ==
  ASSUME XInv, NEW w \in Workers, Commit(w)
  PROVE  XInv'
<1>1. /\ w \in Procs /\ w # Daemon /\ at[w] \in 1 .. 5
      /\ \/ w \in Getters /\ at[w] = 4
         \/ w \in Setters /\ at[w] = CommitAt(w)
  <2>1. w \in Procs /\ w # Daemon
    BY XattrsAssumption DEF Procs
  <2>2. Comes(w, "commit") /\ TypeOK /\ InScript
    BY DEF Commit, XInv
  <2>3. /\ at[w] \in 1 .. 5
        /\ Kind(w) \in {"get", "none"} \cup Setting
        /\ w \in Getters <=> Kind(w) = "get"
        /\ w \in Setters <=> Kind(w) \in Setting
    BY <2>1, <2>2, Where
  <2>4. \/ Kind(w) = "get" /\ at[w] = 4
        \/ Kind(w) \in Setting /\ at[w] = CommitAt(w)
        \/ Kind(w) = "acl" /\ at[w] = 3
    BY <2>1, <2>2, Where
  <2>5. Kind(w) # "acl"
    BY <2>3 DEF Setting
  <2> QED BY <2>1, <2>3, <2>4, <2>5
<1>2. op' = op
  BY DEF Commit
<1>3. /\ Setters' = Setters /\ Getters' = Getters /\ Daemon \in Procs
      /\ \A p \in Procs : Kind(p)' = Kind(p) /\ Busy(p)' = Busy(p) /\ CommitAt(p)' = CommitAt(p)
  BY <1>2, SameRoles DEF Procs
<1>4. CASE w \in Getters
  <2>1. tx[w] = Untouched /\ w \notin Setters /\ Busy(w)
    BY <1>1, <1>4, Roles DEF XInv, TypeOK
  <2>2. db' = db /\ tx' = tx
    BY <1>1, <2>1 DEF XInv, TypeOK, Commit
  <2>3. TypeOK'
    BY <1>1, <1>2, <1>3, <1>4, <2>1, <2>2 DEF XInv, TypeOK, Commit, Advance, ghostVars
  <2>4. Alone' /\ InScript'
    BY <1>1, <1>2, <1>3, <1>4, <2>1, Roles DEF XInv, TypeOK, Alone, InScript, Commit, Advance
  <2>5. TxFits' /\ RowFits'
    BY <1>1, <1>2, <1>3, <1>4, <2>1, <2>2, Roles DEF XInv, TypeOK, TxFits, RowFits, Commit, Advance, ghostVars
  <2>6. GettersFit'
    BY <1>1, <1>2, <1>3, <1>4, <2>1, <2>2, Roles DEF XInv, TypeOK, GettersFit, Commit, Advance, ghostVars
  <2>7. ~stale' => CopyFits'
    BY <1>1, <1>2, <1>3, <1>4, <2>1, <2>2, Roles DEF XInv, TypeOK, CopyFits, Holds, Commit, Advance, ghostVars
  <2> QED BY <2>3, <2>4, <2>5, <2>6, <2>7 DEF XInv
<1>5. CASE w \in Setters
  <2>1. /\ \A v \in Setters : v = w
        /\ Busy(w) /\ w \notin Getters
        /\ CommitAt(w) = IF Kind(w) = "create" THEN 4 ELSE 3
        /\ op[w].value \in Values \cup {Absent}
        /\ op[w].value # Untouched
        /\ Kind(w) = "remove" => op[w].value = Absent
        /\ at'[w] = CommitAt(w) + 1
        /\ at[w] = CommitAt(w)
        /\ \A p \in Procs : p # w => at'[p] = at[p] /\ tx'[p] = tx[p]
        /\ tx'[w] = Untouched
        /\ hollow \subseteq {w}
        /\ op[w]' = op[w]
    BY <1>1, <1>2, <1>5, Roles, XattrsAssumption DEF XInv, Alone, Setting, TypeOK, Commit, Advance
  <2>2. \/ tx[w] = Untouched /\ db' = db
        \/ tx[w] = op[w].value /\ db' = op[w].value /\ w \notin hollow
    BY <2>1, <1>5 DEF XInv, TxFits, Commit
  <2>3. TypeOK'
    <3>1. tx' \in [Procs -> Rows \cup {Untouched}] /\ db' \in Rows /\ at' \in [Procs -> 1 .. 5]
      BY <1>1, <2>1, <2>2 DEF XInv, TypeOK, Commit, Advance, Rows
    <3> QED BY <1>1, <1>2, <1>3, <2>1, <3>1 DEF XInv, TypeOK, Commit, ghostVars
  <2>4. Alone' /\ InScript'
    BY <1>1, <1>2, <1>3, <1>5, <2>1 DEF XInv, TypeOK, Alone, InScript, Commit, Advance
  <2>5. TxFits'
    BY <1>1, <1>2, <1>3, <1>5, <2>1 DEF XInv, TypeOK, TxFits, Commit, ghostVars
  <2>6. RowFits'
    BY <1>1, <1>2, <1>3, <1>5, <2>1, <2>2 DEF XInv, TypeOK, RowFits, Commit, ghostVars
  <2>7. GettersFit'
    BY <1>1, <1>2, <1>3, <1>5, <2>1, Roles DEF XInv, GettersFit, Commit, ghostVars
  <2>8. ~stale' => CopyFits'
    BY <1>1, <1>2, <1>3, <1>5, <2>1, <2>2 DEF XInv, TypeOK, CopyFits, Holds, Commit, ghostVars
  <2> QED BY <2>3, <2>4, <2>5, <2>6, <2>7, <2>8 DEF XInv
<1> QED BY <1>1, <1>4, <1>5

LEMMA DropHashKeeps ==
  ASSUME XInv, DropHash
  PROVE  XInv'
<1>1. /\ Setters' = Setters /\ Getters' = Getters /\ Daemon \in Procs
      /\ \A p \in Procs : Kind(p)' = Kind(p) /\ Busy(p)' = Busy(p) /\ CommitAt(p)' = CommitAt(p)
  BY SameRoles DEF Procs, DropHash
<1>2. \A v \in Setters : v \in Procs
  BY Roles DEF XInv
<1>3. TypeOK'
  BY <1>1 DEF XInv, TypeOK, DropHash, Rows
<1>4. Alone' /\ InScript' /\ TxFits' /\ RowFits' /\ GettersFit'
  BY <1>1, <1>2 DEF XInv, TypeOK, Alone, InScript, TxFits, RowFits, GettersFit, DropHash
<1>5. CopyFits'
  BY <1>1, <1>2 DEF XInv, CopyFits, Holds, DropHash
<1> QED BY <1>3, <1>4, <1>5 DEF XInv

-------------------------------------------------------------------------------
(* So does the daemon.                                                       *)

LEMMA AclDeleteKeeps ==
  ASSUME XInv, AclDelete
  PROVE  XInv'
<1>1. /\ Setters' = Setters /\ Getters' = Getters /\ Daemon \in Procs /\ Daemon \notin Workers
      /\ \A p \in Procs : Kind(p)' = Kind(p) /\ Busy(p)' = Busy(p) /\ CommitAt(p)' = CommitAt(p)
      /\ Kind(Daemon) = "acl" /\ Busy(Daemon) /\ at[Daemon] = 1 /\ tx[Daemon] = Untouched
      /\ \A v \in Setters : v \in Procs /\ v # Daemon
      /\ \A g \in Getters : g \in Procs /\ g # Daemon
  BY SameRoles, Where, Roles, XattrsAssumption DEF Procs, AclDelete, XInv, TxFits
<1>2. /\ at' = [at EXCEPT ![Daemon] = 2]
      /\ tx' = [tx EXCEPT ![Daemon] = IF db = Absent THEN Untouched ELSE Absent]
      /\ Absent # Untouched
  BY <1>1, XattrsAssumption DEF AclDelete, Advance, XInv, TypeOK
<1>3. TypeOK'
  BY <1>1, <1>2 DEF XInv, TypeOK, AclDelete, ghostVars, Rows, Locked
<1>4. Alone' /\ InScript'
  BY <1>1, <1>2 DEF XInv, TypeOK, Alone, InScript, AclDelete
<1>5. TxFits' /\ RowFits'
  BY <1>1, <1>2 DEF XInv, TypeOK, TxFits, RowFits, AclDelete, ghostVars
<1>6. GettersFit'
  BY <1>1, <1>2 DEF XInv, TypeOK, GettersFit, AclDelete, ghostVars
<1>7. ~stale' => CopyFits'
  BY <1>1, <1>2 DEF XInv, TypeOK, CopyFits, Holds, AclDelete, ghostVars
<1> QED BY <1>3, <1>4, <1>5, <1>6, <1>7 DEF XInv

LEMMA AclInsertKeeps ==
  ASSUME XInv, AclInsert
  PROVE  XInv'
<1>1. /\ Setters' = Setters /\ Getters' = Getters /\ Daemon \in Procs /\ Daemon \notin Workers
      /\ \A p \in Procs : Kind(p)' = Kind(p) /\ Busy(p)' = Busy(p) /\ CommitAt(p)' = CommitAt(p)
      /\ Kind(Daemon) = "acl" /\ Busy(Daemon) /\ at[Daemon] = 2
      /\ \A v \in Setters : v \in Procs /\ v # Daemon
      /\ \A g \in Getters : g \in Procs /\ g # Daemon
  BY SameRoles, Where, Roles, XattrsAssumption DEF Procs, AclInsert, XInv, TxFits
<1>2. /\ at' = [at EXCEPT ![Daemon] = 3]
      /\ \A p \in Procs : p # Daemon => tx'[p] = tx[p]
      /\ tx'[Daemon] \in {Inherited, Untouched}
      /\ tx' \in [Procs -> Rows \cup {Untouched}]
      /\ Absent # Untouched /\ Absent # Inherited
  BY <1>1, XattrsAssumption DEF AclInsert, Advance, XInv, TypeOK, Rows
<1>3. TypeOK'
  BY <1>1, <1>2 DEF XInv, TypeOK, AclInsert, ghostVars, Rows, Locked
<1>4. Alone' /\ InScript'
  BY <1>1, <1>2 DEF XInv, TypeOK, Alone, InScript, AclInsert
<1>5. TxFits' /\ RowFits'
  BY <1>1, <1>2 DEF XInv, TypeOK, TxFits, RowFits, AclInsert, ghostVars
<1>6. GettersFit'
  BY <1>1, <1>2 DEF XInv, TypeOK, GettersFit, AclInsert, ghostVars
<1>7. ~stale' => CopyFits'
  BY <1>1, <1>2 DEF XInv, TypeOK, CopyFits, Holds, AclInsert, ghostVars
<1> QED BY <1>3, <1>4, <1>5, <1>6, <1>7 DEF XInv

LEMMA AclCommitKeeps ==
  ASSUME XInv, AclCommit
  PROVE  XInv'
<1>1. /\ Setters' = Setters /\ Getters' = Getters /\ Daemon \in Procs /\ Daemon \notin Workers
      /\ \A p \in Procs : Kind(p)' = Kind(p) /\ Busy(p)' = Busy(p) /\ CommitAt(p)' = CommitAt(p)
      /\ Kind(Daemon) = "acl" /\ Busy(Daemon) /\ at[Daemon] = 3
      /\ tx[Daemon] \in {Untouched, Inherited}
      /\ \A v \in Setters : v \in Procs /\ v # Daemon
      /\ \A g \in Getters : g \in Procs /\ g # Daemon /\ g \notin Setters
  <2>1. TypeOK /\ InScript /\ Comes(Daemon, "commit") /\ op' = op
    BY DEF XInv, AclCommit
  <2>2. Daemon \in Procs /\ Daemon \notin Workers
    BY XattrsAssumption DEF Procs
  <2>3. /\ Kind(Daemon) \in {"acl", "none"}
        /\ Busy(Daemon) <=> Kind(Daemon) # "none"
        /\ \/ Kind(Daemon) = "get" /\ at[Daemon] = 4
           \/ Kind(Daemon) \in Setting /\ at[Daemon] = CommitAt(Daemon)
           \/ Kind(Daemon) = "acl" /\ at[Daemon] = 3
    BY <2>1, <2>2, Where
  <2>4. Kind(Daemon) = "acl" /\ Busy(Daemon) /\ at[Daemon] = 3
    BY <2>3 DEF Setting
  <2>5. tx[Daemon] \in {Untouched, Inherited}
    BY <2>4 DEF XInv, TxFits
  <2>6. /\ \A v \in Setters : v \in Procs /\ v # Daemon /\ v \notin Getters
        /\ \A g \in Getters : g \in Procs /\ g # Daemon
    BY <2>1, Roles
  <2> QED BY <2>1, <2>2, <2>4, <2>5, <2>6, SameRoles
<1>2. PICK ws \in SUBSET {w \in Setters : Comes(w, "change") \/ (Comes(w, "store") /\ val[w] # Absent)} :
        /\ tx[Daemon] = Untouched \/ db = Absent => ws = {}
        /\ at' = [p \in Procs |-> IF p \in ws \cup {Daemon} THEN at[p] + 1 ELSE at[p]]
  BY DEF AclCommit
<1>3. \A w \in ws : /\ w \in Setters /\ at[w] + 1 = CommitAt(w) /\ at[w] > 1
                    /\ at[w] \in 2 .. 3 /\ tx[Daemon] = Inherited
                    /\ w \notin hollow
  <2>1. \A w \in ws : /\ w \in Setters /\ at[w] + 1 = CommitAt(w) /\ at[w] \in 2 .. 3
    BY <1>1, <1>2, Where, Roles DEF XInv, Setting
  <2> QED BY <1>1, <1>2, <2>1, Roles DEF XInv, TxFits
<1>4. /\ at'[Daemon] = 4
      /\ \A v \in Setters : v \notin ws => at'[v] = at[v]
      /\ \A g \in Getters : at'[g] = at[g]
      /\ \A v \in ws : at'[v] = CommitAt(v)
  BY <1>1, <1>2, <1>3
<1>5. TypeOK'
  <2>1. at' \in [Procs -> 1 .. 5]
    BY <1>1, <1>2, <1>3 DEF XInv, TypeOK
  <2>2. db' \in Rows /\ allowed' \subseteq Rows /\ tx' \in [Procs -> Rows \cup {Untouched}]
    BY <1>1 DEF XInv, TypeOK, AclCommit, Rows
  <2>3. \A p \in Procs : tx'[p] = tx[p] \/ tx'[p] = Untouched
    BY <1>1 DEF XInv, TypeOK, AclCommit
  <2> QED BY <1>1, <2>1, <2>2, <2>3 DEF XInv, TypeOK, AclCommit
<1>6. Alone' /\ InScript'
  <2>1. \A p \in Procs : at'[p] = at[p] \/ p \in ws \cup {Daemon}
    BY <1>2
  <2>2. \A v \in ws : Busy(v)
    BY <1>3, Roles DEF XInv
  <2> QED BY <1>1, <1>2, <1>3, <1>4, <2>1, <2>2, Roles DEF XInv, TypeOK, Alone, InScript, AclCommit
<1>7. \A v \in ws : tx[v] = Untouched
  BY <1>3 DEF XInv, TxFits
<1>8. CASE tx[Daemon] = Untouched
  <2>1. /\ tx' = tx /\ db' = db /\ allowed' = allowed /\ crossed' = crossed /\ overtaken' = overtaken
        /\ ws = {} /\ \A v \in Setters : at'[v] = at[v]
    BY <1>1, <1>2, <1>4, <1>8 DEF AclCommit
  <2>2. TxFits' /\ RowFits'
    BY <1>1, <1>4, <2>1, <1>8 DEF XInv, TypeOK, TxFits, RowFits, AclCommit
  <2>3. GettersFit'
    BY <1>1, <1>4, <2>1 DEF XInv, GettersFit, AclCommit
  <2>4. CopyFits'
    BY <1>1, <1>4 DEF CopyFits, Holds, AclCommit
  <2> QED BY <1>5, <1>6, <2>2, <2>3, <2>4 DEF XInv
<1>9. CASE tx[Daemon] = Inherited
  <2>1. /\ db' = Inherited /\ allowed' = {Inherited} /\ crossed' = Setters /\ overtaken' = Getters
        /\ tx'[Daemon] = Untouched
        /\ \A p \in Procs : p # Daemon => tx'[p] = tx[p] /\ tx[p] = Untouched
        /\ Inherited # Untouched
    BY <1>1, <1>9, XattrsAssumption DEF AclCommit, XInv, TypeOK
  <2>2. TxFits'
    BY <1>1, <1>3, <1>4, <1>9, <2>1 DEF XInv, TypeOK, TxFits, AclCommit
  <2>3. RowFits'
    BY <1>1, <1>4, <1>3, <1>9, <2>1 DEF XInv, TypeOK, TxFits, RowFits, AclCommit
  <2>4. GettersFit'
    BY <1>1, <1>4, <2>1 DEF XInv, GettersFit, AclCommit
  <2>5. CopyFits'
    BY <1>1, <1>4 DEF CopyFits, Holds, AclCommit
  <2> QED BY <1>5, <1>6, <2>2, <2>3, <2>4, <2>5 DEF XInv
<1> QED BY <1>1, <1>8, <1>9

-------------------------------------------------------------------------------
(* Requests begin and end.                                                   *)

\* What becomes of the others when the handler of p is over: nothing.
LEMMA Left ==
  ASSUME TypeOK, InScript, NEW p \in Procs, Leave({p})
  PROVE  /\ Setters' = Setters \ {p} /\ Getters' = Getters \ {p}
         /\ ~Busy(p)' /\ at'[p] = 1
         /\ \A q \in Procs : q # p =>
              /\ Kind(q)' = Kind(q) /\ Busy(q)' = Busy(q) /\ CommitAt(q)' = CommitAt(q)
              /\ op'[q] = op[q] /\ at'[q] = at[q] /\ val'[q] = val[q]
         /\ op' \in [Procs -> Requests \cup {AclRun, Idle}]
         /\ at' \in [Procs -> 1 .. 5] /\ val' \in [Procs -> Rows]
         /\ overtaken' = overtaken \ {p} /\ hollow' = hollow \ {p}
         /\ InScript'
<1>1. /\ op'[p] = Idle /\ at'[p] = 1
      /\ \A q \in Procs : q # p => op'[q] = op[q] /\ at'[q] = at[q] /\ val'[q] = val[q]
  BY DEF Leave
<1>2. /\ ~Busy(p)'
      /\ \A q \in Procs : q # p =>
           Kind(q)' = Kind(q) /\ Busy(q)' = Busy(q) /\ CommitAt(q)' = CommitAt(q)
  BY <1>1 DEF Busy, Kind, CommitAt
<1>3. Setters' = Setters \ {p} /\ Getters' = Getters \ {p}
  <2>1. \A w \in Workers : w \in Procs
    BY DEF Procs
  <2>2. p \notin Setters' /\ p \notin Getters'
    BY <1>2 DEF Setters, Getters
  <2>3. \A w \in Workers : w # p => (w \in Setters' <=> w \in Setters) /\ (w \in Getters' <=> w \in Getters)
    BY <1>1, <1>2, <2>1 DEF Setters, Getters
  <2>4. Setters \subseteq Workers /\ Getters \subseteq Workers
        /\ Setters' \subseteq Workers /\ Getters' \subseteq Workers
    BY DEF Setters, Getters
  <2> QED BY <2>2, <2>3, <2>4
<1>4. /\ op' \in [Procs -> Requests \cup {AclRun, Idle}]
      /\ at' \in [Procs -> 1 .. 5] /\ val' \in [Procs -> Rows]
  BY DEF Leave, TypeOK, Rows
<1>5. InScript'
  <2>1. \A q \in Setters' : q \in Setters /\ q # p /\ q \in Procs
    BY <1>3, Roles
  <2> QED BY <1>1, <1>2, <2>1, XattrsAssumption DEF InScript, Procs
<1> QED BY <1>1, <1>2, <1>3, <1>4, <1>5 DEF Leave

\* A handler that is over, its transaction closed, leaves the other facts about
\* transactions as they were, and the daemon.
LEMMA WorkerLeft ==
  ASSUME XInv, NEW w \in Workers, Busy(w), Leave({w}),
         tx' = [tx EXCEPT ![w] = Untouched], crossed' = crossed \ {w}
  PROVE  /\ w \in Procs /\ w # Daemon /\ Daemon \in Procs
         /\ w \in Setters <=> w \notin Getters
         /\ w \in Setters => Setters' = {} /\ Getters' = Getters /\ crossed' = {} /\ hollow' = {}
                             /\ Getters \subseteq overtaken /\ Getters' \subseteq overtaken'
         /\ w \in Getters => /\ Setters' = Setters /\ Getters' = Getters \ {w}
                             /\ crossed' = crossed /\ hollow' = hollow /\ tx' = tx
         /\ \A v : Holds(v) /\ redis' = redis => Holds(v)'
         /\ Alone' /\ InScript' /\ TxFits'
         /\ tx' \in [Procs -> Rows \cup {Untouched}]
         /\ overtaken' \subseteq Getters' /\ crossed' \subseteq Setters' /\ hollow' \subseteq Setters'
         /\ \A p \in Procs : tx'[p] # Untouched => p \in Setters' \cup {Daemon} /\ Busy(p)'
         /\ \A p, q \in Procs : tx'[p] # Untouched /\ tx'[q] # Untouched => p = q
<1>1. w \in Procs /\ w # Daemon /\ Daemon \in Procs /\ TypeOK /\ InScript
  BY XattrsAssumption DEF Procs, XInv
<1>2. w \in Setters <=> w \notin Getters
  BY DEF Setters, Getters
<1>3. /\ Setters' = Setters \ {w} /\ Getters' = Getters \ {w} /\ InScript'
      /\ overtaken' = overtaken \ {w} /\ hollow' = hollow \ {w}
      /\ \A q \in Procs : q # w =>
           /\ Kind(q)' = Kind(q) /\ Busy(q)' = Busy(q) /\ CommitAt(q)' = CommitAt(q)
           /\ op'[q] = op[q] /\ at'[q] = at[q]
  BY <1>1, Left
<1>4. /\ crossed \subseteq Setters /\ hollow \subseteq Setters /\ overtaken \subseteq Getters
      /\ \A v \in Setters : v \in Procs /\ v # Daemon /\ v \notin Getters
  BY <1>1, Roles DEF TypeOK
<1>5. w \in Setters => Setters' = {} /\ Getters' = Getters /\ crossed' = {} /\ hollow' = {}
                       /\ Getters \subseteq overtaken /\ Getters' \subseteq overtaken'
  BY <1>2, <1>3, <1>4 DEF XInv, Alone, GettersFit
<1>6. w \in Getters => /\ Setters' = Setters /\ Getters' = Getters \ {w}
                       /\ crossed' = crossed /\ hollow' = hollow /\ tx' = tx
  BY <1>1, <1>2, <1>3, <1>4 DEF TypeOK
<1>7. \A v : Holds(v) /\ redis' = redis => Holds(v)'
  BY <1>1, <1>3 DEF Holds
<1>8. /\ tx' \in [Procs -> Rows \cup {Untouched}]
      /\ tx'[w] = Untouched
      /\ \A p \in Procs : p # w => tx'[p] = tx[p]
  BY <1>1 DEF TypeOK
<1>9. Alone'
  BY <1>3 DEF XInv, Alone
<1>10. TxFits'
  BY <1>1, <1>3, <1>4, <1>8 DEF XInv, TxFits
<1>11. /\ overtaken' \subseteq Getters' /\ crossed' \subseteq Setters' /\ hollow' \subseteq Setters'
       /\ \A p \in Procs : tx'[p] # Untouched => p \in Setters' \cup {Daemon} /\ Busy(p)'
       /\ \A p, q \in Procs : tx'[p] # Untouched /\ tx'[q] # Untouched => p = q
  BY <1>1, <1>3, <1>4, <1>8 DEF TypeOK
<1> QED BY <1>1, <1>2, <1>3, <1>5, <1>6, <1>7, <1>8, <1>9, <1>10, <1>11

\* A getter that is over takes nothing with it that another one needs.
LEMMA GetterLeft ==
  ASSUME XInv, NEW w \in Getters, Leave({w}),
         tx' = [tx EXCEPT ![w] = Untouched], crossed' = crossed \ {w},
         redis' = redis, db' = db, allowed' = allowed, stale' = stale
  PROVE  RowFits' /\ GettersFit' /\ (~stale' => CopyFits')
<1>1. /\ w \in Workers /\ Busy(w) /\ w \in Procs /\ TypeOK /\ InScript
      /\ \A v \in Setters : v # w /\ v \in Procs
      /\ \A g \in Getters : g \in Procs
  BY Roles DEF XInv
<1>2. /\ Setters' = Setters /\ Getters' = Getters \ {w}
      /\ crossed' = crossed /\ hollow' = hollow /\ tx' = tx /\ overtaken' = overtaken \ {w}
      /\ \A v : Holds(v) => Holds(v)'
  <2>1. overtaken' = overtaken \ {w}
    BY <1>1, Left
  <2> QED BY <1>1, <2>1, WorkerLeft
<1>3. \A q \in Procs : q # w =>
        /\ Kind(q)' = Kind(q) /\ CommitAt(q)' = CommitAt(q)
        /\ op'[q] = op[q] /\ at'[q] = at[q] /\ val'[q] = val[q]
  BY <1>1, Left
<1>4. RowFits'
  BY <1>1, <1>2, <1>3 DEF XInv, RowFits
<1>5. GettersFit'
  BY <1>1, <1>2, <1>3 DEF XInv, GettersFit
<1>6. ~stale' => CopyFits'
  <2>1. \A v : Holds(v) => redis \in {Absent, v} \/ (Busy(Daemon)' /\ at'[Daemon] = 4)
    BY <1>2 DEF Holds
  <2>2. CopyFits => CopyFits'
    BY <1>1, <1>2, <1>3, <2>1 DEF CopyFits, Holds
  <2> QED BY <2>2 DEF XInv
<1> QED BY <1>4, <1>5, <1>6

LEMMA ReturnKeeps ==
  ASSUME XInv, NEW w \in Workers, Return(w)
  PROVE  XInv'
<1>1. /\ w \in Procs /\ TypeOK /\ InScript /\ Busy(w) /\ Leave({w}) /\ Done(w)
      /\ Kind(w) \in Setting => at[w] > CommitAt(w)
      /\ w \in Setters <=> Kind(w) \in Setting
  <2>1. w \in Procs /\ TypeOK /\ InScript /\ Busy(w) /\ Leave({w}) /\ Done(w)
    BY DEF Procs, XInv, Return, Done
  <2> QED BY <2>1, Where DEF Setting
<1>2. tx[w] = Untouched
  BY <1>1, Roles, XattrsAssumption DEF XInv, TypeOK, TxFits, Setting
<1>3. tx' = [tx EXCEPT ![w] = Untouched]
  BY <1>1, <1>2 DEF Return, XInv, TypeOK
<1>4. TypeOK'
  <2>1. /\ op' \in [Procs -> Requests \cup {AclRun, Idle}]
        /\ at' \in [Procs -> 1 .. 5] /\ val' \in [Procs -> Rows]
    BY <1>1, Left
  <2>2. allowed' \subseteq Rows
    BY <1>1, Roles DEF Return, TypeOK, Rows
  <2> QED BY <1>1, <1>3, <2>1, <2>2, WorkerLeft DEF TypeOK, Return
<1>5. Alone' /\ InScript' /\ TxFits'
  BY <1>1, <1>3, WorkerLeft DEF Return
<1>6. CASE w \in Setters
  <2>1. /\ Setters' = {} /\ Getters' \subseteq overtaken' /\ (Holds(db) => Holds(db)')
    BY <1>1, <1>3, <1>6, WorkerLeft DEF Return, Holds
  <2>2. db \in allowed'
    BY <1>1, <1>6 DEF XInv, RowFits, Return
  <2>3. ~stale => Holds(db)
    BY <1>1, <1>6 DEF XInv, CopyFits
  <2>4. RowFits' /\ GettersFit' /\ (~stale' => CopyFits')
    BY <2>1, <2>2, <2>3 DEF RowFits, GettersFit, CopyFits, Return
  <2> QED BY <1>4, <1>5, <2>4 DEF XInv
<1>7. CASE w \in Getters
  <2>1. w \notin Setters
    BY <1>1, <1>7, Roles
  <2> QED BY <1>1, <1>3, <1>4, <1>5, <1>7, <2>1, GetterLeft DEF XInv, Return
<1> QED BY <1>1, <1>6, <1>7 DEF Setters, Getters

LEMMA FailKeeps ==
  ASSUME XInv, NEW w \in Workers, Fail(w)
  PROVE  XInv'
<1>1. /\ w \in Procs /\ TypeOK /\ InScript /\ Busy(w) /\ Leave({w})
      /\ tx' = [tx EXCEPT ![w] = Untouched] /\ crossed' = crossed \ {w}
      /\ redis' = redis /\ (stale => stale')
  BY DEF Procs, XInv, Fail, Lost
<1>2. /\ w \in Setters <=> Kind(w) \in Setting
      /\ Comes(w, "commit") /\ Kind(w) \in Setting => at[w] = CommitAt(w)
      /\ at[w] = CommitAt(w) /\ Kind(w) \in Setting => Comes(w, "commit")
      /\ Done(w) /\ Kind(w) \in Setting <=> at[w] > CommitAt(w) /\ Kind(w) \in Setting
  <2>1. Kind(w) \in Setting => Kind(w) # "get" /\ Kind(w) # "acl"
    BY DEF Setting
  <2> QED BY <1>1, <2>1, Where
<1>3. \/ db' = db
      \/ w \in Setters /\ at[w] = CommitAt(w) /\ tx[w] = op[w].value /\ db' = op[w].value /\ w \notin hollow
  <2>1. tx[w] # Untouched => w \in Setters /\ at[w] = CommitAt(w) /\ tx[w] = op[w].value /\ w \notin hollow
    BY <1>1, XattrsAssumption DEF XInv, TypeOK, TxFits
  <2> QED BY <2>1 DEF Fail
<1>4. TypeOK'
  <2>1. /\ op' \in [Procs -> Requests \cup {AclRun, Idle}]
        /\ at' \in [Procs -> 1 .. 5] /\ val' \in [Procs -> Rows]
    BY <1>1, Left
  <2>2. allowed' \subseteq Rows /\ db' \in Rows
    BY <1>1, <1>3, Roles DEF Fail, Lost, TypeOK, Rows
  <2>3. failures' \in 0 .. MaxFailures
    BY <1>1, XattrsAssumption DEF Fail, Lost, TypeOK
  <2> QED BY <1>1, <2>1, <2>2, <2>3, WorkerLeft DEF TypeOK, Fail, Lost
<1>5. Alone' /\ InScript' /\ TxFits'
  BY <1>1, WorkerLeft
<1>6. CASE w \in Setters
  <2>1. /\ Setters' = {} /\ Getters' \subseteq overtaken'
        /\ at[w] \in 1 .. 5 /\ CommitAt(w) \in {3, 4}
    BY <1>1, <1>6, WorkerLeft, Roles
  <2>2. allowed' = IF at[w] >= CommitAt(w) THEN allowed \cup {op[w].value} ELSE allowed
    BY <1>2, <1>6, <2>1 DEF Fail, Lost
  <2>3. db' \in allowed'
    <3>1. CASE at[w] <= CommitAt(w)
      BY <1>3, <1>6, <2>1, <2>2, <3>1 DEF XInv, RowFits
    <3>2. CASE at[w] > CommitAt(w)
      BY <1>3, <1>6, <2>1, <2>2, <3>2 DEF XInv, RowFits
    <3> QED BY <2>1, <3>1, <3>2
  <2>4. ~stale' => Holds(db')
    <3>1. SUFFICES ASSUME ~stale' PROVE Holds(db')
      OBVIOUS
    <3>2. CopyFits /\ (Kind(w) = "remove" \/ at[w] = 1 \/ at[w] > CommitAt(w))
      <4>1. stale' = (stale \/ (w \in Setters /\ op[w].kind # "remove" /\ at[w] > 1 /\ ~Done(w)))
        BY DEF Fail, Lost
      <4>2. ~stale /\ (Kind(w) = "remove" \/ ~(at[w] > 1) \/ Done(w))
        BY <1>6, <3>1, <4>1 DEF Kind
      <4>3. Done(w) => at[w] > CommitAt(w)
        BY <1>2, <1>6
      <4>4. ~(at[w] > 1) => at[w] = 1
        BY <2>1
      <4> QED BY <4>2, <4>3, <4>4 DEF XInv
    <3>3. CASE at[w] = 1 \/ at[w] > CommitAt(w)
      BY <1>3, <1>6, <2>1, <3>2, <3>3 DEF CopyFits
    <3>4. CASE Kind(w) = "remove" /\ at[w] > 1 /\ at[w] <= CommitAt(w)
      BY <1>1, <1>3, <1>6, <3>2, <3>4, Roles DEF CopyFits, Holds
    <3> QED BY <2>1, <3>2, <3>3, <3>4
  <2>5. \A v : Holds(v) => Holds(v)'
    BY <1>1, WorkerLeft
  <2>6. ~stale' => CopyFits'
    <3>1. Holds(db') => redis' \in {Absent, db'} \/ (Busy(Daemon)' /\ at'[Daemon] = 4)
      BY <2>5 DEF Holds
    <3> QED BY <2>1, <2>4, <3>1 DEF CopyFits, Holds
  <2>7. RowFits' /\ GettersFit'
    BY <2>1, <2>3, <1>1, <1>6, WorkerLeft DEF RowFits, GettersFit
  <2> QED BY <1>4, <1>5, <2>6, <2>7 DEF XInv
<1>7. CASE w \in Getters
  <2>1. w \notin Setters /\ db' = db /\ allowed' = allowed
    BY <1>1, <1>3, <1>7, Roles DEF Fail, Lost
  <2>2. stale' = stale
    BY <2>1 DEF Fail, Lost, XInv, TypeOK
  <2>3. RowFits' /\ GettersFit' /\ (~stale' => CopyFits')
    BY <1>1, <1>7, <2>1, <2>2, GetterLeft
  <2> QED BY <1>4, <1>5, <2>3 DEF XInv
<1> QED BY <1>1, <1>6, <1>7, WorkerLeft

LEMMA DuplicateKeeps ==
  ASSUME XInv, NEW w \in Workers, Duplicate(w)
  PROVE  XInv'
<1>1. /\ w \in Procs /\ TypeOK /\ InScript /\ Leave({w}) /\ Comes(w, "store")
      /\ crossed' = crossed \ {w} /\ val[w] = Absent /\ db # Absent
  BY DEF Procs, XInv, Duplicate
<1>2. Kind(w) = "create" /\ at[w] = 3
  BY <1>1, Where
<1>3. w \in Setters /\ Busy(w) /\ CommitAt(w) = 4
  BY <1>1, <1>2, Where DEF Setting, CommitAt
<1>4. tx[w] = Untouched
  BY <1>2, <1>3 DEF XInv, TxFits
<1>5. tx' = [tx EXCEPT ![w] = Untouched]
  BY <1>1, <1>4 DEF Duplicate, XInv, TypeOK
<1>6. TypeOK'
  <2>1. /\ op' \in [Procs -> Requests \cup {AclRun, Idle}]
        /\ at' \in [Procs -> 1 .. 5] /\ val' \in [Procs -> Rows]
    BY <1>1, Left
  <2> QED BY <1>1, <1>3, <1>5, <2>1, WorkerLeft DEF TypeOK, Duplicate
<1>7. Alone' /\ InScript' /\ TxFits' /\ Setters' = {} /\ Getters' \subseteq overtaken'
  BY <1>1, <1>3, <1>5, WorkerLeft
<1>8. RowFits' /\ GettersFit'
  BY <1>2, <1>3, <1>7 DEF XInv, RowFits, GettersFit, Duplicate
<1>9. ~stale' => CopyFits'
  <2>1. ~stale' => Holds(Absent)
    BY <1>1, <1>2, <1>3 DEF XInv, CopyFits, Duplicate
  <2>2. Holds(Absent) => Holds(db)
    BY DEF Holds
  <2>3. Holds(db) => Holds(db)'
    BY <1>1, <1>3, <1>5, WorkerLeft DEF Holds, Duplicate
  <2> QED BY <1>7, <2>1, <2>2, <2>3 DEF CopyFits
<1> QED BY <1>6, <1>7, <1>8, <1>9 DEF XInv

LEMMA StartKeeps ==
  ASSUME XInv, NEW w \in Workers, NEW r \in Requests, Start(w, r)
  PROVE  XInv'
<1>1. /\ w \in Procs /\ w # Daemon /\ Daemon \in Procs /\ ~Busy(w) /\ at[w] = 1
      /\ w \notin Setters /\ w \notin Getters /\ tx[w] = Untouched
  BY XattrsAssumption DEF Procs, Start, XInv, InScript, Setters, Getters, TypeOK
<1>2. /\ op' = [op EXCEPT ![w] = r] /\ op'[w] = r /\ Kind(w)' = r.kind /\ Busy(w)'
      /\ CommitAt(w)' = IF r.kind = "create" THEN 4 ELSE 3
      /\ r.kind = "get" \/ r.kind \in Setting
      /\ r.kind = "get" => r.kind \notin Setting
  BY <1>1, RequestFacts DEF Start, XInv, TypeOK, Kind, Busy, CommitAt, Setting
<1>3. \A q \in Procs : q # w =>
        op'[q] = op[q] /\ Kind(q)' = Kind(q) /\ Busy(q)' = Busy(q) /\ CommitAt(q)' = CommitAt(q)
  BY <1>1, <1>2 DEF Kind, Busy, CommitAt, XInv, TypeOK
<1>4. /\ r.kind = "get" => Setters' = Setters /\ Getters' = Getters \cup {w}
      /\ r.kind # "get" => Setters = {} /\ Setters' = {w} /\ Getters' = Getters
  <2>1. \A v \in Workers : v \in Procs
    BY DEF Procs
  <2>2. \A v \in Workers : v # w => (v \in Setters' <=> v \in Setters) /\ (v \in Getters' <=> v \in Getters)
    BY <1>3, <2>1 DEF Setters, Getters
  <2>3. /\ w \in Setters' <=> r.kind # "get"
        /\ w \in Getters' <=> r.kind = "get"
    BY <1>2 DEF Setters, Getters
  <2>4. /\ Setters \subseteq Workers /\ Getters \subseteq Workers
        /\ Setters' \subseteq Workers /\ Getters' \subseteq Workers
    BY DEF Setters, Getters
  <2>5. r.kind # "get" => Setters = {}
    BY DEF Start
  <2> QED BY <1>1, <2>2, <2>3, <2>4, <2>5
<1>5. /\ \A v \in Setters : v # w /\ v \in Procs
      /\ \A g \in Getters : g # w /\ g \in Procs
  BY <1>1, Roles DEF XInv
<1>6. TypeOK'
  <2>1. op' \in [Procs -> Requests \cup {AclRun, Idle}]
    BY <1>1, <1>2 DEF XInv, TypeOK
  <2>2. overtaken' \subseteq Getters'
    BY <1>4 DEF XInv, TypeOK, Start
  <2>3. crossed' \subseteq Setters' /\ hollow' \subseteq Setters'
    BY <1>4 DEF XInv, TypeOK, Start
  <2>4. \A p \in Procs : tx[p] # Untouched => p \in Setters' \cup {Daemon} /\ Busy(p)'
    BY <1>1, <1>3, <1>4 DEF XInv, TypeOK
  <2> QED BY <2>1, <2>2, <2>3, <2>4 DEF XInv, TypeOK, Start
<1>7. Alone' /\ InScript'
  <2>1. Alone'
    BY <1>4 DEF XInv, Alone
  <2>2. /\ \A v \in Workers : op'[v] \in Requests \cup {Idle}
        /\ op'[Daemon] \in {AclRun, Idle}
    BY <1>1, <1>2, <1>3 DEF XInv, InScript, Procs
  <2>3. /\ \A p \in Procs : ~Busy(p)' => at[p] = 1
        /\ Busy(Daemon)' => at[Daemon] <= 4
    BY <1>1, <1>2, <1>3 DEF XInv, InScript
  <2>4. \A v \in Setters' : at[v] <= CommitAt(v)' + 1
    BY <1>1, <1>2, <1>3, <1>4, <1>5 DEF XInv, InScript
  <2> QED BY <2>1, <2>2, <2>3, <2>4 DEF InScript, Start
<1>8. TxFits'
  BY <1>1, <1>2, <1>3, <1>4, <1>5 DEF XInv, TypeOK, TxFits, Start
<1>9. \A v : Holds(v)' <=> Holds(v)
  BY <1>1, <1>3 DEF Holds, Start
<1>10. CASE r.kind = "get"
  <2>1. RowFits'
    BY <1>3, <1>4, <1>5, <1>10 DEF XInv, RowFits, Start
  <2>2. GettersFit'
    BY <1>1, <1>4, <1>5, <1>10 DEF XInv, GettersFit, Start
  <2>3. CopyFits => CopyFits'
    BY <1>3, <1>4, <1>5, <1>9, <1>10 DEF CopyFits, Holds, Start
  <2> QED BY <1>6, <1>7, <1>8, <2>1, <2>2, <2>3 DEF XInv, Start
<1>11. CASE r.kind # "get"
  <2>1. hollow = {} /\ crossed = {}
    BY <1>4, <1>11 DEF XInv, TypeOK
  <2>2. RowFits'
    BY <1>1, <1>2, <1>4, <1>11, <2>1 DEF XInv, RowFits, Start
  <2>3. GettersFit'
    BY <1>4, <1>11 DEF GettersFit, Start
  <2>4. CopyFits => CopyFits'
    BY <1>1, <1>2, <1>4, <1>9, <1>11 DEF CopyFits, Holds, Start
  <2> QED BY <1>6, <1>7, <1>8, <2>2, <2>3, <2>4 DEF XInv, Start
<1> QED BY <1>10, <1>11

LEMMA AclStartKeeps ==
  ASSUME XInv, AclStart
  PROVE  XInv'
<1>1. Daemon \in Procs /\ Daemon \notin Workers /\ ~Busy(Daemon) /\ at[Daemon] = 1
  BY XattrsAssumption DEF Procs, AclStart, XInv, InScript
<1>2. op' = [op EXCEPT ![Daemon] = AclRun] /\ op'[Daemon] = AclRun /\ Busy(Daemon)'
  BY <1>1, RequestFacts DEF AclStart, XInv, TypeOK, Busy
<1>3. \A q \in Procs : q # Daemon =>
        op'[q] = op[q] /\ Kind(q)' = Kind(q) /\ Busy(q)' = Busy(q) /\ CommitAt(q)' = CommitAt(q)
  BY <1>1, <1>2 DEF Kind, Busy, CommitAt, XInv, TypeOK
<1>4. /\ \A v \in Workers : v \in Procs /\ v # Daemon
      /\ \A v \in Setters : v \in Procs /\ v # Daemon
      /\ \A g \in Getters : g \in Procs /\ g # Daemon
  BY <1>1, Roles DEF XInv, Procs
<1>5. Setters' = Setters /\ Getters' = Getters
  BY <1>3, <1>4 DEF Setters, Getters
<1>6. TypeOK'
  BY <1>1, <1>2, <1>3, <1>5, XattrsAssumption DEF XInv, TypeOK, AclStart
<1>7. Alone' /\ InScript'
  BY <1>1, <1>2, <1>3, <1>4, <1>5 DEF XInv, Alone, InScript, AclStart
<1>8. TxFits' /\ RowFits' /\ GettersFit'
  BY <1>1, <1>3, <1>4, <1>5 DEF XInv, TypeOK, TxFits, RowFits, GettersFit, AclStart
<1>9. CopyFits => CopyFits'
  BY <1>1, <1>3, <1>4, <1>5 DEF CopyFits, Holds, AclStart
<1> QED BY <1>6, <1>7, <1>8, <1>9 DEF XInv, AclStart

\* A run of the daemon that is over, its transaction closed: only what Redis may
\* hold depends on it.
LEMMA DaemonLeft ==
  ASSUME XInv, Leave({Daemon}), tx' = [tx EXCEPT ![Daemon] = Untouched],
         failures' \in 0 .. MaxFailures, redis' \in Rows, stale' \in BOOLEAN,
         UNCHANGED <<db, allowed, crossed, acls>>
  PROVE  /\ TypeOK' /\ Alone' /\ InScript' /\ TxFits' /\ RowFits' /\ GettersFit'
         /\ (\A v : Holds(v) => redis' \in {Absent, v}) => (CopyFits => CopyFits')
<1>1. Daemon \in Procs /\ Daemon \notin Workers /\ TypeOK /\ InScript
  BY XattrsAssumption DEF Procs, XInv
<1>2. /\ \A v \in Setters : v \in Procs /\ v # Daemon
      /\ \A g \in Getters : g \in Procs /\ g # Daemon
      /\ Daemon \notin overtaken /\ Daemon \notin hollow
  BY <1>1, Roles DEF TypeOK
<1>3. /\ Setters' = Setters /\ Getters' = Getters
      /\ at'[Daemon] = 1 /\ ~Busy(Daemon)' /\ InScript'
      /\ overtaken' = overtaken /\ hollow' = hollow
      /\ op' \in [Procs -> Requests \cup {AclRun, Idle}]
      /\ at' \in [Procs -> 1 .. 5] /\ val' \in [Procs -> Rows]
  <2>1. /\ Setters' = Setters \ {Daemon} /\ Getters' = Getters \ {Daemon}
        /\ at'[Daemon] = 1 /\ ~Busy(Daemon)' /\ InScript'
        /\ overtaken' = overtaken \ {Daemon} /\ hollow' = hollow \ {Daemon}
        /\ op' \in [Procs -> Requests \cup {AclRun, Idle}]
        /\ at' \in [Procs -> 1 .. 5] /\ val' \in [Procs -> Rows]
    BY <1>1, Left
  <2>2. Daemon \notin Setters /\ Daemon \notin Getters
    BY <1>2
  <2>3. \A S : Daemon \notin S => S \ {Daemon} = S
    OBVIOUS
  <2> QED BY <1>2, <2>1, <2>2, <2>3
<1>4. \A q \in Procs : q # Daemon =>
        /\ Kind(q)' = Kind(q) /\ Busy(q)' = Busy(q) /\ CommitAt(q)' = CommitAt(q)
        /\ op'[q] = op[q] /\ at'[q] = at[q] /\ val'[q] = val[q]
  BY <1>1, Left
<1>5. /\ tx' \in [Procs -> Rows \cup {Untouched}] /\ tx'[Daemon] = Untouched
      /\ \A p \in Procs : p # Daemon => tx'[p] = tx[p]
  BY <1>1 DEF TypeOK
<1>6. TypeOK'
  BY <1>1, <1>3, <1>4, <1>5 DEF TypeOK
<1>7. Alone'
  BY <1>3 DEF XInv, Alone
<1>8. TxFits' /\ RowFits' /\ GettersFit'
  BY <1>1, <1>2, <1>3, <1>4, <1>5 DEF XInv, TypeOK, TxFits, RowFits, GettersFit
<1>9. (\A v : Holds(v) => redis' \in {Absent, v}) => (CopyFits => CopyFits')
  BY <1>2, <1>3, <1>4, <1>5 DEF CopyFits, Holds
<1> QED BY <1>3, <1>6, <1>7, <1>8, <1>9

LEMMA AclDelKeeps ==
  ASSUME XInv, AclDel
  PROVE  XInv'
<1>1. Daemon \in Procs /\ TypeOK /\ InScript
  BY DEF Procs, XInv
<1>2. at[Daemon] = 4
  BY <1>1, Where DEF AclDel
<1>3. tx' = [tx EXCEPT ![Daemon] = Untouched]
  BY <1>1, <1>2 DEF AclDel, XInv, TypeOK, TxFits
<1>4. redis' = Absent /\ redis' \in Rows /\ ~stale' /\ failures' \in 0 .. MaxFailures
  BY <1>1 DEF AclDel, Rows, TypeOK
<1>5. CopyFits'
  BY <1>4 DEF CopyFits, Holds
<1> QED BY <1>3, <1>4, <1>5, DaemonLeft DEF XInv, AclDel

LEMMA AclFailsKeeps ==
  ASSUME XInv, AclFails
  PROVE  XInv'
<1>1. Daemon \in Procs /\ Daemon \notin Workers /\ TypeOK /\ InScript
  BY XattrsAssumption DEF Procs, XInv
<1>2. /\ redis' = redis /\ redis' \in Rows /\ stale' \in BOOLEAN
      /\ failures' \in 0 .. MaxFailures
  BY <1>1, XattrsAssumption DEF AclFails, Rows, TypeOK
<1>3. /\ Comes(Daemon, "del") <=> Kind(Daemon) = "acl" /\ at[Daemon] = 4
      /\ Busy(Daemon) => Kind(Daemon) = "acl"
  BY <1>1, Where
<1>4. ~stale' => ~stale /\ ~(at[Daemon] = 4)
  BY <1>3 DEF AclFails
<1>5. ~stale' => \A v : Holds(v) => redis' \in {Absent, v}
  BY <1>2, <1>4 DEF Holds
<1> QED BY <1>2, <1>4, <1>5, DaemonLeft DEF XInv, AclFails

-------------------------------------------------------------------------------
(* The theorems.                                                             *)

LEMMA XattrsInit == Init => XInv
<1> SUFFICES ASSUME Init PROVE XInv
  OBVIOUS
<1>1. Setters = {} /\ Getters = {} /\ \A p \in Procs : ~Busy(p) /\ op[p] = Idle
  BY DEF Init, Setters, Getters, Busy, Procs
<1>2. Daemon \in Procs /\ Workers \subseteq Procs
  BY DEF Procs
<1>3. TypeOK
  <2>1. /\ tx \in [Procs -> Rows \cup {Untouched}]
        /\ op \in [Procs -> Requests \cup {AclRun, Idle}]
        /\ at \in [Procs -> 1 .. 5]
        /\ val \in [Procs -> Rows]
        /\ \A p \in Procs : tx[p] = Untouched
    BY DEF Init, Rows
  <2>2. redis \in Rows /\ db \in Rows /\ allowed \subseteq Rows /\ stale \in BOOLEAN
    BY DEF Init, Rows
  <2>3. failures \in 0 .. MaxFailures /\ acls \in 0 .. MaxAcls
    BY XattrsAssumption DEF Init
  <2>4. overtaken = {} /\ crossed = {} /\ hollow = {}
    BY DEF Init
  <2> QED BY <2>1, <2>2, <2>3, <2>4 DEF TypeOK
<1>4. Alone /\ InScript /\ TxFits /\ RowFits /\ GettersFit /\ CopyFits
  BY <1>1, <1>2 DEF Init, Alone, InScript, TxFits, RowFits, GettersFit, CopyFits, Holds
<1> QED BY <1>3, <1>4 DEF XInv

LEMMA XattrsStep == XInv /\ [Next]_vars => XInv'
<1> SUFFICES ASSUME XInv, [Next]_vars PROVE XInv'
  OBVIOUS
<1>1. CASE UNCHANGED vars
  BY <1>1 DEF vars, ghostVars, XInv, TypeOK, Alone, InScript, TxFits, RowFits, GettersFit,
    CopyFits, Holds, Setters, Getters, Busy, Kind, CommitAt
<1>2. ASSUME NEW w \in Workers, Step(w)
      PROVE  XInv'
  BY <1>2, StartKeeps, HitKeeps, MissKeeps, SelectKeeps, FillKeeps, CacheKeeps, ChangeKeeps,
    LookupKeeps, StoreKeeps, DuplicateKeeps, CommitKeeps, FailKeeps, ReturnKeeps DEF Step
<1> QED BY <1>1, <1>2, AclStartKeeps, AclDeleteKeeps, AclInsertKeeps, AclCommitKeeps,
    AclDelKeeps, AclFailsKeeps, DropHashKeeps DEF Next

\* The invariant that all the rest follows from.
THEOREM XattrsInductive == Spec => []XInv
  BY XattrsInit, XattrsStep, PTL DEF Spec

\* Types, and that at most one running transaction has changed the row.
THEOREM XattrsTypeCorrect == Spec => []TypeOK
<1>1. XInv => TypeOK
  BY DEF XInv
<1> QED BY <1>1, XattrsInductive, PTL

\* An acknowledged setxattr or removexattr is in the table, whatever failures,
\* and runs of the ACL daemon, come between: the row is what the answers and the
\* daemon allow.
THEOREM AcknowledgedIsStored == Spec => []RowIsAcknowledged
<1>1. XInv => RowIsAcknowledged
  BY DEF XInv, RowFits, RowIsAcknowledged, Quiet, Setters, Procs
<1> QED BY <1>1, XattrsInductive, PTL

\* The copy in Redis that getxattr answers with is that of the row, unless one
\* of the named defects has left another: the list of them is complete.
THEOREM CopiesAgree == Spec => []CopyIsTheRow
<1>1. XInv => CopyIsTheRow
  BY DEF XInv, CopyFits, CopyIsTheRow, Quiet, Setters, Holds, Procs
<1> QED BY <1>1, XattrsInductive, PTL
===============================================================================
