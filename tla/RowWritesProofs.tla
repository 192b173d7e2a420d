-------------------------- MODULE RowWritesProofs --------------------------
(***************************************************************************)
(* Theorems about RowWrites, for any relation, any set of requests and any *)
(* number of threads.                                                      *)
(***************************************************************************)
EXTENDS RowWritesInvariant, FiniteSetTheorems, TLAPS

(* A request writes rows; an insert brings all the columns of its own. *)
LEMMA NewRowType ==
    ASSUME NEW r \in Requests, NEW row,
           r.op # "insert" => row \in Row
    PROVE  /\ NewRow(r, row) \in Row \cup {NoRow}
           /\ r.op # "delete" => NewRow(r, row) \in Row
           /\ r.op = "insert" => NewRow(r, row).visible = r.visible
<1>1. r \in Request
  BY RowRequestsAssumption
<1>2. CASE r.op = "delete"
  BY <1>2 DEF NewRow
<1>3. CASE r.op = "insert"
  <2>1. r.group # Keep /\ r.visible # Keep /\ r.version # Keep
    BY <1>3, RowRequestsAssumption
  <2> QED
    BY <1>1, <1>3, <2>1 DEF NewRow, Supplied, Request, Row
<1>4. CASE r.op = "update"
  BY <1>1, <1>4 DEF NewRow, Supplied, Request, Row
<1> QED
  BY <1>1, <1>2, <1>3, <1>4 DEF Request

(* The rows that a statement writes are there, unless it inserts them. *)
LEMMA TargetRows ==
    ASSUME TypeOK, NEW r \in Requests, NEW k \in Target(r)
    PROVE  /\ k \in Keys
           /\ k \in r.select
           /\ r.op # "insert" => rows[k] \in Row
<1>1. r \in Request
  BY RowRequestsAssumption
<1> QED
  BY <1>1 DEF Target, Filtered, HasKey, TypeOK, Request

(* The end of a handler, whatever the path it took. *)
LEMMA EndsType ==
    ASSUME TypeOK, NEW t \in Threads, Ends(t)
    PROVE  /\ pc' \in [Threads -> {"idle", "sql", "recheck", "count", "visible", "commit"}]
           /\ req' \in [Threads -> Requests \cup {NoRequest}]
           /\ own' \in [Threads -> [Keys -> Row \cup {NoRow, Same}]]
BY DEF TypeOK, Ends, Goes, RolledBack, Nothing

LEMMA ViewType ==
    ASSUME TypeOK, NEW t \in Threads
    PROVE  View(t) \in [Keys -> Row \cup {NoRow}]
BY DEF TypeOK, View

-----------------------------------------------------------------------------
LEMMA InitIInv == Init => IInv
<1> SUFFICES ASSUME Init PROVE IInv
  OBVIOUS
<1>1. TypeOK
  BY TablesAssumption, MaxRequestsAssumption DEF Init, TypeOK, Nothing
<1>2. \A t \in Threads : Wrote(t) = {}
  BY DEF Init, Wrote, Nothing
<1>3. Control /\ Checked /\ Seen
  BY DEF Init, Control, Checked, KeyedUpdatesSeen, Seen
<1>4. HeldRowsAreFresh
  BY <1>2 DEF HeldRowsAreFresh
<1> QED
  BY <1>1, <1>3, <1>4 DEF IInv

LEMMA TypeStep ==
    ASSUME IInv, [Next]_vars
    PROVE  TypeOK'
<1> USE DEF IInv
<1>0. CASE UNCHANGED vars
  BY <1>0 DEF TypeOK, vars
<1>1. ASSUME NEW t \in Threads, NEW r \in Requests, Receive(t, r)
      PROVE  TypeOK'
  BY <1>1, MaxRequestsAssumption DEF TypeOK, Receive, Goes
<1>2. ASSUME NEW t \in Threads, ExecSql(t)
      PROVE  TypeOK'
  <2>1. req[t] \in Requests
    BY <1>2 DEF ExecSql, Control
  <2>2. \A k \in Target(req[t]) : NewRow(req[t], rows[k]) \in Row \cup {NoRow}
    BY <2>1, NewRowType, TargetRows
  <2> QED
    BY <1>2, <2>2 DEF TypeOK, ExecSql, Goes
<1>3. ASSUME NEW t \in Threads, SqlRejected(t) \/ SqlFails(t)
      PROVE  TypeOK'
  BY <1>3, EndsType DEF TypeOK, SqlRejected, SqlFails
<1>4. ASSUME NEW t \in Threads, Recheck(t) \/ CheckCount(t) \/ CheckVisible(t)
      PROVE  TypeOK'
  <2>1. CASE Ends(t)
    BY <1>4, <2>1, EndsType DEF TypeOK, Recheck, CheckCount, CheckVisible
  <2>2. CASE ~Ends(t)
    BY <1>4, <2>2 DEF TypeOK, Recheck, CheckCount, CheckVisible, Goes
  <2> QED
    BY <2>1, <2>2
<1>5. ASSUME NEW t \in Threads, Commit(t)
      PROVE  TypeOK'
  BY <1>5, EndsType, ViewType DEF TypeOK, Commit, Wrote
<1> QED
  BY <1>0, <1>1, <1>2, <1>3, <1>4, <1>5 DEF Next, Step

LEMMA ControlStep ==
    ASSUME IInv, [Next]_vars
    PROVE  Control'
<1> USE DEF IInv, TypeOK
<1>0. CASE UNCHANGED vars
  BY <1>0 DEF Control, vars, Nothing
<1>1. ASSUME NEW t \in Threads, NEW r \in Requests, Receive(t, r)
      PROVE  Control'
  BY <1>1 DEF Control, Receive, Goes, Nothing
<1>2. ASSUME NEW t \in Threads, ExecSql(t)
      PROVE  Control'
  <2>1. pc'[t] = "recheck" => own'[t] = Nothing
    BY <1>2 DEF ExecSql, Goes, Nothing
  <2> QED
    BY <1>2, <2>1 DEF Control, ExecSql, Goes, Nothing
<1>3. ASSUME NEW t \in Threads, Ends(t)
      PROVE  Control'
  BY <1>3 DEF Control, Ends, Goes, RolledBack, Nothing
<1>4. ASSUME NEW t \in Threads, Recheck(t) \/ CheckCount(t) \/ CheckVisible(t), ~Ends(t)
      PROVE  Control'
  BY <1>4 DEF Control, Recheck, CheckCount, CheckVisible, Goes, Nothing
<1> QED
  BY <1>0, <1>1, <1>2, <1>3, <1>4 DEF Next, Step, SqlRejected, SqlFails, Commit

(* A step that changes no committed row and gives no thread rows that       *)
(* another one holds keeps the held rows fresh.                             *)
LEMMA FreshStep ==
    ASSUME IInv, [Next]_vars
    PROVE  HeldRowsAreFresh'
<1> USE DEF IInv, TypeOK
<1> DEFINE Fresh(u, k) == /\ ~LockedFor(u, k)
                          /\ k \in Target(req[u])
                          /\ req[u].op = "insert" => rows[k] = NoRow
                          /\ own[u][k] = NewRow(req[u], rows[k])
<1>0. ASSUME UNCHANGED <<rows, own>>,
             \A u \in Threads : Wrote(u) # {} => req'[u] = req[u]
      PROVE  HeldRowsAreFresh'
  BY <1>0 DEF HeldRowsAreFresh, Wrote, LockedFor, Target, Filtered, HasKey,
              LockMatches, NewRow, Supplied
<1>1. ASSUME NEW t \in Threads, NEW r \in Requests, Receive(t, r)
      PROVE  HeldRowsAreFresh'
  <2>1. Wrote(t) = {}
    BY <1>1 DEF Receive, Control, Wrote, Nothing
  <2> QED
    BY <1>0, <1>1, <2>1 DEF Receive
<1>2. ASSUME NEW t \in Threads, ExecSql(t)
      PROVE  HeldRowsAreFresh'
  <2>1. /\ rows' = rows /\ req' = req
        /\ \A k \in Target(req[t]) : ~LockedFor(t, k)
        /\ req[t].op = "insert" => \A k \in Target(req[t]) : rows[k] = NoRow
    BY <1>2 DEF ExecSql, Duplicates
  <2>2. /\ \A u \in Threads \ {t} : own'[u] = own[u] /\ Wrote(u)' = Wrote(u)
        /\ \A k \in Wrote(t)' : k \in Target(req[t]) /\ own'[t][k] = NewRow(req[t], rows[k])
    BY <1>2 DEF ExecSql, Wrote
  <2>3. \A u \in Threads : Target(req[u])' = Target(req[u])
    BY <2>1 DEF Target, Filtered, HasKey, LockMatches
  <2>4. ASSUME NEW k \in Wrote(t)'
        PROVE  Fresh(t, k)'
    <3>1. ~LockedFor(t, k)'
      BY <2>1, <2>2, <2>4 DEF LockedFor
    <3> QED
      BY <2>1, <2>2, <2>3, <2>4, <3>1 DEF NewRow, Supplied
  <2>5. ASSUME NEW u \in Threads \ {t}, NEW k \in Wrote(u)'
        PROVE  Fresh(u, k)'
    <3>1. k \in Wrote(u) /\ Fresh(u, k)
      BY <2>2, <2>5 DEF HeldRowsAreFresh
    <3>2. k \notin Wrote(t)'
      BY <2>1, <2>2, <2>5, <3>1 DEF LockedFor
    <3>3. ~LockedFor(u, k)'
      BY <2>2, <3>1, <3>2 DEF LockedFor
    <3> QED
      BY <2>1, <2>2, <2>3, <3>1, <3>3 DEF NewRow, Supplied
  <2> QED
    BY <2>4, <2>5 DEF HeldRowsAreFresh
<1>3. ASSUME NEW t \in Threads, Ends(t),
             \A u \in Threads \ {t} : \A k \in Wrote(u) : rows'[k] = rows[k]
      PROVE  HeldRowsAreFresh'
  <2>1. /\ Wrote(t)' = {}
        /\ \A u \in Threads \ {t} : /\ own'[u] = own[u] /\ req'[u] = req[u]
                                    /\ Wrote(u)' = Wrote(u)
    BY <1>3 DEF Ends, RolledBack, Wrote, Nothing
  <2>2. ASSUME NEW u \in Threads \ {t}, NEW k \in Wrote(u)'
        PROVE  Fresh(u, k)'
    <3>1. k \in Wrote(u) /\ k \in Keys /\ Fresh(u, k)
      BY <2>1, <2>2 DEF HeldRowsAreFresh, Wrote
    <3>2. rows'[k] = rows[k] /\ req'[u] = req[u] /\ own'[u] = own[u]
      BY <1>3, <2>1, <3>1
    <3>3. ~LockedFor(u, k)'
      BY <2>1, <3>1 DEF LockedFor
    <3>4. k \in Target(req[u])'
      BY <3>1, <3>2 DEF Target, Filtered, HasKey, LockMatches
    <3> QED
      BY <3>1, <3>2, <3>3, <3>4 DEF NewRow, Supplied
  <2> QED
    BY <2>1, <2>2 DEF HeldRowsAreFresh
<1>4. ASSUME NEW t \in Threads, SqlRejected(t) \/ SqlFails(t)
      PROVE  HeldRowsAreFresh'
  BY <1>3, <1>4 DEF SqlRejected, SqlFails
<1>5. ASSUME NEW t \in Threads, Recheck(t) \/ CheckCount(t) \/ CheckVisible(t)
      PROVE  HeldRowsAreFresh'
  BY <1>0, <1>3, <1>5 DEF Recheck, CheckCount, CheckVisible
<1>6. ASSUME NEW t \in Threads, Commit(t)
      PROVE  HeldRowsAreFresh'
  <2>1. \A u \in Threads \ {t} : \A k \in Wrote(u) : k \in Keys /\ k \notin Wrote(t)
    BY DEF HeldRowsAreFresh, LockedFor, Wrote
  <2>2. \A u \in Threads \ {t} : \A k \in Wrote(u) : rows'[k] = rows[k]
    BY <1>6, <2>1 DEF Commit, View, Wrote
  <2> QED
    BY <1>3, <1>6, <2>2 DEF Commit
<1>7. CASE UNCHANGED vars
  BY <1>0, <1>7 DEF vars
<1> QED
  BY <1>1, <1>2, <1>4, <1>5, <1>6, <1>7 DEF Next, Step

(* A request selected by one key that finds as many rows as it wrote        *)
(* leaves them visible.                                                     *)
LEMMA SameCountOfOne ==
    ASSUME IInv, NEW t \in Threads, NEW key \in Keys,
           pc[t] = "visible", req[t].select = {key}, HasFilter, SameCount(t)
    PROVE  \A k \in Wrote(t) : own[t][k].visible
<1> SUFFICES ASSUME NEW k \in Wrote(t)
             PROVE  own[t][k].visible
  OBVIOUS
<1>1. /\ req[t] \in Requests
      /\ \A j \in Wrote(t) : j \in Target(req[t])
  BY DEF IInv, Control, HeldRowsAreFresh
<1>2. \A j \in Wrote(t) : j = key
  BY <1>1, TargetRows DEF IInv
<1>3. Wrote(t) = {key} /\ k = key
  BY <1>2
<1>4. Cardinality(Filtered(req[t], View(t))) = 1
  BY <1>3, FS_Singleton DEF SameCount
<1>5. Filtered(req[t], View(t)) # {}
  BY <1>4, FS_EmptySet
<1>6. key \in Filtered(req[t], View(t))
  BY <1>5 DEF Filtered, HasKey
<1>7. View(t)[key].visible
  BY <1>6 DEF Filtered
<1> QED
  BY <1>3, <1>7 DEF View, Wrote

LEMMA CheckedStep ==
    ASSUME IInv, [Next]_vars
    PROVE  Checked'
<1> USE DEF IInv, TypeOK
<1>0. CASE UNCHANGED vars
  BY <1>0 DEF Checked, KeyedUpdatesSeen, vars, Wrote, CountAccepted
<1>1. ASSUME NEW t \in Threads, NEW r \in Requests, Receive(t, r)
      PROVE  Checked'
  BY <1>1 DEF Checked, KeyedUpdatesSeen, Receive, Goes, Wrote, CountAccepted
<1>2. ASSUME NEW t \in Threads, ExecSql(t)
      PROVE  Checked'
  BY <1>2 DEF Checked, KeyedUpdatesSeen, ExecSql, Goes, Wrote, CountAccepted
<1>3. ASSUME NEW t \in Threads, Ends(t)
      PROVE  Checked'
  BY <1>3 DEF Checked, KeyedUpdatesSeen, Ends, Goes, RolledBack, Wrote, CountAccepted
<1>4. ASSUME NEW t \in Threads, Recheck(t), ~Ends(t)
      PROVE  Checked'
  <2>1. own' = own /\ req' = req /\ pc' = [pc EXCEPT ![t] = "count"]
    BY <1>4 DEF Recheck, Goes
  <2>2. \A u \in Threads : Wrote(u)' = Wrote(u)
    BY <2>1 DEF Wrote
  <2> QED
    BY <2>1, <2>2 DEF Checked, KeyedUpdatesSeen, CountAccepted
<1>5. ASSUME NEW t \in Threads, CheckCount(t), ~Ends(t)
      PROVE  Checked'
  <2>1. /\ own' = own /\ req' = req
        /\ CountAccepted(req[t], Cardinality(Wrote(t)))
        /\ pc' = [pc EXCEPT ![t] = IF req[t].op = "update" /\ HasFilter
                                   THEN "visible" ELSE "commit"]
    BY <1>5 DEF CheckCount, Goes
  <2>2. \A u \in Threads : Wrote(u)' = Wrote(u)
    BY <2>1 DEF Wrote
  <2> QED
    BY <2>1, <2>2 DEF Checked, KeyedUpdatesSeen, CountAccepted
<1>6. ASSUME NEW t \in Threads, CheckVisible(t), ~Ends(t)
      PROVE  Checked'
  <2>1. /\ own' = own /\ req' = req /\ pc[t] = "visible" /\ SameCount(t)
        /\ pc' = [pc EXCEPT ![t] = "commit"]
    BY <1>6 DEF CheckVisible, Goes
  <2>2. \A u \in Threads : Wrote(u)' = Wrote(u)
    BY <2>1 DEF Wrote
  <2>3. HasFilter /\ (\E k \in Keys : req[t].select = {k})
            => \A k \in Wrote(t) : own[t][k].visible
    BY <2>1, SameCountOfOne
  <2> QED
    BY <2>1, <2>2, <2>3 DEF Checked, KeyedUpdatesSeen, CountAccepted
<1> QED
  BY <1>0, <1>1, <1>2, <1>3, <1>4, <1>5, <1>6
     DEF Next, Step, SqlRejected, SqlFails, Commit

LEMMA SeenStep ==
    ASSUME IInv, [Next]_vars
    PROVE  Seen'
<1> SUFFICES ASSUME \A r \in Requests : r.op = "update" => \E k \in Keys : r.select = {k}
             PROVE  unseen' = {}
  BY DEF Seen
<1>1. unseen = {}
  BY DEF IInv, Seen
<1>2. ASSUME NEW t \in Threads, Commit(t)
      PROVE  unseen' = {}
  <2>1. pc[t] = "commit" /\ req[t] \in Requests
    BY <1>2 DEF Commit, IInv, Control
  <2>2. HasFilter /\ req[t].op = "update" => \A k \in Wrote(t) : own[t][k].visible
    BY <2>1 DEF IInv, Checked, KeyedUpdatesSeen
  <2> QED
    BY <1>1, <1>2, <2>2 DEF Commit
<1> QED
  BY <1>1, <1>2 DEF Next, Step, vars, Receive, ExecSql, SqlRejected, SqlFails, Recheck,
                    CheckCount, CheckVisible

(* The invariant is inductive. *)
LEMMA StepIInv == IInv /\ [Next]_vars => IInv'
BY TypeStep, ControlStep, FreshStep, CheckedStep, SeenStep DEF IInv

(* What a handler relies on when it commits holds in every reachable state. *)
THEOREM Invariance == Spec => []IInv
<1>1. Init => IInv
  BY InitIInv
<1>2. IInv /\ [Next]_vars => IInv'
  BY StepIInv
<1> QED
  BY <1>1, <1>2, PTL DEF Spec

(* Every variable keeps its type, whatever the relation and the requests. *)
THEOREM TypeCorrect == Spec => []TypeOK
<1>1. IInv => TypeOK
  BY DEF IInv
<1> QED
  BY <1>1, Invariance, PTL

(* "check if row is still visible" (doUpdate) does what it says for an      *)
(* update that selects one row by its key.                                  *)
THEOREM KeyedUpdatesChecked == Spec => []KeyedUpdatesSeen
<1>1. IInv => KeyedUpdatesSeen
  BY DEF IInv, Checked
<1> QED
  BY <1>1, Invariance, PTL

(* When every update selects one row by its key, none that commits hides a  *)
(* row.                                                                     *)
THEOREM KeyedUpdatesStaySeen ==
    ASSUME \A r \in Requests : r.op = "update" => \E k \in Keys : r.select = {k}
    PROVE  Spec => []SeenAfterUpdate
<1>1. IInv => SeenAfterUpdate
  BY DEF IInv, Seen, SeenAfterUpdate
<1> QED
  BY <1>1, Invariance, PTL

-----------------------------------------------------------------------------
LEMMA StoreCardinality ==
    ASSUME NEW S
    PROVE  Store!Cardinality(S) = Cardinality(S)
BY DEF Store!Cardinality, Cardinality

(* A commit writes rows that the request selects at that instant. *)
LEMMA CommitApplies ==
    ASSUME IInv, NEW t \in Threads, Commit(t)
    PROVE  Store!Apply(req[t])
<1> DEFINE r == req[t]
<1>1. r \in Requests /\ r \in Request /\ pc[t] = "commit"
  BY RowRequestsAssumption DEF Commit, IInv, Control
<1>2. ASSUME NEW k \in Wrote(t)
      PROVE  /\ k \in Target(r)
             /\ r.op = "insert" => rows[k] = NoRow
             /\ own[t][k] = NewRow(r, rows[k])
  BY <1>2 DEF IInv, HeldRowsAreFresh
<1>3. Wrote(t) \subseteq Store!Selected(r)
  <2> SUFFICES ASSUME NEW k \in Wrote(t)
               PROVE  k \in Store!Selected(r)
    OBVIOUS
  <2>1. k \in r.select /\ (r.op # "insert" => rows[k] \in Row /\ rows[k] # NoRow)
    BY <1>1, <1>2, TargetRows, RowSentinelsAssumption DEF IInv
  <2>2. CASE r.op = "insert"
    BY <1>2, <2>1, <2>2 DEF Store!Selected
  <2>3. CASE r.op = "update"
    BY <1>2, <2>1, <2>3
       DEF Store!Selected, Store!AsRead, Target, Filtered, LockMatches
  <2>4. CASE r.op = "delete"
    BY <1>2, <2>1, <2>4 DEF Store!Selected, Target, Filtered
  <2> QED
    BY <1>1, <2>2, <2>3, <2>4 DEF Request
<1>4. /\ Cardinality(Wrote(t)) >= r.min /\ Cardinality(Wrote(t)) <= r.max
      /\ r.op = "delete" /\ r.full => Cardinality(Wrote(t)) = 1
  BY <1>1 DEF IInv, Checked, KeyedUpdatesSeen, CountAccepted
<1>5. ASSUME Store!KeepsVisible(r), NEW k \in Wrote(t)
      PROVE  NewRow(r, rows[k]).visible
  <2>1. CASE r.op = "insert"
    BY <1>1, <1>2, <1>5, <2>1, NewRowType DEF Store!KeepsVisible, Target
  <2>2. CASE r.op = "update"
    BY <1>1, <1>2, <1>5, <2>2 DEF Store!KeepsVisible, IInv, Checked, KeyedUpdatesSeen
  <2> QED
    BY <1>5, <2>1, <2>2 DEF Store!KeepsVisible
<1>6. rows' = [k \in Keys |-> IF k \in Wrote(t) THEN NewRow(r, rows[k]) ELSE rows[k]]
  BY <1>2 DEF Commit, View, Wrote
<1>7. Wrote(t) \in SUBSET Store!Selected(r)
  BY <1>3
<1> QED
  BY <1>4, <1>5, <1>6, <1>7, StoreCardinality
     DEF Store!Apply, Store!NewRow, Store!Supplied, NewRow, Supplied

(* A handler decides on its count and on its lock in steps between which    *)
(* others commit: its commit still is one atomic step of RowStore.          *)
THEOREM WritesRefine == Spec => CommitsWhatItSelected
<1>1. Init => Store!Init
  BY TablesAssumption DEF Init, Store!Init, Row, Store!Row
<1>2. IInv /\ [Next]_vars => [Store!Next]_rows
  <2> SUFFICES ASSUME IInv, Next
               PROVE  [Store!Next]_rows
    BY DEF vars
  <2>1. ASSUME NEW t \in Threads, Commit(t)
        PROVE  Store!Next
    <3>1. req[t] \in Requests
      BY <2>1 DEF Commit, IInv, Control
    <3> QED
      BY <2>1, <3>1, CommitApplies DEF Store!Next
  <2>2. ASSUME NEW t \in Threads,
               \/ SqlFails(t) \/ ExecSql(t) \/ SqlRejected(t) \/ Recheck(t)
               \/ CheckCount(t) \/ CheckVisible(t)
               \/ \E r \in Requests : Receive(t, r)
        PROVE  rows' = rows
    BY <2>2 DEF SqlFails, ExecSql, SqlRejected, Recheck, CheckCount, CheckVisible, Receive
  <2> QED
    BY <2>1, <2>2 DEF Next, Step
<1> QED
  BY <1>1, <1>2, Invariance, PTL DEF Spec, CommitsWhatItSelected, Store!Spec
=============================================================================
