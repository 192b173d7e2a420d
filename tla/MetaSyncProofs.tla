--------------------------- MODULE MetaSyncProofs ---------------------------
(***************************************************************************)
(* Theorems about MetaSync, for any set of names, definitions, threads and *)
(* requests, any kind of plugin and any choice of faults.                  *)
(***************************************************************************)
EXTENDS MetaSyncInvariant, TLAPS

(* What a request touches are names, and at least one for a write. *)
LEMMA TouchedNames ==
    ASSUME NEW r \in Request
    PROVE  /\ Touched(r) \subseteq Names
           /\ r.op \in {"insert", "update"} => r.name \in Touched(r)
           /\ r.op \in {"update", "delete"} => r.key \in Touched(r)
           /\ r.op = "readQuery" => Touched(r) = {}
           /\ r.op = "insert" => Touched(r) = {r.name}
           /\ r.op = "update" => Touched(r) = {r.key, r.name}
           /\ r.op = "delete" => Touched(r) = {r.key}
BY DEF Touched, Request

(* Whether a statement applies depends on the rows it touches only. *)
LEMMA ApplicableLocal ==
    ASSUME NEW r \in Request, NEW tab1, NEW tab2,
           \A n \in Touched(r) : tab1[n] = tab2[n],
           Applicable(r, tab1)
    PROVE  Applicable(r, tab2)
BY TouchedNames DEF Applicable

(* A request that applies leaves a table of rows. *)
LEMMA TableAfterType ==
    ASSUME NEW r \in Requests, NEW tab \in [Names -> Row \cup {NoRow}],
           Applicable(r, tab)
    PROVE  TableAfter(r, tab) \in [Names -> Row \cup {NoRow}]
<1>1. r \in Request /\ (r.op = "insert" => r.def # NoDef)
  BY RequestsAssumption
<1>2. ASSUME NEW n \in Names, r.op # "delete", n = r.name, n \in Touched(r)
      PROVE  NewRow(r, tab) \in Row
  <2>1. CASE r.def = NoDef
    <3>1. tab[r.key] \in Row
      BY <1>1, <1>2, <2>1 DEF Applicable, Request
    <3> QED
      BY <1>1, <2>1, <3>1 DEF NewRow, Row, Request
  <2>2. CASE r.def # NoDef
    BY <1>1, <2>2 DEF NewRow, Row, Request
  <2> QED
    BY <2>1, <2>2
<1> QED
  BY <1>2 DEF TableAfter

(* What a transaction may write is a table of rows. *)
LEMMA WrittenType ==
    ASSUME IInv, NEW t \in Threads, pc[t] \in InTransaction
    PROVE  Written(t) \in [Names -> Row \cup {NoRow}]
<1>1. req[t] \in Requests /\ rows \in [Names -> Row \cup {NoRow}]
  BY DEF IInv, Control, TypeOK, InTransaction
<1>2. CASE HasLocks(t) /\ Applicable(req[t], rows)
  BY <1>1, <1>2, TableAfterType DEF Written
<1>3. CASE ~HasLocks(t)
  BY <1>1, <1>3 DEF Written
<1>4. CASE HasLocks(t) /\ \A n \in Names : lock[n] # t
  <2>1. Touched(req[t]) = {}
    BY <1>1, <1>4, TouchedNames, RequestsAssumption DEF HasLocks
  <2> QED
    BY <1>1, <2>1 DEF Written, TableAfter
<1> QED
  BY <1>2, <1>3, <1>4 DEF IInv, Locking

-----------------------------------------------------------------------------
LEMMA InitIInv == Init => IInv
<1> SUFFICES ASSUME Init PROVE IInv
  OBVIOUS
<1>1. TypeOK
  <2>1. epoch \in Epochs /\ served \in 0 .. MaxRequests
    BY BoundsAssumption DEF Init, Epochs
  <2>2. mem \in [Epochs -> [Names -> Entry \cup {NoEntry}]]
    BY DEF Init, EmptyModel
  <2> QED
    BY <2>1, <2>2, TablesAssumption DEF Init, TypeOK, PluginState
<1>2. Control
  BY DEF Init, Control
<1>3. Locking
  BY ConstantsAssumption DEF Init, Locking, InTransaction
<1>4. Loading
  BY ConstantsAssumption, BoundsAssumption DEF Init, Loading, Epochs
<1>5. Following
  BY ConstantsAssumption DEF Init, Following
<1> QED
  BY <1>1, <1>2, <1>3, <1>4, <1>5 DEF IInv

(* The end of a handler, whatever the path it took. *)
LEMMA EndsType ==
    ASSUME TypeOK, NEW t \in Threads, Ends(t)
    PROVE  /\ pc' \in [Threads -> {"idle", "sql", "plugin", "read", "remove",
                                   "validate", "add", "commit", "abandon"}]
           /\ req' \in [Threads -> Requests \cup {NoRequest}]
           /\ plug' \in [Threads -> PluginState]
           /\ old' \in [Threads -> Entry \cup {NoEntry}]
           /\ valid' \in [Threads -> BOOLEAN]
           /\ lock' \in [Names -> Threads \cup {NoOne}]
           /\ conn' \in [Epochs -> Threads \cup {Loader, Closed}]
BY DEF TypeOK, Ends, Goes, Unlocked, CloseConn, PluginState

LEMMA TypeStep ==
    ASSUME IInv, [Next]_vars
    PROVE  TypeOK'
<1> USE DEF IInv
<1>0. CASE UNCHANGED vars
  BY <1>0 DEF TypeOK, vars, table, local, model, loading
<1>1. ASSUME NEW t \in Threads, NEW r \in Requests, Receive(t, r)
      PROVE  TypeOK'
  BY <1>1, BoundsAssumption DEF TypeOK, Receive, Goes, table, model, loading
<1>2. ASSUME NEW t \in Threads, Step(t)
      PROVE  TypeOK'
  <2> USE DEF loading, model, table
  <2>1. CASE ExecSql(t)
    BY <2>1 DEF TypeOK, ExecSql, Goes
  <2>2. CASE SqlRejected(t)
    BY <2>2, EndsType DEF TypeOK, SqlRejected
  <2>3. CASE SqlZeroRows(t)
    BY <2>3 DEF TypeOK, SqlZeroRows, Goes
  <2>4. CASE FetchPlugin(t)
    BY <2>4 DEF TypeOK, FetchPlugin, Goes, CallPlugin, PluginState
  <2>5. CASE FindsNoPlugin(t)
    <3>1. CASE req[t].op = "readQuery"
      BY <2>5, <3>1, EndsType DEF TypeOK, FindsNoPlugin
    <3>2. CASE req[t].op # "readQuery"
      BY <2>5, <3>2 DEF TypeOK, FindsNoPlugin, Goes
    <3> QED
      BY <3>1, <3>2
  <2>6. CASE ReadQuery(t)
    BY <2>6, EndsType DEF TypeOK, ReadQuery
  <2>7. CASE RemoveOld(t)
    <3>1. plug[t] \in Epochs /\ req[t] \in Request
      BY <2>7, RequestsAssumption DEF Control, RemoveOld
    <3>2. mem[plug[t]][req[t].key] \in Entry \cup {NoEntry}
      BY <3>1 DEF TypeOK, Request
    <3>3. mem' \in [Epochs -> [Names -> Entry \cup {NoEntry}]]
      BY <2>7, <3>1 DEF TypeOK, RemoveOld, Without
    <3>4. drift' \subseteq Names
      BY <2>7, <3>1, TouchedNames DEF TypeOK, RemoveOld, Drifts
    <3> QED
      BY <2>7, <3>2, <3>3, <3>4 DEF TypeOK, RemoveOld, Goes
  <2>8. CASE Validate(t)
    <3>1. req[t] \in Request
      BY <2>8, RequestsAssumption DEF Control, Validate
    <3>2. drift' \subseteq Names
      BY <2>8, <3>1, TouchedNames DEF TypeOK, Validate, Drifts
    <3>3. warn' \subseteq Names
      BY <2>8, <3>1 DEF TypeOK, Validate, Warned, Request
    <3>4. Accepted(t) \in BOOLEAN
      BY DEF Accepted, SqlAccepts
    <3> QED
      BY <2>8, <3>2, <3>3, <3>4 DEF TypeOK, Validate, Goes
  <2>9. CASE PluginRejects(t)
    <3>1. plug[t] \in Epochs /\ req[t] \in Request
      BY <2>9, RequestsAssumption DEF Control, PluginRejects
    <3>2. mem' \in [Epochs -> [Names -> Entry \cup {NoEntry}]]
      BY <2>9, <3>1 DEF TypeOK, PluginRejects, Restored
    <3>3. drift' \subseteq Names
      BY <2>9, <3>1 DEF TypeOK, PluginRejects, Drifts, Request
    <3> QED
      BY <2>9, <3>2, <3>3, EndsType DEF TypeOK, PluginRejects
  <2>10. CASE AddNew(t)
    <3>1. plug[t] \in Epochs /\ req[t] \in Request
      BY <2>10, RequestsAssumption DEF Control, AddNew
    <3>2. [def |-> req[t].def, valid |-> valid[t]] \in Entry
      BY <3>1 DEF TypeOK, Entry, Request
    <3>3. mem' \in [Epochs -> [Names -> Entry \cup {NoEntry}]]
      BY <2>10, <3>1, <3>2 DEF TypeOK, AddNew
    <3>4. drift' \subseteq Names
      BY <2>10, <3>1, TouchedNames DEF TypeOK, AddNew, Drifts
    <3> QED
      BY <2>10, <3>3, <3>4 DEF TypeOK, AddNew, Goes
  <2>11. CASE Commit(t)
    <3>1. req[t] \in Requests /\ req[t] \in Request
      BY <2>11, RequestsAssumption DEF Control, Commit
    <3>2. rows' \in [Names -> Row \cup {NoRow}]
      BY <2>11, WrittenType DEF Commit, InTransaction
    <3>3. drift' \subseteq Names
      BY <2>11, <3>1, TouchedNames DEF TypeOK, Commit, Drifts
    <3> QED
      BY <2>11, <3>2, <3>3, EndsType DEF TypeOK, Commit
  <2>12. CASE CommitFails(t)
    <3>1. req[t] \in Request
      BY <2>12, RequestsAssumption DEF Control, CommitFails
    <3> QED
      BY <2>12, <3>1, TouchedNames, EndsType DEF TypeOK, CommitFails, Drifts
  <2>13. CASE Abandon(t)
    <3>1. req[t] \in Request
      BY <2>13, RequestsAssumption DEF Control, Abandon
    <3>2. rows' \in [Names -> Row \cup {NoRow}]
      BY <2>13, WrittenType DEF Abandon, InTransaction, TypeOK
    <3>3. drift' \subseteq Names
      BY <2>13, <3>1, TouchedNames DEF TypeOK, Abandon, Drifts
    <3> QED
      BY <2>13, <3>2, <3>3, EndsType DEF TypeOK, Abandon
  <2> QED
    BY <1>2, <2>1, <2>2, <2>3, <2>4, <2>5, <2>6, <2>7, <2>8, <2>9, <2>10, <2>11,
       <2>12, <2>13 DEF Step
<1>3. CASE Publish
  BY <1>3, BoundsAssumption DEF TypeOK, Publish, Epochs, table, local
<1>4. CASE Load
  <2> USE DEF table, local
  <2>1. CASE ClearPlugins
    BY <2>1 DEF TypeOK, ClearPlugins, PluginState
  <2>2. CASE SelectRows
    BY <2>2 DEF TypeOK, SelectRows, Selected
  <2>3. ASSUME NEW n \in Names, LoadRow(n)
        PROVE  TypeOK'
    <3>1. mem' \in [Epochs -> [Names -> Entry \cup {NoEntry}]]
      <4>1. CASE Keeps(snap[n].def)
        <5>1. snap[n].def \in Defs
          BY <2>3 DEF TypeOK, Loading, LoadRow, Row
        <5>2. [def |-> snap[n].def, valid |-> SqlAccepts(snap[n].def)] \in Entry
          BY <5>1 DEF Entry, SqlAccepts
        <5> QED
          BY <2>3, <4>1, <5>2 DEF TypeOK, LoadRow
      <4>2. CASE ~Keeps(snap[n].def)
        BY <2>3, <4>2 DEF TypeOK, LoadRow
      <4> QED
        BY <4>1, <4>2
    <3> QED
      BY <2>3, <3>1 DEF TypeOK, LoadRow, Warned
  <2>4. CASE LoadFails
    <3>1. mem' \in [Epochs -> [Names -> Entry \cup {NoEntry}]]
      BY <2>4 DEF TypeOK, LoadFails, AfterFailedLoad, EmptyModel
    <3> QED
      BY <2>4, <3>1 DEF TypeOK, LoadFails, ActiveAfterFailure
  <2>5. CASE Activate
    BY <2>5 DEF TypeOK, Activate, PluginState
  <2> QED
    BY <1>4, <2>1, <2>2, <2>3, <2>4, <2>5 DEF Load
<1>5. CASE Crash
  <2>1. epoch' \in Epochs
    BY <1>5, BoundsAssumption DEF TypeOK, Crash, Epochs
  <2>2. /\ lock' \in [Names -> Threads \cup {NoOne}]
        /\ conn' \in [Epochs -> Threads \cup {Loader, Closed}]
        /\ old' \in [Threads -> Entry \cup {NoEntry}]
        /\ req' \in [Threads -> Requests \cup {NoRequest}]
    BY <1>5 DEF Crash
  <2>3. /\ pc' \in [Threads -> {"idle", "sql", "plugin", "read", "remove", "validate",
                                "add", "commit", "abandon"}]
        /\ plug' \in [Threads -> PluginState]
        /\ valid' \in [Threads -> BOOLEAN]
        /\ plugin' \in PluginState
    BY <1>5 DEF Crash, PluginState
  <2> QED
    BY <1>5, <2>1, <2>2, <2>3 DEF TypeOK, Crash
<1> QED
  BY <1>0, <1>1, <1>2, <1>3, <1>4, <1>5 DEF Next

-----------------------------------------------------------------------------
LEMMA ControlStep ==
    ASSUME IInv, [Next]_vars
    PROVE  Control'
<1>0. CASE UNCHANGED local
  BY <1>0 DEF IInv, Control, local
<1>1. ASSUME NEW t \in Threads, NEW r \in Requests, Receive(t, r)
      PROVE  Control'
  BY <1>1 DEF IInv, Control, TypeOK, Receive, Goes, Keeps, SqlAccepts
<1>2. ASSUME NEW t \in Threads, Step(t)
      PROVE  Control'
  <2> USE DEF IInv, Control, TypeOK, Goes, Keeps, SqlAccepts
  <2>1. CASE ExecSql(t)
    BY <2>1 DEF ExecSql
  <2>2. CASE Ends(t)
    BY <2>2 DEF Ends
  <2>3. CASE SqlZeroRows(t)
    BY <2>3 DEF SqlZeroRows
  <2>4. CASE FetchPlugin(t)
    BY <2>4, RequestsAssumption DEF FetchPlugin, CallPlugin, PluginState, Request
  <2>5. CASE FindsNoPlugin(t)
    BY <2>2, <2>5 DEF FindsNoPlugin
  <2>6. CASE RemoveOld(t)
    BY <2>6 DEF RemoveOld
  <2>7. CASE Validate(t)
    BY <2>7 DEF Validate, Accepted
  <2>8. CASE AddNew(t)
    BY <2>8 DEF AddNew
  <2> QED
    BY <1>2, <2>1, <2>2, <2>3, <2>4, <2>5, <2>6, <2>7, <2>8
    DEF Step, SqlRejected, ReadQuery, PluginRejects, Commit, CommitFails, Abandon
<1>3. CASE Crash
  BY <1>3 DEF IInv, Control, Crash
<1> QED
  BY <1>0, <1>1, <1>2, <1>3
  DEF Next, Load, Publish, ClearPlugins, SelectRows, LoadRow, LoadFails, Activate,
      vars

-----------------------------------------------------------------------------
(* The end of a handler releases its rows; its commit changes no row that   *)
(* another thread holds.                                                    *)
LEMMA LockingEnds ==
    ASSUME IInv, NEW t \in Threads, pc[t] # "idle", Ends(t),
           rows' = rows \/ (pc[t] \in InTransaction /\ rows' = Written(t))
    PROVE  Locking'
<1> USE DEF IInv
<1>1. /\ \A u \in Threads \ {t} : pc'[u] = pc[u] /\ req'[u] = req[u]
      /\ pc'[t] = "idle"
      /\ \A n \in Names : lock'[n] = IF lock[n] = t THEN NoOne ELSE lock[n]
  BY DEF TypeOK, Ends, Goes, Unlocked
<1>2. ASSUME NEW n \in Names, lock'[n] # NoOne
      PROVE  pc'[lock'[n]] \in InTransaction /\ n \in Touched(req'[lock'[n]])
  BY <1>1, <1>2 DEF TypeOK, Locking
<1>3. ASSUME NEW u \in Threads, pc'[u] \in InTransaction
      PROVE  \/ HasLocks(u)' /\ Applicable(req'[u], rows')
             \/ req'[u].op \in {"update", "readQuery"} /\ \A n \in Names : lock'[n] # u
  <2>1. u # t /\ pc'[u] = pc[u] /\ req'[u] = req[u]
    BY <1>1, <1>3 DEF InTransaction
  <2>2. req[u] \in Request /\ Touched(req[u]) \subseteq Names
    BY <1>3, <2>1, RequestsAssumption, TouchedNames DEF Control, InTransaction
  <2>3. CASE HasLocks(u) /\ Applicable(req[u], rows)
    <3>1. \A n \in Touched(req[u]) : lock'[n] = u /\ rows'[n] = rows[n]
      BY <1>1, <2>1, <2>2, <2>3 DEF HasLocks, Written, TableAfter
    <3> QED
      BY <2>1, <2>2, <2>3, <3>1, ApplicableLocal DEF HasLocks
  <2>4. CASE req[u].op \in {"update", "readQuery"} /\ \A n \in Names : lock[n] # u
    BY <1>1, <2>1, <2>4, ConstantsAssumption
  <2> QED
    BY <1>3, <2>1, <2>3, <2>4 DEF Locking
<1> QED
  BY <1>2, <1>3 DEF Locking

LEMMA LockingStep ==
    ASSUME IInv, [Next]_vars
    PROVE  Locking'
<1> USE DEF IInv
<1>0. CASE UNCHANGED <<rows, lock, pc, req>>
  BY <1>0 DEF Locking, HasLocks
<1>1. ASSUME NEW t \in Threads, NEW r \in Requests, Receive(t, r)
      PROVE  Locking'
  <2>1. \A n \in Names : lock[n] # t
    BY <1>1, ConstantsAssumption DEF Locking, Receive, InTransaction
  <2>2. \A u \in Threads \ {t} : pc'[u] = pc[u] /\ req'[u] = req[u]
    BY <1>1 DEF TypeOK, Receive, Goes
  <2>3. req'[t] = r /\ pc'[t] = IF r.op = "readQuery" THEN "plugin" ELSE "sql"
    BY <1>1 DEF TypeOK, Receive, Goes
  <2> QED
    BY <1>1, <2>1, <2>2, <2>3 DEF TypeOK, Locking, HasLocks, Receive, table, InTransaction
<1>2. ASSUME NEW t \in Threads, Step(t)
      PROVE  Locking'
  <2>1. CASE ExecSql(t)
    <3>1. Touched(req[t]) \subseteq Names
      BY <2>1, RequestsAssumption, TouchedNames DEF Control, ExecSql
    <3>2. \A n \in Names : lock[n] # t
      BY <2>1, ConstantsAssumption DEF Locking, ExecSql, InTransaction
    <3>3. \A u \in Threads \ {t} : pc'[u] = pc[u]
      BY <2>1 DEF TypeOK, ExecSql, Goes
    <3>4. \A n \in Names :
            lock'[n] = IF n \in Touched(req[t]) THEN t ELSE lock[n]
      BY <2>1 DEF ExecSql
    <3>5. pc'[t] = "plugin" /\ rows' = rows /\ req' = req
      BY <2>1 DEF TypeOK, ExecSql, Goes
    <3>6. \A n \in Touched(req[t]) : lock[n] = NoOne
      BY <2>1 DEF ExecSql, Free
    <3>7. ASSUME NEW u \in Threads, pc'[u] \in InTransaction
          PROVE  \/ HasLocks(u)' /\ Applicable(req'[u], rows')
                 \/ /\ req'[u].op \in {"update", "readQuery"}
                    /\ \A n \in Names : lock'[n] # u
      <4>1. CASE u = t
        BY <2>1, <3>1, <3>4, <3>5, <4>1 DEF ExecSql, HasLocks
      <4>2. CASE u # t
        <5>1. Touched(req[u]) \subseteq Names
          BY <3>3, <3>7, <4>2, RequestsAssumption, TouchedNames DEF Control, InTransaction
        <5> QED
          BY <3>3, <3>4, <3>5, <3>6, <3>7, <4>2, <5>1, ConstantsAssumption
          DEF Locking, HasLocks
      <4> QED
        BY <4>1, <4>2
    <3>8. \A n \in Names : lock'[n] # NoOne =>
            pc'[lock'[n]] \in InTransaction /\ n \in Touched(req'[lock'[n]])
      BY <3>3, <3>4, <3>5 DEF TypeOK, Locking, InTransaction
    <3> QED
      BY <3>7, <3>8 DEF Locking
  <2>2. CASE SqlZeroRows(t)
    <3>1. \A n \in Names : lock[n] # t
      BY <2>2, ConstantsAssumption DEF Locking, SqlZeroRows, InTransaction
    <3> QED
      BY <2>2, <3>1 DEF TypeOK, Locking, HasLocks, SqlZeroRows, ZeroRowsAccepted,
                        Goes, table, InTransaction
  <2>3. CASE Ends(t) /\ (rows' = rows \/ (pc[t] \in InTransaction /\ rows' = Written(t)))
    <3>1. pc[t] # "idle"
      BY <1>2 DEF Step, ExecSql, SqlRejected, SqlZeroRows, FetchPlugin, FindsNoPlugin,
                  ReadQuery, RemoveOld, Validate, PluginRejects, AddNew, Commit,
                  CommitFails, Abandon
    <3> QED
      BY <2>3, <3>1, LockingEnds
  <2>4. CASE /\ pc[t] \in InTransaction /\ UNCHANGED <<rows, lock, req>>
             /\ \E label \in InTransaction : Goes(t, label)
    BY <2>4 DEF TypeOK, Locking, HasLocks, Goes
  <2>5. CASE FetchPlugin(t)
    <3>1. CASE req[t].op = "readQuery"
      <4>1. \A n \in Names : lock[n] # t
        BY <2>5, <3>1, RequestsAssumption, TouchedNames, ConstantsAssumption
        DEF Locking, Control, FetchPlugin
      <4> QED
        BY <2>5, <3>1, <4>1 DEF TypeOK, Locking, HasLocks, FetchPlugin, CallPlugin, Goes,
                                table, InTransaction
    <3>2. CASE req[t].op # "readQuery"
      BY <2>4, <2>5, <3>2 DEF FetchPlugin, CallPlugin, table, InTransaction
    <3> QED
      BY <3>1, <3>2
  <2>6. CASE FindsNoPlugin(t)
    BY <2>3, <2>4, <2>6 DEF FindsNoPlugin, InTransaction
  <2>7. CASE RemoveOld(t)
    BY <2>4, <2>7 DEF RemoveOld, table, InTransaction
  <2>8. CASE Validate(t)
    BY <2>4, <2>8 DEF Validate, table, InTransaction
  <2>9. CASE AddNew(t)
    BY <2>4, <2>9 DEF AddNew, table, InTransaction
  <2> QED
    BY <1>2, <2>1, <2>2, <2>3, <2>5, <2>6, <2>7, <2>8, <2>9
    DEF Step, SqlRejected, ReadQuery, PluginRejects, Commit, CommitFails, Abandon,
        InTransaction
<1>3. CASE Crash
  BY <1>3, ConstantsAssumption DEF Locking, Crash, InTransaction
<1> QED
  BY <1>0, <1>1, <1>2, <1>3
  DEF Next, Load, Publish, ClearPlugins, SelectRows, LoadRow, LoadFails, Activate,
      vars, table, local

-----------------------------------------------------------------------------
LEMMA LoadingStep ==
    ASSUME IInv, [Next]_vars
    PROVE  Loading'
<1> USE DEF IInv
<1>0. CASE UNCHANGED vars
  BY <1>0 DEF Loading, vars, local, model, loading
<1>1. ASSUME NEW t \in Threads, NEW r \in Requests, Receive(t, r)
      PROVE  Loading'
  BY <1>1 DEF Loading, Receive, model, loading
<1>2. ASSUME NEW t \in Threads, Step(t)
      PROVE  Loading'
  <2>1. /\ epoch' = epoch /\ plugin' = plugin /\ UNCHANGED loading
    BY <1>2 DEF Step, ExecSql, SqlRejected, SqlZeroRows, FetchPlugin, FindsNoPlugin,
                ReadQuery, RemoveOld, Validate, PluginRejects, AddNew, Commit,
                CommitFails, Abandon, model
  <2>2. plug' = plug \/ plug' = [plug EXCEPT ![t] = plugin]
                    \/ plug' = [plug EXCEPT ![t] = NoPlugin]
    BY <1>2 DEF Step, ExecSql, SqlRejected, SqlZeroRows, FetchPlugin, FindsNoPlugin,
                ReadQuery, RemoveOld, Validate, PluginRejects, AddNew, Commit,
                CommitFails, Abandon, Ends
  <2>3. epoch \in Nat /\ epoch # NoPlugin
    BY BoundsAssumption, ConstantsAssumption DEF TypeOK, Epochs
  <2>4. \A e \in Epochs : mem'[e] = mem[e] \/ e = plug[t]
    BY <1>2 DEF TypeOK, Step, ExecSql, SqlRejected, SqlZeroRows, FetchPlugin,
                FindsNoPlugin, ReadQuery, RemoveOld, Validate, PluginRejects, AddNew,
                Commit, CommitFails, Abandon, Without, Restored, model
  <2>5. \A e \in Epochs : e > epoch => mem'[e] = mem[e]
    BY <2>3, <2>4, BoundsAssumption, ConstantsAssumption DEF Loading, Epochs
  <2>6. lpc # "off" => mem'[epoch] = mem[epoch]
    BY <2>4 DEF Loading, TypeOK
  <2>7. \A u \in Threads : plug'[u] \in {plug[u], plugin, NoPlugin}
    BY <2>2 DEF TypeOK
  <2> QED
    BY <2>1, <2>3, <2>5, <2>6, <2>7 DEF Loading, loading
<1>3. CASE Publish \/ Crash
  <2>1. epoch \in Nat /\ epoch' = epoch + 1 /\ epoch' \in Epochs /\ epoch' # NoPlugin
    BY <1>3, BoundsAssumption, ConstantsAssumption DEF TypeOK, Publish, Crash, Epochs
  <2>2. plugin \in Nat \cup {NoPlugin} /\ \A t \in Threads : plug[t] \in Nat \cup {NoPlugin}
    BY BoundsAssumption DEF TypeOK, PluginState, Epochs
  <2>3. mem' = mem /\ \A e \in Epochs : e > epoch => mem[e] = EmptyModel
    BY <1>3 DEF Loading, Publish, Crash
  <2>4. mem[epoch'] = EmptyModel /\ \A e \in Epochs : e > epoch' => mem[e] = EmptyModel
    BY <2>1, <2>3, BoundsAssumption DEF Epochs
  <2>5. CASE Publish
    BY <2>1, <2>2, <2>3, <2>4, <2>5 DEF Loading, Publish, local
  <2>6. CASE Crash
    BY <2>1, <2>3, <2>4, <2>6 DEF Loading, Crash
  <2> QED
    BY <1>3, <2>5, <2>6
<1>4. CASE Load
  <2> USE DEF Loading, local
  <2>0. epoch \in Nat /\ epoch \in Epochs /\ epoch # NoPlugin
    BY BoundsAssumption, ConstantsAssumption DEF TypeOK, Epochs
  <2>1. CASE ClearPlugins
    BY <2>0, <2>1 DEF ClearPlugins
  <2>2. CASE SelectRows
    BY <2>0, <2>2 DEF SelectRows, Selected
  <2>3. ASSUME NEW n \in Names, LoadRow(n)
        PROVE  Loading'
    <3>1. \A e \in Epochs : e > epoch => mem'[e] = mem[e]
      BY <2>0, <2>3, BoundsAssumption DEF TypeOK, LoadRow, Epochs
    <3> QED
      BY <2>3, <3>1 DEF LoadRow
  <2>4. CASE LoadFails
    <3>1. \A e \in Epochs : e > epoch => mem'[e] = mem[e]
      BY <2>0, <2>4, BoundsAssumption DEF TypeOK, LoadFails, AfterFailedLoad, Epochs
    <3> QED
      BY <2>4, <3>1 DEF LoadFails, ActiveAfterFailure
  <2>5. CASE Activate
    BY <2>0, <2>5 DEF Activate
  <2> QED
    BY <1>4, <2>1, <2>2, <2>3, <2>4, <2>5 DEF Load
<1> QED
  BY <1>0, <1>1, <1>2, <1>3, <1>4 DEF Next

-----------------------------------------------------------------------------
(* What a handler's step leaves alone. *)
LEMMA StepFrame ==
    ASSUME NEW t \in Threads, Step(t), IInv
    PROVE  /\ UNCHANGED <<epoch, plugin, lpc, snap, todo>>
           /\ drift \subseteq drift'
           /\ \A u \in Threads \ {t} :
                /\ pc'[u] = pc[u] /\ req'[u] = req[u]
                /\ plug'[u] = plug[u] /\ old'[u] = old[u]
           /\ pc[t] # "idle" /\ req[t] \in Request /\ Touched(req[t]) \subseteq Names
<1>1. UNCHANGED <<epoch, plugin, lpc, snap, todo>> /\ drift \subseteq drift'
  BY DEF Step, ExecSql, SqlRejected, SqlZeroRows, FetchPlugin, FindsNoPlugin, ReadQuery,
         RemoveOld, Validate, PluginRejects, AddNew, Commit, CommitFails, Abandon,
         Drifts, model, loading
<1>2. pc[t] # "idle"
  BY DEF Step, ExecSql, SqlRejected, SqlZeroRows, FetchPlugin, FindsNoPlugin, ReadQuery,
         RemoveOld, Validate, PluginRejects, AddNew, Commit, CommitFails, Abandon
<1>3. req[t] \in Request /\ Touched(req[t]) \subseteq Names
  BY <1>2, RequestsAssumption, TouchedNames DEF IInv, Control
<1>4. ASSUME NEW u \in Threads \ {t}
      PROVE  /\ pc'[u] = pc[u] /\ req'[u] = req[u]
             /\ plug'[u] = plug[u] /\ old'[u] = old[u]
  <2>1. CASE Ends(t)
    BY <2>1 DEF IInv, TypeOK, Ends, Goes
  <2>2. CASE ~Ends(t)
    BY <2>2 DEF IInv, TypeOK, Step, ExecSql, SqlRejected, SqlZeroRows, FetchPlugin,
           FindsNoPlugin, ReadQuery, RemoveOld, Validate, PluginRejects, AddNew, Commit,
           CommitFails, Abandon, Goes
  <2> QED
    BY <2>1, <2>2
<1> QED
  BY <1>1, <1>2, <1>3, <1>4

(* A handler's step takes free rows or releases its own. *)
LEMMA StepLocks ==
    ASSUME NEW t \in Threads, Step(t), IInv, NEW n \in Names, lock[n] # t
    PROVE  /\ rows'[n] = rows[n]
           /\ lock'[n] = lock[n]
              \/ /\ lock[n] = NoOne /\ lock'[n] = t
                 /\ plug'[t] = NoPlugin /\ pc'[t] = "plugin" /\ UNCHANGED mem
<1>1. CASE ExecSql(t)
  BY <1>1 DEF IInv, TypeOK, Control, ExecSql, Free, Goes, model
<1>2. CASE Ends(t)
  <2>1. lock'[n] = lock[n]
    BY <1>2 DEF Ends, Unlocked
  <2>2. rows' = rows \/ rows' = Written(t)
    BY <1>2 DEF Step, ExecSql, SqlRejected, SqlZeroRows, FetchPlugin, FindsNoPlugin,
           ReadQuery, RemoveOld, Validate, PluginRejects, AddNew, Commit, CommitFails,
           Abandon, table
  <2>3. Written(t)[n] = rows[n]
    BY DEF Written, HasLocks, TableAfter
  <2> QED
    BY <2>1, <2>2, <2>3
<1>3. CASE ~ExecSql(t) /\ ~Ends(t)
  BY <1>3 DEF Step, SqlRejected, SqlZeroRows, FetchPlugin, FindsNoPlugin,
         ReadQuery, RemoveOld, Validate, PluginRejects, AddNew, Commit, CommitFails,
         Abandon, table
<1> QED
  BY <1>1, <1>2, <1>3

(* A handler's step changes the published model at a name that it holds, or *)
(* at one that it records.                                                  *)
LEMMA StepModel ==
    ASSUME NEW t \in Threads, Step(t), IInv, NEW n \in Names \ drift'
    PROVE  /\ lock[n] # t => mem'[epoch][n] = mem[epoch][n]
           /\ plug[t] # epoch => mem'[epoch][n] = mem[epoch][n]
<1> USE DEF IInv
<1>0. epoch \in Epochs /\ mem \in [Epochs -> [Names -> Entry \cup {NoEntry}]]
  BY DEF TypeOK
<1>1. CASE RemoveOld(t)
  <2>1. plug[t] \in Epochs /\ req[t].key \in Touched(req[t])
    BY <1>1, RequestsAssumption, TouchedNames DEF Control, RemoveOld
  <2>2. mem' = [mem EXCEPT ![plug[t]][req[t].key] = NoEntry]
    BY <1>1 DEF RemoveOld, Without
  <2>3. n = req[t].key => lock[n] = t
    BY <1>1, <2>1 DEF RemoveOld, Drifts, HasLocks
  <2> QED
    BY <1>0, <2>1, <2>2, <2>3
<1>2. CASE AddNew(t)
  <2>1. plug[t] \in Epochs /\ req[t].name \in Touched(req[t])
    BY <1>2, RequestsAssumption, TouchedNames DEF Control, AddNew
  <2>2. n = req[t].name => lock[n] = t
    BY <1>2, <2>1 DEF AddNew, Drifts, HasLocks
  <2> QED
    BY <1>0, <1>2, <2>1, <2>2 DEF AddNew
<1>3. CASE PluginRejects(t)
  <2>1. plug[t] \in Epochs /\ pc[t] = "validate" /\ drift \subseteq drift'
    BY <1>3 DEF Control, PluginRejects, Drifts
  <2>2. CASE plug[t] = epoch /\ req[t].op = "update" /\ n = req[t].key
    <3>1. n \in Touched(req[t])
      BY <2>1, <2>2, RequestsAssumption, TouchedNames DEF Control
    <3> QED
      BY <2>1, <2>2, <3>1 DEF Following, HasLocks
  <2>3. CASE ~(plug[t] = epoch /\ req[t].op = "update" /\ n = req[t].key)
    BY <1>0, <1>3, <2>1, <2>3 DEF PluginRejects, Restored
  <2> QED
    BY <2>2, <2>3, <1>0, <2>1, <1>3 DEF PluginRejects, Restored
<1>4. CASE ~(RemoveOld(t) \/ AddNew(t) \/ PluginRejects(t))
  BY <1>4 DEF Step, ExecSql, SqlRejected, SqlZeroRows, FetchPlugin, FindsNoPlugin,
         ReadQuery, Validate, Commit, CommitFails, Abandon, model
<1> QED
  BY <1>1, <1>2, <1>3, <1>4

(* The row that thread u would leave under a name that it holds is the same *)
(* after a step of another thread.                                          *)
LEMMA PendingFrame ==
    ASSUME NEW t \in Threads, Step(t), IInv, plugin = epoch,
           NEW u \in Threads \ {t}, NEW n \in Names \ drift', lock[n] = u,
           Pending(u, n)
    PROVE  Pending(u, n)'
<1> USE DEF IInv
<1>1. mem'[epoch][n] = mem[epoch][n] /\ rows'[n] = rows[n]
  BY StepModel, StepLocks
<1>2. /\ epoch' = epoch /\ pc'[u] = pc[u] /\ req'[u] = req[u]
      /\ plug'[u] = plug[u] /\ old'[u] = old[u]
  BY StepFrame
<1>3. n \in Touched(req[u]) /\ pc[u] \in InTransaction /\ HasLocks(u)
  BY ConstantsAssumption DEF Locking
<1>4. req[u] \in Request /\ Touched(req[u]) \subseteq Names
  BY <1>3, RequestsAssumption, TouchedNames DEF Control, InTransaction
<1>5. \A k \in Touched(req[u]) : rows'[k] = rows[k]
  BY <1>3, <1>4, StepLocks DEF HasLocks
<1>6. TableAfter(req[u], rows')[n] = TableAfter(req[u], rows)[n]
  <2>1. CASE req[u].op = "update"
    BY <1>1, <1>4, <1>5, <2>1, TouchedNames DEF TableAfter, NewRow
  <2>2. CASE req[u].op # "update"
    <3>1. req[u].op = "insert" => req[u].def # NoDef
      BY <1>3, RequestsAssumption DEF Control, InTransaction
    <3>2. req[u].op \in {"insert", "delete"}
      BY <1>3, <1>4, <2>2, TouchedNames DEF Request
    <3> QED
      BY <1>1, <1>4, <2>2, <3>1, <3>2, TouchedNames DEF TableAfter, NewRow
  <2> QED
    BY <2>1, <2>2
<1> QED
  BY <1>1, <1>2, <1>6 DEF Pending, Matches, DefOfRow, DefOfEntry, Keeps, SqlAccepts

(* A step of the thread that holds a name brings the model on its way, and  *)
(* to the table when it releases the name.                                  *)
LEMMA OwnName ==
    ASSUME NEW t \in Threads, Step(t), IInv, plugin = epoch,
           NEW n \in Names \ drift', lock[n] = t, Pending(t, n)
    PROVE  IF lock'[n] = NoOne THEN Matches(n)' ELSE lock'[n] = t /\ Pending(t, n)'
<1> USE DEF IInv
<1>a. /\ n \in Touched(req[t]) /\ pc[t] \in InTransaction
      /\ HasLocks(t) /\ Applicable(req[t], rows)
  BY ConstantsAssumption DEF Locking
<1>b. /\ req[t] \in Request /\ req[t] \in Requests
      /\ epoch \in Epochs /\ mem \in [Epochs -> [Names -> Entry \cup {NoEntry}]]
      /\ epoch' = epoch /\ epoch # NoPlugin
  <2>1. req[t] \in Request /\ req[t] \in Requests
    BY StepFrame DEF Control
  <2>2. epoch \in Nat
    BY BoundsAssumption DEF TypeOK, Epochs
  <2> QED
    BY <2>1, <2>2, StepFrame, ConstantsAssumption DEF TypeOK
<1>c. t # NoOne /\ lock \in [Names -> Threads \cup {NoOne}]
  BY ConstantsAssumption DEF TypeOK
<1>d. NoEntry \notin Entry
  BY ConstantsAssumption DEF Entry
<1>1. CASE ExecSql(t) \/ SqlRejected(t) \/ SqlZeroRows(t) \/ ReadQuery(t)
  BY <1>1, <1>a DEF ExecSql, SqlRejected, SqlZeroRows, ReadQuery, InTransaction
<1>2. CASE FetchPlugin(t) \/ FindsNoPlugin(t)
  <2>1. FetchPlugin(t) /\ Matches(n)
    BY <1>2, <1>b DEF Control, FindsNoPlugin, FetchPlugin, Pending
  <2>2. Matches(n)' /\ lock'[n] = t
    BY <1>b, <2>1 DEF FetchPlugin, Matches, DefOfRow, DefOfEntry, Keeps, SqlAccepts, table
  <2>3. req' = req /\ pc'[t] \in {"validate", "remove", "abandon"}
        /\ (pc'[t] = "validate" => req[t].op = "insert")
    BY <1>a, <1>b, <2>1, TouchedNames
    DEF TypeOK, FetchPlugin, CallPlugin, Goes
  <2> QED
    BY <1>c, <2>2, <2>3 DEF Pending
<1>3. CASE RemoveOld(t)
  <2>1. Matches(n) /\ lock'[n] = t /\ req' = req /\ rows' = rows /\ plug' = plug
    BY <1>3 DEF Pending, RemoveOld, table
  <2>2. plug[t] \in Epochs
    BY <1>3 DEF Control, RemoveOld
  <2>3. CASE plug[t] # epoch
    BY <1>b, <1>c, <2>1, <2>3, StepModel
    DEF Pending, Matches, DefOfRow, DefOfEntry, Keeps, SqlAccepts
  <2>4. CASE plug[t] = epoch /\ n = req[t].key
    <3>1. mem'[epoch][n] = NoEntry /\ old'[t] = mem[epoch][n]
      BY <1>3, <1>b, <2>4 DEF TypeOK, RemoveOld, Without
    <3>2. CASE req[t].op = "delete"
      <4>1. pc'[t] = "commit" /\ TableAfter(req[t], rows)[n] = NoRow
        BY <1>3, <1>a, <3>2 DEF TypeOK, RemoveOld, Goes, TableAfter
      <4> QED
        BY <1>b, <1>c, <2>1, <2>4, <3>1, <4>1 DEF Pending, DefOfEntry, DefOfRow
    <3>3. CASE req[t].op = "update"
      <4>1. pc'[t] = "validate"
        BY <1>3, <3>3 DEF TypeOK, RemoveOld, Goes
      <4> QED
        BY <1>b, <1>c, <2>1, <2>4, <3>1, <3>3, <4>1
        DEF Pending, Matches, DefOfEntry, DefOfRow, Keeps, SqlAccepts
    <3> QED
      BY <1>3, <3>2, <3>3 DEF Control, RemoveOld
  <2>5. CASE plug[t] = epoch /\ n # req[t].key
    <3>1. mem'[epoch][n] = mem[epoch][n]
      BY <1>3, <1>b, <2>5 DEF RemoveOld, Without
    <3>2. req[t].op = "update" /\ pc'[t] = "validate"
      BY <1>3, <1>a, <1>b, <2>5, TouchedNames DEF TypeOK, Control, RemoveOld, Goes
    <3> QED
      BY <1>b, <1>c, <2>1, <2>5, <3>1, <3>2
      DEF Pending, Matches, DefOfEntry, DefOfRow, Keeps, SqlAccepts
  <2> QED
    BY <2>3, <2>4, <2>5
<1>4. CASE Validate(t)
  <2>1. UNCHANGED <<rows, lock, req, plug, old, epoch, mem>> /\ pc'[t] = "add"
        /\ pc[t] = "validate"
    BY <1>4 DEF TypeOK, Validate, Goes, table
  <2> QED
    BY <1>c, <2>1 DEF Pending, Matches, DefOfEntry, DefOfRow, Keeps, SqlAccepts
<1>5. CASE PluginRejects(t)
  <2>1. lock'[n] = NoOne /\ rows' = rows /\ pc[t] = "validate"
    BY <1>5, <1>c DEF PluginRejects, Ends, Unlocked
  <2>2. CASE plug[t] # epoch
    BY <1>b, <2>1, <2>2, StepModel
    DEF Pending, Matches, DefOfRow, DefOfEntry, Keeps, SqlAccepts
  <2>3. CASE plug[t] = epoch /\ req[t].op = "update" /\ n = req[t].key
    <3>1. mem[epoch][n] = NoEntry /\ DefOfEntry(old[t]) = DefOfRow(rows[n])
      BY <2>1, <2>3 DEF Pending
    <3>2. Kind = "tables"
      BY <1>5, <2>3, KindAssumption DEF PluginRejects, Drifts
    <3>3. mem'[epoch][n] = old[t]
      BY <1>5, <1>b, <2>3, <3>1, <3>2 DEF PluginRejects, Restored
    <3> QED
      BY <1>b, <2>1, <3>1, <3>3 DEF Matches, DefOfRow, DefOfEntry, Keeps, SqlAccepts
  <2>4. CASE plug[t] = epoch /\ ~(req[t].op = "update" /\ n = req[t].key)
    <3>1. mem'[epoch][n] = mem[epoch][n]
      BY <1>5, <1>b, <2>4 DEF PluginRejects, Restored
    <3> QED
      BY <1>b, <2>1, <2>4, <3>1
      DEF Pending, Matches, DefOfRow, DefOfEntry, Keeps, SqlAccepts
  <2> QED
    BY <2>2, <2>3, <2>4
<1>6. CASE AddNew(t)
  <2>1. /\ UNCHANGED <<rows, lock, req, plug, epoch>> /\ pc'[t] = "commit"
        /\ pc[t] = "add"
    BY <1>6 DEF TypeOK, AddNew, Goes, table
  <2>2. CASE plug[t] # epoch
    BY <1>b, <1>c, <2>1, <2>2, StepModel
    DEF Pending, Matches, DefOfRow, DefOfEntry, Keeps, SqlAccepts
  <2>3. CASE plug[t] = epoch /\ n = req[t].name
    <3>1. mem'[epoch][n] = [def |-> req[t].def, valid |-> valid[t]]
      BY <1>6, <1>b, <2>3 DEF AddNew
    <3>2. req[t].def # NoDef /\ ~req[t].disabled /\ Keeps(req[t].def)
      BY <1>6, <1>a, <2>1 DEF AddNew, Drifts, Control
    <3>3. req[t].op # "delete"
      BY <2>1 DEF Control
    <3>4. TableAfter(req[t], rows)[n] = NewRow(req[t], rows)
      BY <1>a, <2>3, <3>3 DEF TableAfter
    <3>5. NewRow(req[t], rows) = [def |-> req[t].def, disabled |-> req[t].disabled]
      BY <3>2 DEF NewRow
    <3>6. NewRow(req[t], rows) \in Row
      BY <1>b, <3>2, <3>5 DEF Request, Row
    <3>7. DefOfRow(TableAfter(req[t], rows)[n]) = req[t].def
      BY <3>2, <3>4, <3>5, <3>6, SentinelsAssumption DEF DefOfRow
    <3>8. [def |-> req[t].def, valid |-> valid[t]] \in Entry
      BY <1>b DEF TypeOK, Entry, Request
    <3>9. DefOfEntry(mem'[epoch][n]) = req[t].def
      BY <1>d, <3>1, <3>8 DEF DefOfEntry
    <3> QED
      BY <1>b, <1>c, <2>1, <2>3, <3>7, <3>9
      DEF Pending, DefOfRow, DefOfEntry, Keeps, SqlAccepts
  <2>4. CASE plug[t] = epoch /\ n # req[t].name
    <3>1. mem'[epoch][n] = mem[epoch][n]
      BY <1>6, <1>b, <2>4 DEF AddNew
    <3>2. req[t].op = "update" /\ n = req[t].key
      BY <1>a, <1>b, <2>1, <2>4, TouchedNames DEF Control
    <3>3. mem[epoch][n] = NoEntry
      BY <2>1, <2>4, <3>2 DEF Pending
    <3>4. TableAfter(req[t], rows)[n] = NoRow
      BY <1>a, <2>4 DEF TableAfter
    <3> QED
      BY <1>b, <1>c, <2>1, <2>4, <3>1, <3>3, <3>4
      DEF Pending, DefOfRow, DefOfEntry
  <2> QED
    BY <2>2, <2>3, <2>4
<1>7. CASE Commit(t)
  <2>1. plug[t] = epoch /\ pc[t] = "commit" /\ mem' = mem
    BY <1>7, <1>a DEF Commit, OnCurrentModel, Drifts
  <2>2. lock'[n] = NoOne /\ rows' = TableAfter(req[t], rows)
    BY <1>7, <1>a, <1>c DEF Commit, Ends, Unlocked, Written
  <2> QED
    BY <1>b, <2>1, <2>2 DEF Pending, Matches, DefOfRow, DefOfEntry, Keeps, SqlAccepts
<1>8. CASE CommitFails(t)
  BY <1>8, <1>a DEF CommitFails, Drifts
<1>9. CASE Abandon(t)
  <2>1. lock'[n] = NoOne /\ rows' = rows /\ mem' = mem /\ pc[t] = "abandon"
    BY <1>9, <1>a, <1>c DEF Abandon, Ends, Unlocked, Drifts
  <2> QED
    BY <1>b, <2>1 DEF Pending, Matches, DefOfRow, DefOfEntry, Keeps, SqlAccepts
<1> HIDE DEF IInv
<1> QED
  BY <1>1, <1>2, <1>3, <1>4, <1>5, <1>6, <1>7, <1>8, <1>9 DEF Step

LEMMA FollowingStep ==
    ASSUME IInv, [Next]_vars
    PROVE  Following'
<1> USE DEF IInv
<1>0. CASE UNCHANGED <<rows, lock, local, epoch, mem, plugin, lpc, snap, todo, drift>>
  BY <1>0 DEF Following, Matches, Pending, HasLocks, local, DefOfRow, DefOfEntry,
              Keeps, SqlAccepts
<1>1. ASSUME NEW t \in Threads, NEW r \in Requests, Receive(t, r)
      PROVE  Following'
  <2>1. \A n \in Names : lock[n] # t
    BY <1>1, ConstantsAssumption DEF Locking, Receive, InTransaction
  <2>2. \A u \in Threads \ {t} : pc'[u] = pc[u] /\ req'[u] = req[u]
    BY <1>1 DEF TypeOK, Receive, Goes
  <2>3. pc'[t] \in {"plugin", "sql"}
    BY <1>1 DEF TypeOK, Receive, Goes
  <2>4. UNCHANGED <<rows, lock, plug, old, epoch, mem, plugin, lpc, snap, todo, drift>>
    BY <1>1 DEF Receive, table, model, loading
  <2>5. ASSUME NEW n \in Names, lock[n] # NoOne
        PROVE  Pending(lock[n], n)' = Pending(lock[n], n)
    BY <2>1, <2>2, <2>4, <2>5
    DEF TypeOK, Pending, Matches, DefOfRow, DefOfEntry, Keeps, SqlAccepts
  <2> QED
    BY <2>1, <2>2, <2>3, <2>4, <2>5
    DEF Following, Matches, HasLocks, DefOfRow, DefOfEntry, Keeps, SqlAccepts
<1>2. ASSUME NEW t \in Threads, Step(t)
      PROVE  Following'
  <2>a. /\ UNCHANGED <<epoch, plugin, lpc, snap, todo>> /\ drift \subseteq drift'
        /\ \A u \in Threads \ {t} : /\ pc'[u] = pc[u] /\ req'[u] = req[u]
                                    /\ plug'[u] = plug[u] /\ old'[u] = old[u]
    BY <1>2, StepFrame
  <2>1. ASSUME lpc = "add", NEW n \in Names \ drift'
        PROVE  rows'[n] = rows[n] /\ mem'[epoch][n] = mem[epoch][n]
    <3>1. plug[t] # epoch
      BY <2>1 DEF Loading
    <3>2. mem'[epoch][n] = mem[epoch][n]
      BY <1>2, <2>1, <3>1, StepModel
    <3>3. rows'[n] = rows[n]
      <4>1. CASE lock[n] # t
        BY <1>2, <2>1, <4>1, StepLocks
      <4>2. CASE lock[n] = t
        <5>1. n \in Touched(req[t])
          BY <2>1, <4>2, ConstantsAssumption DEF Locking
        <5> QED
          BY <1>2, <2>1, <3>1, <5>1
          DEF Step, ExecSql, SqlRejected, SqlZeroRows, FetchPlugin, FindsNoPlugin,
              ReadQuery, RemoveOld, Validate, PluginRejects, AddNew, Commit, CommitFails,
              Abandon, OnCurrentModel, Drifts, table
      <4> QED
        BY <4>1, <4>2
    <3> QED
      BY <3>2, <3>3
  <2>2. ASSUME lpc' = "add", NEW n \in Names \ drift'
        PROVE  /\ snap'[n] = rows'[n]
               /\ IF n \in todo' THEN mem'[epoch'][n] = NoEntry ELSE Matches(n)'
    BY <2>a, <2>1, <2>2 DEF Following, Matches, DefOfRow, DefOfEntry, Keeps, SqlAccepts
  <2>3. ASSUME plugin' = epoch', NEW n \in Names \ drift'
        PROVE  (IF lock[n] = NoOne THEN Matches(n) ELSE Pending(lock[n], n))'
    <3>1. plugin = epoch /\ n \in Names \ drift
      BY <2>a, <2>3
    <3>2. CASE lock[n] = t
      <4>1. Pending(t, n)
        BY <3>1, <3>2, ConstantsAssumption DEF Following
      <4> QED
        BY <1>2, <2>3, <3>1, <3>2, <4>1, OwnName
    <3>3. CASE lock[n] \in Threads \ {t}
      <4>1. Pending(lock[n], n)
        BY <3>1, <3>3, ConstantsAssumption DEF Following
      <4>2. lock'[n] = lock[n]
        BY <1>2, <3>1, <3>3, StepLocks, ConstantsAssumption
      <4> QED
        BY <1>2, <2>3, <3>1, <3>3, <4>1, <4>2, PendingFrame, ConstantsAssumption
    <3>4. CASE lock[n] = NoOne
      <4>1. Matches(n) /\ lock[n] # t
        BY <3>1, <3>4, ConstantsAssumption DEF Following
      <4>2. Matches(n)'
        BY <1>2, <2>a, <2>3, <4>1, StepModel, StepLocks
        DEF Matches, DefOfRow, DefOfEntry, Keeps, SqlAccepts
      <4>3. lock'[n] = NoOne \/ (lock'[n] = t /\ plug'[t] = NoPlugin)
        BY <1>2, <3>1, <3>4, <4>1, StepLocks
      <4>4. NoPlugin # epoch'
        BY <2>a, BoundsAssumption, ConstantsAssumption DEF TypeOK, Epochs
      <4> QED
        BY <4>2, <4>3, <4>4 DEF Pending
    <3> QED
      BY <3>1, <3>2, <3>3, <3>4 DEF TypeOK
  <2>4. ASSUME NEW u \in Threads, pc'[u] \in {"validate", "add"},
               req'[u].op = "update", plug'[u] = epoch', ~HasLocks(u)'
        PROVE  Touched(req'[u]) \subseteq drift'
    <3>1. CASE u # t
      <4>1. Touched(req[u]) \subseteq Names
        BY <2>a, <2>4, <3>1, RequestsAssumption, TouchedNames DEF Control
      <4>2. ~HasLocks(u)
        BY <1>2, <2>a, <2>4, <3>1, <4>1, StepLocks, ConstantsAssumption DEF HasLocks
      <4> QED
        BY <2>a, <2>4, <3>1, <4>2 DEF Following
    <3>2. CASE u = t
      <4>1. CASE RemoveOld(t)
        BY <2>4, <3>2, <4>1 DEF RemoveOld, Drifts, HasLocks, table
      <4>2. CASE Validate(t)
        BY <2>4, <3>2, <4>2 DEF Validate, Drifts, HasLocks, table
      <4>3. CASE FetchPlugin(t)
        BY <2>4, <3>2, <4>3 DEF TypeOK, FetchPlugin, CallPlugin, Goes
      <4>4. CASE ~(RemoveOld(t) \/ Validate(t) \/ FetchPlugin(t))
        BY <1>2, <2>4, <3>2, <4>4
        DEF TypeOK, Step, ExecSql, SqlRejected, SqlZeroRows, FindsNoPlugin, ReadQuery,
            PluginRejects, AddNew, Commit, CommitFails, Abandon, Ends, Goes
      <4> QED
        BY <4>1, <4>2, <4>3, <4>4
    <3> QED
      BY <3>1, <3>2
  <2> QED
    BY <2>2, <2>3, <2>4 DEF Following
<1>3. CASE Publish \/ Crash
  <2>1. lpc' # "add" /\ (lpc' # "off" => plugin' # epoch') /\ lpc' # "off"
        /\ \A t \in Threads : plug'[t] # epoch'
    BY <1>3, LoadingStep DEF Loading, Publish, Crash, Next
  <2> QED
    BY <2>1 DEF Following
<1>4. CASE Load
  <2> USE DEF local
  <2>1. CASE ClearPlugins
    BY <1>4, <2>1, LoadingStep DEF Following, Loading, ClearPlugins, Next
  <2>2. CASE SelectRows
    <3>1. \A n \in Names : mem[epoch][n] = NoEntry
      BY <2>2 DEF Loading, SelectRows, EmptyModel
    <3>2. \A n \in Names \ todo' : Matches(n)'
      BY <2>2, <3>1 DEF SelectRows, Selected, Matches, DefOfRow, DefOfEntry, table
    <3>3. plugin' # epoch' /\ \A t \in Threads : plug'[t] # epoch'
      BY <2>2 DEF Loading, SelectRows
    <3> QED
      BY <2>2, <3>1, <3>2, <3>3 DEF Following, SelectRows, table
  <2>3. ASSUME NEW n \in Names, LoadRow(n)
        PROVE  Following'
    <3>1. plugin' # epoch' /\ \A t \in Threads : plug'[t] # epoch'
      BY <2>3 DEF Loading, LoadRow
    <3>2. epoch \in Epochs /\ mem \in [Epochs -> [Names -> Entry \cup {NoEntry}]]
      BY DEF TypeOK
    <3>3. \A k \in Names \ {n} : mem'[epoch][k] = mem[epoch][k]
      BY <2>3, <3>2 DEF LoadRow
    <3>4. ASSUME n \notin drift
          PROVE  Matches(n)'
      <4>1. /\ snap[n] = rows[n] /\ snap[n] # NoRow /\ ~snap[n].disabled
            /\ mem[epoch][n] = NoEntry /\ snap[n] \in Row
        BY <2>3, <3>4 DEF Following, Loading, LoadRow, TypeOK
      <4>2. CASE Keeps(snap[n].def)
        <5>1. mem'[epoch][n] = [def |-> snap[n].def, valid |-> SqlAccepts(snap[n].def)]
          BY <2>3, <3>2, <4>2 DEF LoadRow
        <5>2. mem'[epoch][n] \in Entry
          BY <4>1, <5>1 DEF Entry, Row, SqlAccepts
        <5>3. DefOfEntry(mem'[epoch][n]) = snap[n].def
          BY <5>1, <5>2, ConstantsAssumption DEF DefOfEntry, Entry
        <5> QED
          BY <2>3, <4>1, <4>2, <5>3
          DEF LoadRow, Matches, DefOfRow, DefOfEntry, Keeps, SqlAccepts, table
      <4>3. CASE ~Keeps(snap[n].def)
        BY <2>3, <4>1, <4>3
        DEF LoadRow, Matches, DefOfRow, DefOfEntry, Keeps, SqlAccepts, table
      <4> QED
        BY <4>2, <4>3
    <3>5. ASSUME NEW k \in Names \ drift, k # n
          PROVE  /\ snap'[k] = rows'[k]
                 /\ IF k \in todo' THEN mem'[epoch'][k] = NoEntry ELSE Matches(k)'
      BY <2>3, <3>3, <3>5
      DEF Following, LoadRow, Matches, DefOfRow, DefOfEntry, Keeps, SqlAccepts, table
    <3> QED
      BY <2>3, <3>1, <3>4, <3>5 DEF Following, LoadRow, table
  <2>4. CASE LoadFails
    <3>1. plugin' # epoch' /\ \A t \in Threads : plug'[t] # epoch'
      BY <2>4 DEF Loading, LoadFails, ActiveAfterFailure
    <3> QED
      BY <2>4, <3>1 DEF Following, LoadFails
  <2>5. CASE Activate
    <3>1. \A t \in Threads : plug[t] # epoch
      BY <2>5 DEF Loading, Activate
    <3>2. \A n \in Names \ drift : Matches(n)
      BY <2>5 DEF Following, Activate
    <3>3. \A n \in Names \ drift : Matches(n)'
      BY <2>5, <3>2 DEF Activate, Matches, DefOfRow, DefOfEntry, Keeps, SqlAccepts, table
    <3> QED
      BY <2>5, <3>1, <3>3 DEF TypeOK, Following, Pending, Activate, table
  <2> QED
    BY <1>4, <2>1, <2>2, <2>3, <2>4, <2>5 DEF Load
<1> QED
  BY <1>0, <1>1, <1>2, <1>3, <1>4
  DEF Next, vars, table, local, model, loading

-----------------------------------------------------------------------------
(* Whether a name's entry is explained depends on the entry, its warning    *)
(* and the thread that holds the name.                                      *)
LEMMA ExplainedSame ==
    ASSUME NEW n \in Names, epoch' = epoch, mem'[epoch][n] = mem[epoch][n],
           n \in warn' <=> n \in warn
    PROVE  Explained(n)' <=> Explained(n)
BY DEF Explained, SqlAccepts

LEMMA ExplainingSame ==
    ASSUME NEW n \in Names, NEW u \in Threads, epoch' = epoch,
           mem'[epoch][n] = mem[epoch][n], n \in warn' <=> n \in warn,
           pc'[u] = pc[u], req'[u] = req[u], plug'[u] = plug[u], valid'[u] = valid[u]
    PROVE  Explaining(u, n)' <=> Explaining(u, n)
BY ExplainedSame DEF Explaining, SqlAccepts

(* A handler's step changes the warning of a name that it holds, or of one  *)
(* that it records, and the outcome of no other thread's validation.        *)
LEMMA StepWarn ==
    ASSUME NEW t \in Threads, Step(t), IInv
    PROVE  /\ \A n \in Names \ drift' : lock[n] # t => (n \in warn' <=> n \in warn)
           /\ \A u \in Threads \ {t} : valid'[u] = valid[u]
<1> USE DEF IInv
<1>1. CASE Validate(t)
  <2>1. req[t].name \in Touched(req[t])
    BY <1>1, RequestsAssumption, TouchedNames DEF Control, Validate
  <2>2. \A n \in Names \ drift' : lock[n] # t => n # req[t].name
    BY <1>1, <2>1 DEF Validate, Drifts, HasLocks
  <2>3. \A u \in Threads \ {t} : valid'[u] = valid[u]
    BY <1>1 DEF TypeOK, Validate
  <2> QED
    BY <1>1, <2>2, <2>3 DEF Validate, Warned
<1>2. CASE ~Validate(t)
  <2>1. warn' = warn
    BY <1>2 DEF Step, ExecSql, SqlRejected, SqlZeroRows, FetchPlugin, FindsNoPlugin,
           ReadQuery, RemoveOld, PluginRejects, AddNew, Commit, CommitFails, Abandon,
           model
  <2>2. CASE Ends(t)
    BY <2>1, <2>2 DEF TypeOK, Ends
  <2>3. CASE ~Ends(t)
    BY <1>2, <2>1, <2>3 DEF Step, ExecSql, SqlRejected, SqlZeroRows, FetchPlugin,
       FindsNoPlugin, ReadQuery, RemoveOld, PluginRejects, AddNew, Commit, CommitFails,
       Abandon
  <2> QED
    BY <2>2, <2>3
<1> QED
  BY <1>1, <1>2

(* A step of the thread that holds a name keeps it explained, or puts the   *)
(* warning before the entry.                                                *)
LEMMA OwnWarning ==
    ASSUME NEW t \in Threads, Step(t), IInv, Kind = "queries",
           NEW n \in Names \ drift', lock[n] = t, Explaining(t, n)
    PROVE  IF lock'[n] = NoOne THEN Explained(n)'
           ELSE lock'[n] = t /\ Explaining(t, n)'
<1> USE DEF IInv
<1>a. n \in Touched(req[t]) /\ pc[t] \in InTransaction /\ HasLocks(t)
  BY ConstantsAssumption DEF Locking
<1>b. /\ req[t] \in Request /\ epoch' = epoch /\ epoch # NoPlugin
      /\ epoch \in Epochs /\ mem \in [Epochs -> [Names -> Entry \cup {NoEntry}]]
  <2>1. epoch \in Nat
    BY BoundsAssumption DEF TypeOK, Epochs
  <2> QED
    BY <2>1, StepFrame, ConstantsAssumption DEF TypeOK
<1>c. t # NoOne /\ lock \in [Names -> Threads \cup {NoOne}]
  BY ConstantsAssumption DEF TypeOK
<1>1. CASE ExecSql(t) \/ SqlRejected(t) \/ SqlZeroRows(t) \/ ReadQuery(t)
  BY <1>1, <1>a DEF ExecSql, SqlRejected, SqlZeroRows, ReadQuery, InTransaction
<1>2. CASE FetchPlugin(t) \/ FindsNoPlugin(t)
  <2>1. Explained(n)
    BY <1>2 DEF FetchPlugin, FindsNoPlugin, Explaining
  <2>2. Explained(n)'
    BY <1>2, <1>b, <2>1, ExplainedSame DEF FetchPlugin, FindsNoPlugin
  <2>3. FetchPlugin(t) => lock'[n] = t /\ pc'[t] # "add"
    BY <1>2 DEF TypeOK, FetchPlugin, CallPlugin, Goes, table
  <2>4. FindsNoPlugin(t) => (lock'[n] = t /\ pc'[t] = "commit") \/ lock'[n] = NoOne
    BY <1>2, <1>c DEF TypeOK, FindsNoPlugin, Goes, Ends, Unlocked
  <2>5. lock'[n] = NoOne \/ (lock'[n] = t /\ pc'[t] # "add")
    BY <1>2, <2>3, <2>4
  <2> QED
    BY <1>c, <2>2, <2>5 DEF Explaining
<1>3. CASE RemoveOld(t)
  <2>1. /\ pc[t] = "remove" /\ pc'[t] \in {"commit", "validate"}
        /\ UNCHANGED <<lock, plug, warn>>
    BY <1>3 DEF TypeOK, RemoveOld, Goes, table
  <2>2. CASE plug[t] # epoch
    BY <1>b, <1>c, <2>1, <2>2 DEF Explaining
  <2>3. CASE plug[t] = epoch
    <3>1. Explained(n)
      BY <2>1, <2>3 DEF Explaining
    <3>2. mem'[epoch][n] = NoEntry \/ mem'[epoch][n] = mem[epoch][n]
      BY <1>3, <1>b, <2>3 DEF RemoveOld, Without
    <3>3. Explained(n)'
      BY <1>b, <2>1, <3>1, <3>2 DEF Explained, SqlAccepts
    <3> QED
      BY <1>c, <2>1, <3>3 DEF Explaining
  <2> QED
    BY <2>2, <2>3
<1>4. CASE Validate(t)
  <2>1. /\ pc[t] = "validate" /\ pc'[t] = "add"
        /\ UNCHANGED <<lock, plug, req, mem, epoch>>
        /\ valid'[t] = Accepted(t)
        /\ warn' = Warned(req[t].name, Accepted(t))
    BY <1>4 DEF TypeOK, Validate, Goes, table
  <2>2. CASE plug[t] # epoch
    BY <1>b, <1>c, <2>1, <2>2 DEF Explaining
  <2>3. CASE plug[t] = epoch /\ n = req[t].name
    <3>1. Accepted(t) => SqlAccepts(req[t].def)
      BY DEF Accepted
    <3>2. ~Accepted(t) => n \in warn'
      BY <2>1, <2>3 DEF Warned
    <3>3. SqlAccepts(req[t].def)' <=> SqlAccepts(req[t].def)
      BY <2>1 DEF SqlAccepts
    <3> QED
      BY <1>c, <2>1, <2>3, <3>1, <3>2, <3>3 DEF Explaining
  <2>4. CASE plug[t] = epoch /\ n # req[t].name
    <3>1. Explained(n)
      BY <2>1, <2>4 DEF Explaining
    <3>2. n \in warn' <=> n \in warn
      BY <2>1, <2>4 DEF Warned
    <3>3. Explained(n)'
      BY <2>1, <3>1, <3>2, ExplainedSame
    <3> QED
      BY <1>c, <2>1, <2>4, <3>3 DEF Explaining
  <2> QED
    BY <2>2, <2>3, <2>4
<1>5. CASE PluginRejects(t)
  BY <1>5 DEF PluginRejects
<1>6. CASE AddNew(t)
  <2>1. /\ pc[t] = "add" /\ pc'[t] = "commit"
        /\ UNCHANGED <<lock, plug, req, warn, epoch>>
    BY <1>6 DEF TypeOK, AddNew, Goes, table
  <2>2. CASE plug[t] # epoch
    BY <1>b, <1>c, <2>1, <2>2 DEF Explaining
  <2>3. CASE plug[t] = epoch /\ n = req[t].name
    <3>1. mem'[epoch][n] = [def |-> req[t].def, valid |-> valid[t]]
      BY <1>6, <1>b, <2>3 DEF AddNew
    <3>2. /\ ~valid[t] => n \in warn
          /\ valid[t] => SqlAccepts(req[t].def)
      BY <2>1, <2>3 DEF Explaining
    <3>3. Explained(n)'
      BY <2>1, <3>1, <3>2 DEF Explained, SqlAccepts
    <3> QED
      BY <1>c, <2>1, <3>3 DEF Explaining
  <2>4. CASE plug[t] = epoch /\ n # req[t].name
    <3>1. mem'[epoch][n] = mem[epoch][n]
      BY <1>6, <1>b, <2>4 DEF AddNew
    <3>2. Explained(n)
      BY <2>4 DEF Explaining
    <3>3. Explained(n)'
      BY <2>1, <3>1, <3>2, ExplainedSame
    <3> QED
      BY <1>c, <2>1, <3>3 DEF Explaining
  <2> QED
    BY <2>2, <2>3, <2>4
<1>7. CASE Commit(t) \/ CommitFails(t) \/ Abandon(t)
  <2>1. Explained(n) /\ UNCHANGED <<mem, warn>>
    BY <1>7, <1>a DEF Commit, CommitFails, Abandon, Drifts, OnCurrentModel, Explaining
  <2>2. lock'[n] = NoOne
    BY <1>7, <1>c DEF Commit, CommitFails, Abandon, Ends, Unlocked
  <2> QED
    BY <1>b, <2>1, <2>2, ExplainedSame
<1> HIDE DEF IInv
<1> QED
  BY <1>1, <1>2, <1>3, <1>4, <1>5, <1>6, <1>7 DEF Step

LEMMA WarningStep ==
    ASSUME IInv, Warning, [Next]_vars
    PROVE  Warning'
<1> USE DEF IInv
<1>0. CASE /\ UNCHANGED <<lock, epoch, mem, warn, drift, pc, req, plug, valid>>
           /\ lpc' = "add" \/ plugin' = epoch' => lpc = "add" \/ plugin = epoch
  <2>1. \A n \in Names : /\ Explained(n)' <=> Explained(n)
                         /\ \A u \in Threads : Explaining(u, n)' <=> Explaining(u, n)
    BY <1>0, ExplainedSame, ExplainingSame
  <2> QED
    BY <1>0, <2>1 DEF Warning, TypeOK
<1>1. ASSUME NEW t \in Threads, NEW r \in Requests, Receive(t, r)
      PROVE  Warning'
  <2>1. \A n \in Names : lock[n] # t
    BY <1>1, ConstantsAssumption DEF Locking, Receive, InTransaction
  <2>2. \A u \in Threads \ {t} : pc'[u] = pc[u] /\ req'[u] = req[u]
    BY <1>1 DEF TypeOK, Receive, Goes
  <2>3. UNCHANGED <<lock, plug, valid, epoch, mem, warn, plugin, lpc, drift>>
    BY <1>1 DEF Receive, table, model, loading
  <2>4. \A n \in Names : /\ Explained(n)' <=> Explained(n)
                         /\ \A u \in Threads \ {t} :
                              Explaining(u, n)' <=> Explaining(u, n)
    BY <2>2, <2>3, ExplainedSame, ExplainingSame
  <2> QED
    BY <2>1, <2>3, <2>4 DEF Warning, TypeOK
<1>2. ASSUME NEW t \in Threads, Step(t)
      PROVE  Warning'
  <2>1. SUFFICES ASSUME Kind = "queries", lpc' = "add" \/ plugin' = epoch',
                        NEW n \in Names \ drift'
                 PROVE  IF lock'[n] = NoOne THEN Explained(n)'
                        ELSE Explaining(lock[n], n)'
    BY DEF Warning
  <2>2. /\ UNCHANGED <<epoch, plugin, lpc>> /\ drift \subseteq drift'
        /\ \A u \in Threads \ {t} : /\ pc'[u] = pc[u] /\ req'[u] = req[u]
                                    /\ plug'[u] = plug[u] /\ valid'[u] = valid[u]
    BY <1>2, StepFrame, StepWarn
  <2>3. IF lock[n] = NoOne THEN Explained(n) ELSE Explaining(lock[n], n)
    BY <2>1, <2>2 DEF Warning
  <2>4. t # NoOne /\ lock[n] \in Threads \cup {NoOne}
    BY ConstantsAssumption DEF TypeOK
  <2>5. CASE lock[n] = t
    BY <1>2, <2>1, <2>3, <2>4, <2>5, OwnWarning
  <2>6. CASE lock[n] # t
    <3>1. mem'[epoch][n] = mem[epoch][n] /\ (n \in warn' <=> n \in warn)
      BY <1>2, <2>6, StepModel, StepWarn
    <3>2. Explained(n)' <=> Explained(n)
      BY <2>2, <3>1, ExplainedSame
    <3>3. lock'[n] = lock[n] \/ (lock[n] = NoOne /\ lock'[n] = t /\ pc'[t] = "plugin")
      BY <1>2, <2>6, StepLocks
    <3>4. CASE lock[n] = NoOne
      BY <2>3, <2>4, <3>2, <3>3, <3>4 DEF Explaining
    <3>5. CASE lock[n] # NoOne
      <4>1. lock[n] \in Threads \ {t} /\ lock'[n] = lock[n]
        BY <2>4, <2>6, <3>3, <3>5
      <4>2. Explaining(lock[n], n)' <=> Explaining(lock[n], n)
        <5> DEFINE u == lock[n]
        <5>1. ASSUME NEW v \in Threads \ {t}
              PROVE  Explaining(v, n)' <=> Explaining(v, n)
          BY <2>2, <3>1, ExplainingSame
        <5> QED
          BY <4>1, <5>1
      <4> QED
        BY <2>3, <3>5, <4>1, <4>2
    <3> QED
      BY <3>4, <3>5
  <2> QED
    BY <2>5, <2>6
<1>3. CASE Publish \/ Crash \/ ClearPlugins \/ LoadFails
  <2>1. lpc' # "add" /\ plugin' # epoch'
    <3>1. CASE Publish \/ Crash \/ ClearPlugins
      BY <1>3, <3>1, LoadingStep DEF Loading, Publish, Crash, ClearPlugins
    <3>2. CASE LoadFails
      BY <3>2 DEF Loading, LoadFails, ActiveAfterFailure
    <3> QED
      BY <1>3, <3>1, <3>2
  <2> QED
    BY <2>1 DEF Warning
<1>4. CASE SelectRows
  <2>1. \A n \in Names : mem'[epoch'][n] = NoEntry
    BY <1>4 DEF Loading, SelectRows, EmptyModel
  <2>2. \A u \in Threads : plug'[u] # epoch'
    BY <1>4 DEF Loading, SelectRows, local
  <2>3. \A n \in Names : /\ Explained(n)'
                         /\ \A u \in Threads : Explaining(u, n)'
    BY <2>1, <2>2 DEF Explaining, Explained
  <2>4. \A n \in Names : lock'[n] \in Threads \cup {NoOne}
    BY <1>4 DEF SelectRows, TypeOK, table
  <2> QED
    BY <2>3, <2>4 DEF Warning
<1>5. ASSUME NEW k \in Names, LoadRow(k)
      PROVE  Warning'
  <2>1. SUFFICES ASSUME Kind = "queries", NEW n \in Names \ drift
                 PROVE  IF lock[n] = NoOne THEN Explained(n)'
                        ELSE Explaining(lock[n], n)'
    BY <1>5 DEF Warning, LoadRow, table
  <2>2. /\ UNCHANGED <<lock, pc, req, plug, valid, epoch>> /\ lpc = "add"
        /\ epoch \in Epochs /\ mem \in [Epochs -> [Names -> Entry \cup {NoEntry}]]
    BY <1>5 DEF LoadRow, TypeOK, table, local
  <2>3. IF lock[n] = NoOne THEN Explained(n) ELSE Explaining(lock[n], n)
    BY <2>1, <2>2 DEF Warning
  <2>4. \A u \in Threads : plug[u] # epoch
    BY <2>2 DEF Loading
  <2>5. lock[n] \in Threads \cup {NoOne}
    BY DEF TypeOK
  <2>6. CASE n = k
    <3>1. mem'[epoch][n] = [def |-> snap[n].def, valid |-> SqlAccepts(snap[n].def)]
      BY <1>5, <2>1, <2>2, <2>6 DEF LoadRow, Keeps
    <3>2. ~SqlAccepts(snap[n].def) => n \in warn'
      BY <1>5, <2>6 DEF LoadRow, Warned
    <3>3. Explained(n)'
      <4> DEFINE ok == SqlAccepts(snap[n].def)
      <4>1. ok \in BOOLEAN /\ (ok <=> snap[n].def \in ValidDefs)
        BY DEF SqlAccepts
      <4>2. mem'[epoch][n] = [def |-> snap[n].def, valid |-> ok]
        BY <3>1
      <4>3. ~ok => n \in warn'
        BY <3>2
      <4> HIDE DEF ok
      <4>4. mem'[epoch][n].def = snap[n].def /\ mem'[epoch][n].valid = ok
        BY <4>2
      <4> QED
        BY <2>2, <4>1, <4>3, <4>4 DEF Explained, SqlAccepts
    <3>4. \A u \in Threads : Explaining(u, n)'
      BY <2>2, <2>4, <3>3 DEF Explaining
    <3> QED
      BY <2>2, <2>5, <3>3, <3>4
  <2>7. CASE n # k
    <3>1. mem'[epoch][n] = mem[epoch][n] /\ (n \in warn' <=> n \in warn)
      BY <1>5, <2>2, <2>7 DEF LoadRow, Warned
    <3>2. Explained(n)' <=> Explained(n)
      BY <2>2, <3>1, ExplainedSame
    <3>3. \A u \in Threads : Explaining(u, n)' <=> Explaining(u, n)
      BY <2>2, <3>1, ExplainingSame
    <3> QED
      BY <2>2, <2>3, <2>5, <3>2, <3>3
  <2> QED
    BY <2>6, <2>7
<1>6. CASE Activate \/ UNCHANGED vars
  <2>1. UNCHANGED <<lock, epoch, mem, warn, drift, pc, req, plug, valid>>
    BY <1>6 DEF Activate, vars, table, local, model
  <2>2. lpc' = "add" \/ plugin' = epoch' => lpc = "add" \/ plugin = epoch
    BY <1>6 DEF Activate, vars, model, loading
  <2> QED
    BY <1>0, <2>1, <2>2
<1> QED
  BY <1>1, <1>2, <1>3, <1>4, <1>5, <1>6 DEF Next, Load

-----------------------------------------------------------------------------
THEOREM Invariance == Spec => []IInv
<1>1. Init => IInv
  BY InitIInv
<1>2. IInv /\ [Next]_vars => IInv'
  BY TypeStep, ControlStep, LockingStep, LoadingStep, FollowingStep DEF IInv
<1> QED
  BY <1>1, <1>2, PTL DEF Spec

(* Whatever the requests, the faults and the interleaving, every variable   *)
(* keeps to its type: no partial update writes a row without a definition.  *)
THEOREM TypeCorrect == Spec => []TypeOK
<1>1. IInv => TypeOK
  BY DEF IInv
<1> QED
  BY <1>1, Invariance, PTL

(* The published model of QueryOn says of every free row that no recorded   *)
(* cause has hit what the table says of it.                                 *)
THEOREM FollowsTable == Spec => []ModelFollowsTable
<1>1. IInv => ModelFollowsTable
  BY DEF IInv, Following, ModelFollowsTable, Steady, Matches
<1> QED
  BY <1>1, Invariance, PTL

(* A query shown as invalid has a warning, one shown as valid was accepted  *)
(* by the database: the entry, its flag and the warning come from one       *)
(* validation, whichever plugins run at the same time (addQueryToModel).    *)
THEOREM WarningsFollow == Spec => []InvalidHasWarning
<1>1. Init => Warning
  <2>1. Init => lpc # "add" /\ plugin # epoch
    BY ConstantsAssumption DEF Init
  <2> QED
    BY <2>1 DEF Warning
<1>2. IInv /\ Warning /\ [Next]_vars => Warning'
  BY WarningStep
<1>3. Warning => InvalidHasWarning
  BY DEF Warning, InvalidHasWarning, Steady, Explained
<1> QED
  BY <1>1, <1>2, <1>3, Invariance, PTL DEF Spec

(* After a load of the queries that failed, no handler still running with   *)
(* the plugin of an older model adds an entry to the published one.         *)
THEOREM FailedLoadIsEmpty == Spec => []FailedLoadLeavesNothing
<1>1. Init => FailedLoadLeavesNothing
  BY DEF Init, FailedLoadLeavesNothing
<1>2. IInv /\ FailedLoadLeavesNothing /\ [Next]_vars => FailedLoadLeavesNothing'
  <2> SUFFICES ASSUME IInv, FailedLoadLeavesNothing, [Next]_vars,
                      Kind = "queries", lpc' = "off", plugin' = NoPlugin
               PROVE  mem'[epoch'] = EmptyModel
    BY DEF FailedLoadLeavesNothing
  <2>a. /\ epoch \in Epochs /\ epoch # NoPlugin
        /\ mem \in [Epochs -> [Names -> Entry \cup {NoEntry}]]
    BY BoundsAssumption, ConstantsAssumption DEF IInv, TypeOK, Epochs
  <2>1. ASSUME NEW t \in Threads, Step(t)
        PROVE  mem'[epoch'] = EmptyModel
    <3>1. UNCHANGED <<epoch, plugin, lpc>>
      BY <2>1, StepFrame
    <3>2. mem[epoch] = EmptyModel /\ plug[t] # epoch
      BY <3>1, <2>a DEF IInv, Loading, FailedLoadLeavesNothing
    <3>3. mem'[epoch] = mem[epoch]
      BY <2>1, <2>a, <3>2
      DEF Step, ExecSql, SqlRejected, SqlZeroRows, FetchPlugin, FindsNoPlugin, ReadQuery,
          RemoveOld, Validate, PluginRejects, AddNew, Commit, CommitFails, Abandon,
          Without, Restored, model
    <3> QED
      BY <3>1, <3>2, <3>3
  <2>2. CASE LoadFails
    BY <2>2, <2>a DEF LoadFails, AfterFailedLoad
  <2>3. CASE ~LoadFails /\ ~\E t \in Threads : Step(t)
    BY <2>3, <2>a
    DEF FailedLoadLeavesNothing, Next, Receive, Publish, Load, ClearPlugins, SelectRows,
        LoadRow, Activate, Crash, vars, model, loading
  <2> QED
    BY <2>1, <2>2, <2>3
<1> QED
  BY <1>1, <1>2, Invariance, PTL DEF Spec

(* The write handlers implement the atomic table: each commit is one        *)
(* request that was applicable, every other step leaves the table alone.    *)
THEOREM TableRefines == Spec => TableIsAtomic
<1>1. Init => Store!Init
  BY TablesAssumption DEF Init, Store!Init, Row, Store!Row
<1>2. IInv /\ [Next]_vars => [Store!Next]_rows
  <2> SUFFICES ASSUME IInv, [Next]_vars, rows' # rows
               PROVE  Store!Next
    OBVIOUS
  <2>1. PICK t \in Threads : Step(t) /\ rows' = Written(t) /\ pc[t] \in InTransaction
    BY DEF Next, Load, Publish, ClearPlugins, SelectRows, LoadRow, LoadFails, Activate,
           Crash, Receive, Step, ExecSql, SqlRejected, SqlZeroRows, FetchPlugin,
           FindsNoPlugin, ReadQuery, RemoveOld, Validate, PluginRejects, AddNew, Commit,
           CommitFails, Abandon, vars, table, InTransaction
  <2>2. HasLocks(t) /\ rows' = TableAfter(req[t], rows)
    BY <2>1 DEF Written
  <2>3. req[t] \in Requests
    BY <2>1 DEF IInv, Control, InTransaction
  <2>4. Touched(req[t]) # {}
    BY <2>2, <2>3 DEF IInv, TypeOK, TableAfter
  <2>5. Applicable(req[t], rows)
    BY <2>1, <2>2, <2>3, <2>4, RequestsAssumption, TouchedNames
    DEF IInv, Locking, HasLocks
  <2> QED
    BY <2>2, <2>3, <2>5 DEF Store!Next, Store!Apply, Store!Applicable, Store!TableAfter,
       Applicable, TableAfter, Store!Touched, Store!NewRow, Touched, NewRow
<1> QED
  BY <1>1, <1>2, Invariance, PTL DEF Spec, TableIsAtomic, Store!Spec
-----------------------------------------------------------------------------
(* A handler's step keeps the rows that another thread holds with it. *)
LEMMA StepKeepsHeld ==
    ASSUME NEW t \in Threads, Step(t), IInv,
           NEW u \in Threads \ {t}, pc[u] # "idle", HasLocks(u)
    PROVE  HasLocks(u)'
<1>1. u # NoOne /\ req'[u] = req[u]
  BY StepFrame, ConstantsAssumption
<1>2. Touched(req[u]) \subseteq Names
  BY TouchedNames, RequestsAssumption DEF IInv, Control
<1>3. ASSUME NEW n \in Names, lock[n] = u
      PROVE  lock'[n] = u
  BY <1>1, <1>3, StepLocks
<1> QED
  BY <1>1, <1>2, <1>3 DEF HasLocks

(* Whole requests take no path that drifts, and hold their rows on the      *)
(* others.                                                                  *)
LEMMA CalmOwn ==
    ASSUME NEW t \in Threads, Step(t), IInv, Calm, Undisturbed
    PROVE  /\ pc'[t] \in InTransaction /\ req'[t].op # "readQuery" => HasLocks(t)'
           /\ plugin = epoch =>
                /\ drift' = drift
                /\ pc'[t] # "abandon"
                /\ pc'[t] \in {"remove", "validate", "add", "commit"} => plug'[t] = epoch
<1> USE DEF IInv
<1>0. /\ pc[t] # "idle" /\ req[t] \in Requests /\ Whole(req[t]) /\ req[t] \in Request
  BY RequestsAssumption DEF Step, ExecSql, SqlRejected, SqlZeroRows, FetchPlugin,
     FindsNoPlugin, ReadQuery, RemoveOld, Validate, PluginRejects, AddNew, Commit,
     CommitFails, Abandon, Control, Undisturbed
<1>1. CASE ExecSql(t)
  <2>1. HasLocks(t)'
    BY <1>0, <1>1, TouchedNames DEF ExecSql, HasLocks
  <2>2. pc'[t] = "plugin" /\ drift' = drift
    BY <1>1 DEF ExecSql, Goes, TypeOK
  <2> QED
    BY <2>1, <2>2
<1>2. CASE SqlZeroRows(t)
  BY <1>0, <1>2 DEF SqlZeroRows, ZeroRowsAccepted, Whole
<1>3. CASE FetchPlugin(t)
  <2>1. pc'[t] = CallPlugin(req[t]) /\ plug'[t] = plugin /\ UNCHANGED <<lock, req, drift>>
    BY <1>3 DEF FetchPlugin, Goes, TypeOK, table
  <2>2. pc'[t] # "abandon"
    BY <1>0, <2>1 DEF CallPlugin, Whole, Request
  <2>3. req[t].op # "readQuery" => HasLocks(t)
    BY <1>3 DEF FetchPlugin, Calm, InTransaction
  <2> QED
    BY <2>1, <2>2, <2>3 DEF HasLocks
<1>4. CASE FindsNoPlugin(t)
  <2>1. plugin # epoch
    BY <1>4, ConstantsAssumption DEF FindsNoPlugin, TypeOK, Epochs
  <2>2. CASE Ends(t)
    BY <2>1, <2>2, <1>0 DEF Ends, Goes, TypeOK, InTransaction
  <2>3. CASE ~Ends(t)
    <3>1. req[t].op # "readQuery" => HasLocks(t)
      BY <1>4 DEF FindsNoPlugin, Calm, InTransaction
    <3>2. UNCHANGED <<lock, req>>
      BY <1>4, <2>3 DEF FindsNoPlugin
    <3> QED
      BY <2>1, <3>1, <3>2 DEF HasLocks
  <2> QED
    BY <2>2, <2>3
<1>5. CASE RemoveOld(t)
  <2>1. HasLocks(t) /\ UNCHANGED <<lock, req, plug>> /\ pc'[t] \in {"commit", "validate"}
    BY <1>5, <1>0 DEF RemoveOld, Calm, InTransaction, Goes, TypeOK, Control, table
  <2>2. drift' = drift
    BY <1>5, <2>1 DEF RemoveOld, Drifts
  <2>3. plugin = epoch => plug[t] = epoch
    BY <1>5 DEF RemoveOld, Calm
  <2> QED
    BY <2>1, <2>2, <2>3 DEF HasLocks
<1>6. CASE Validate(t)
  <2>1. HasLocks(t) /\ UNCHANGED <<lock, req, plug>> /\ pc'[t] = "add"
    BY <1>6, <1>0 DEF Validate, Calm, InTransaction, Goes, TypeOK, Control, table
  <2>2. drift' = drift
    BY <1>6, <2>1 DEF Validate, Drifts
  <2>3. plugin = epoch => plug[t] = epoch
    BY <1>6 DEF Validate, Calm
  <2> QED
    BY <2>1, <2>2, <2>3 DEF HasLocks
<1>7. CASE AddNew(t)
  <2>1. HasLocks(t) /\ UNCHANGED <<lock, req, plug>> /\ pc'[t] = "commit"
    BY <1>7, <1>0 DEF AddNew, Calm, InTransaction, Goes, TypeOK, Control, table
  <2>2. req[t].def # NoDef /\ ~req[t].disabled
    BY <1>7, <1>0 DEF AddNew, Control, Whole
  <2>3. drift' = drift
    BY <1>7, <2>1, <2>2 DEF AddNew, Drifts
  <2>4. plugin = epoch => plug[t] = epoch
    BY <1>7 DEF AddNew, Calm
  <2> QED
    BY <2>1, <2>3, <2>4 DEF HasLocks
<1>8. CASE SqlRejected(t) \/ ReadQuery(t) \/ PluginRejects(t) \/ Commit(t)
           \/ CommitFails(t) \/ Abandon(t)
  <2>1. Ends(t)
    BY <1>8 DEF SqlRejected, ReadQuery, PluginRejects, Commit, CommitFails, Abandon
  <2>2. pc'[t] = "idle"
    BY <2>1 DEF Ends, Goes, TypeOK
  <2>3. ASSUME plugin = epoch
        PROVE  drift' = drift
    <3>1. CASE SqlRejected(t) \/ ReadQuery(t)
      BY <3>1 DEF SqlRejected, ReadQuery
    <3>2. CASE PluginRejects(t)
      BY <3>2 DEF PluginRejects, Drifts, Undisturbed
    <3>3. CASE Commit(t)
      BY <2>3, <3>3 DEF Commit, Drifts, OnCurrentModel, Calm
    <3>4. CASE CommitFails(t) \/ Abandon(t)
      BY <2>3, <3>4 DEF CommitFails, Abandon, Undisturbed, Calm
    <3> QED
      BY <1>8, <3>1, <3>2, <3>3, <3>4
  <2> QED
    BY <2>2, <2>3 DEF InTransaction
<1> QED
  BY <1>1, <1>2, <1>3, <1>4, <1>5, <1>6, <1>7, <1>8 DEF Step

LEMMA CalmInit == Init => Calm
<1> SUFFICES ASSUME Init PROVE Calm
  OBVIOUS
<1>1. plugin # epoch
  BY ConstantsAssumption DEF Init
<1> QED
  BY <1>1 DEF Init, Calm, InTransaction

LEMMA CalmStep ==
    ASSUME IInv, Calm, Undisturbed, [Next]_vars, ~Publish
    PROVE  Calm'
<1> USE DEF IInv
<1>0. CASE UNCHANGED vars
  BY <1>0 DEF vars, table, local, model, loading, Calm, HasLocks
<1>1. ASSUME NEW t \in Threads, NEW r \in Requests, Receive(t, r)
      PROVE  Calm'
  <2>1. /\ UNCHANGED <<lock, plug, epoch, plugin, up, lpc, drift>> /\ up
        /\ pc'[t] \in {"plugin", "sql"} /\ (pc'[t] = "plugin" => req'[t].op = "readQuery")
        /\ \A u \in Threads \ {t} : pc'[u] = pc[u] /\ req'[u] = req[u]
    BY <1>1 DEF Receive, Goes, TypeOK, table, model, loading
  <2>2. \A u \in Threads \ {t} :
          pc'[u] \in InTransaction /\ req'[u].op # "readQuery" => HasLocks(u)'
    BY <2>1 DEF Calm, HasLocks
  <2>3. pc'[t] \in InTransaction => req'[t].op = "readQuery"
    BY <2>1 DEF InTransaction
  <2> QED
    BY <2>1, <2>2, <2>3 DEF Calm
<1>2. ASSUME NEW t \in Threads, Step(t)
      PROVE  Calm'
  <2>1. /\ UNCHANGED <<epoch, plugin, lpc, up>> /\ pc[t] # "idle"
        /\ \A u \in Threads \ {t} : pc'[u] = pc[u] /\ req'[u] = req[u] /\ plug'[u] = plug[u]
    <3>1. UNCHANGED up
      BY <1>2 DEF Step, ExecSql, SqlRejected, SqlZeroRows, FetchPlugin, FindsNoPlugin,
         ReadQuery, RemoveOld, Validate, PluginRejects, AddNew, Commit, CommitFails,
         Abandon, loading
    <3> QED
      BY <1>2, <3>1, StepFrame
  <2>2. up /\ lpc = "off"
    BY <2>1 DEF Calm, TypeOK
  <2>3. \A u \in Threads \ {t} :
          pc'[u] \in InTransaction /\ req'[u].op # "readQuery" => HasLocks(u)'
    BY <1>2, <2>1, StepKeepsHeld DEF Calm, InTransaction
  <2>4. plugin = epoch => drift' = {}
    BY <1>2, CalmOwn DEF Calm
  <2>5. \A u \in Threads \ {t} : plugin = epoch =>
          /\ pc'[u] # "abandon"
          /\ pc'[u] \in {"remove", "validate", "add", "commit"} => plug'[u] = epoch
    BY <2>1 DEF Calm
  <2> QED
    BY <1>2, <2>1, <2>2, <2>3, <2>4, <2>5, CalmOwn DEF Calm
<1>3. CASE Load
  <2>1. /\ UNCHANGED <<lock, pc, req, plug, epoch>> /\ lpc # "off"
        /\ lpc' \in {"off", "select", "add"} /\ (lpc' = "off" <=> up')
        /\ lpc' = "add" => drift' = {}
        /\ lpc' = "off" => UNCHANGED drift
    BY <1>3 DEF Load, ClearPlugins, SelectRows, LoadRow, LoadFails, Activate, table,
       local, Calm
  <2>2. \A u \in Threads : pc'[u] = "idle"
    BY <2>1 DEF Calm
  <2>3. plugin' = epoch' => drift' = {}
    <3>1. plugin # epoch
      BY <2>1 DEF Loading
    <3>2. CASE Activate
      BY <3>2 DEF Activate, Calm
    <3>3. CASE ClearPlugins
      BY <2>1, <3>3, ConstantsAssumption DEF ClearPlugins, TypeOK, Epochs
    <3>4. CASE SelectRows \/ (\E n \in Names : LoadRow(n)) \/ LoadFails
      BY <3>1, <3>4 DEF SelectRows, LoadRow, LoadFails, ActiveAfterFailure
    <3> QED
      BY <1>3, <3>2, <3>3, <3>4 DEF Load
  <2> QED
    BY <2>1, <2>2, <2>3 DEF Calm, InTransaction
<1>4. CASE Crash
  <2>1. /\ lpc' = "select" /\ ~up' /\ \A u \in Threads : pc'[u] = "idle"
        /\ plugin' = NoPlugin /\ epoch' = epoch + 1
    BY <1>4 DEF Crash
  <2>2. plugin' # epoch'
    BY <2>1, ConstantsAssumption DEF TypeOK, Epochs
  <2> QED
    BY <2>1, <2>2 DEF Calm, InTransaction
<1> QED
  BY <1>0, <1>1, <1>2, <1>3, <1>4 DEF Next

(* As long as nobody reloads, whole requests and commits that succeed leave *)
(* the model of queries or tables what the table says, through any          *)
(* interleaving of handlers, failed loads and restarts: all that            *)
(* ModelFollowsTable excepts is a partial request, a commit that fails, a   *)
(* rejected executable or a reload.                                         *)
THEOREM WholeRequestsKeepModel ==
    Spec /\ Undisturbed /\ [][~Publish]_vars => []ModelIsTable
<1>1. Init => Calm
  BY CalmInit
<1>2. IInv /\ Undisturbed /\ Calm /\ [Next]_vars /\ [~Publish]_vars => Calm'
  <2> SUFFICES ASSUME IInv, Undisturbed, Calm, [Next]_vars, [~Publish]_vars
               PROVE  Calm'
    OBVIOUS
  <2>1. CASE ~Publish
    BY <2>1, CalmStep
  <2>2. CASE UNCHANGED vars
    BY <2>2 DEF vars, table, local, model, loading, Calm, HasLocks
  <2> QED
    BY <2>1, <2>2
<1>3. IInv /\ Calm => ModelIsTable
  BY DEF IInv, Calm, Following, ModelIsTable, Steady, Matches
<1>4. Undisturbed /\ [Next]_vars => Undisturbed'
  BY DEF Undisturbed, Whole
<1> QED
  BY <1>1, <1>2, <1>3, <1>4, Invariance, PTL DEF Spec
=============================================================================
