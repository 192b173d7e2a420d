------------------------------ MODULE MetaSync ------------------------------
(***************************************************************************)
(* The in-memory model of the meta-objects (queries, tables, executables)  *)
(* and the database table it is a copy of.                                 *)
(*                                                                         *)
(* QueryOn.doInit reads the enabled rows of the table into a new           *)
(* SchemaModel through an UpdatePlugin (QOnQueries, QOnTables, QOnExecs).  *)
(* From then on each INSERT, UPDATE or DELETE request on the table calls   *)
(* the plugin between its SQL statement and its commit, and the plugin     *)
(* repeats the change on the SchemaModel.  Request threads share the       *)
(* SchemaModel, the plugin and the plugin's connection field without any   *)
(* lock; only the database's row locks order them.  A manage/reload        *)
(* request runs doInit again while the others are served.                  *)
(*                                                                         *)
(* A definition named X_Y is a wrong version of X: with it in place of X   *)
(* TLC finds a property violated (README, "What the properties can see").  *)
(***************************************************************************)
EXTENDS MetaRows

CONSTANTS
    Threads,      \* request threads of the servlet container
    Kind,         \* which plugin: "queries", "tables" or "execs"
    Faults,       \* failures of the database and of the process that may happen
    Tables,       \* contents the table may have when the servlet first starts
    MaxRequests,  \* bound: requests received in a behaviour
    MaxEpoch,     \* bound: SchemaModels created after the first one
    NoOne,        \* no thread
    NoRequest,    \* the thread is serving no request
    NoEntry,      \* no meta-object with that name in the SchemaModel
    NoPlugin,     \* updatePlugins has no plugin for the model
    Loader,       \* the thread that runs doInit
    Closed        \* a connection that was closed by its owner

ASSUME KindAssumption == Kind \in {"queries", "tables", "execs"}
ASSUME BoundsAssumption == MaxRequests \in Nat /\ MaxEpoch \in Nat
ASSUME FaultsAssumption == Faults \subseteq {"commit", "read", "crash"}
ASSUME TablesAssumption == Tables \subseteq [Names -> Row \cup {NoRow}]
ASSUME ConstantsAssumption ==
    /\ NoOne \notin Threads /\ Loader \notin Threads /\ Closed \notin Threads
    /\ Loader # Closed
    /\ NoRequest \notin Request
    /\ NoEntry \notin [def: Defs \cup {NoDef}, valid: BOOLEAN]
    /\ NoPlugin \notin Nat

VARIABLES
    rows,       \* committed content of the table
    lock,       \* lock[n]: the thread whose transaction has written row n
    pc, req,    \* of each thread: where its handler is; its request
    plug, old,  \* of each thread: the plugin it calls; the entry it removed
    valid,      \* of each thread: what the validation of its entry said
    epoch,      \* the SchemaModel published by SchemaModelUtils.setModels
    mem,        \* mem[e][n]: the entry named n of the e-th SchemaModel
    plugin,     \* the SchemaModel of the plugin that updatePlugins holds
    conn,       \* conn[e]: the connection field of the e-th plugin
    warn,       \* names with a warning in the servlet context
    up,         \* the servlet is initialised: the container sends it requests
    lpc,        \* where doInit is
    snap, todo, \* rows read by doInit's select; names it has yet to add
    served,     \* requests received
    drift       \* history: names whose change did not reach the published
                \* model, or reached it without being committed

table == <<rows, lock>>
local == <<pc, req, plug, old, valid>>
model == <<epoch, mem, plugin, conn, warn>>
loading == <<up, lpc, snap, todo>>
vars == <<table, local, model, loading, served, drift>>

Epochs == 0 .. MaxEpoch
Entry == [def: Defs \cup {NoDef}, valid: BOOLEAN]
PluginState == Epochs \cup {NoPlugin}

TypeOK ==
    /\ rows \in [Names -> Row \cup {NoRow}]
    /\ lock \in [Names -> Threads \cup {NoOne}]
    /\ pc \in [Threads -> {"idle", "sql", "plugin", "read", "remove", "validate",
                           "add", "commit", "abandon"}]
    /\ req \in [Threads -> Requests \cup {NoRequest}]
    /\ plug \in [Threads -> PluginState]
    /\ old \in [Threads -> Entry \cup {NoEntry}]
    /\ valid \in [Threads -> BOOLEAN]
    /\ epoch \in Epochs
    /\ mem \in [Epochs -> [Names -> Entry \cup {NoEntry}]]
    /\ plugin \in PluginState
    /\ conn \in [Epochs -> Threads \cup {Loader, Closed}]
    /\ warn \subseteq Names
    /\ up \in BOOLEAN
    /\ lpc \in {"off", "clear", "select", "add"}
    /\ snap \in [Names -> Row \cup {NoRow}]
    /\ todo \subseteq Names
    /\ served \in 0 .. MaxRequests
    /\ drift \subseteq Names

-----------------------------------------------------------------------------
EmptyModel == [n \in Names |-> NoEntry]

(* The servlet starts: the model of the schema is grabbed and published,    *)
(* with no meta-object in it yet.                                           *)
Init ==
    /\ rows \in Tables
    /\ lock = [n \in Names |-> NoOne]
    /\ pc = [t \in Threads |-> "idle"]
    /\ req = [t \in Threads |-> NoRequest]
    /\ plug = [t \in Threads |-> NoPlugin]
    /\ old = [t \in Threads |-> NoEntry]
    /\ valid = [t \in Threads |-> FALSE]
    /\ epoch = 0
    /\ mem = [e \in Epochs |-> EmptyModel]
    /\ plugin = NoPlugin
    /\ conn = [e \in Epochs |-> Closed]
    /\ warn = {}
    /\ up = FALSE
    /\ lpc = "select"
    /\ snap = [n \in Names |-> NoRow]
    /\ todo = {}
    /\ served = 0
    /\ drift = {}

(* ---------------------------- helpers --------------------------------- *)

SqlAccepts(d) == d \in ValidDefs

(* Whether the load makes an entry of a definition: QOnQueries keeps a      *)
(* query the database rejects and marks it invalid, QOnTables skips the row *)
(* with a warning.                                                          *)
Keeps(d) == Kind = "queries" \/ SqlAccepts(d)

HasLocks(t) == \A n \in Touched(req[t]) : lock[n] = t
Free(t) == \A n \in Touched(req[t]) : lock[n] = NoOne

Unlocked_Leak(t) == lock
Unlocked(t) == [n \in Names |-> IF lock[n] = t THEN NoOne ELSE lock[n]]
CloseConn(t) == [e \in Epochs |-> IF conn[e] = t THEN Closed ELSE conn[e]]

Goes(t, label) == pc' = [pc EXCEPT ![t] = label]

(* The handler's catch and finally blocks: rollback, close. *)
Ends(t) ==
    /\ Goes(t, "idle")
    /\ req' = [req EXCEPT ![t] = NoRequest]
    /\ plug' = [plug EXCEPT ![t] = NoPlugin]
    /\ old' = [old EXCEPT ![t] = NoEntry]
    /\ valid' = [valid EXCEPT ![t] = FALSE]
    /\ lock' = Unlocked(t)
    /\ conn' = CloseConn(t)

Drifts(names) == drift' = drift \cup names

(* ------------------------ request threads ------------------------------ *)

Receive(t, r) ==
    /\ pc[t] = "idle" /\ up
    /\ served < MaxRequests
    /\ served' = served + 1
    /\ req' = [req EXCEPT ![t] = r]
    /\ Goes(t, IF r.op = "readQuery" THEN "plugin" ELSE "sql")
    /\ UNCHANGED <<table, plug, old, valid, model, loading, drift>>

(* executeUpdate changes one row; the row stays locked until the end of the *)
(* transaction.  A row locked by another transaction makes it wait.         *)
ExecSql(t) ==
    /\ pc[t] = "sql"
    /\ Free(t)
    /\ Applicable(req[t], rows)
    /\ lock' = [n \in Names |-> IF n \in Touched(req[t]) THEN t ELSE lock[n]]
    /\ Goes(t, "plugin")
    /\ UNCHANGED <<rows, req, plug, old, valid, model, loading, served, drift>>

FindsNoRow(r) == r.op \in {"update", "delete"} /\ rows[r.key] = NoRow
ZeroRowsAccepted(r) == r.op = "update" /\ r.min = 0

(* No row for a DELETE (404), fewer rows than updatemin, a duplicate key. *)
SqlRejected(t) ==
    /\ pc[t] = "sql"
    /\ IF FindsNoRow(req[t]) THEN ~ZeroRowsAccepted(req[t])
       ELSE Free(t) /\ ~Applicable(req[t], rows)
    /\ Ends(t)
    /\ UNCHANGED <<rows, epoch, mem, plugin, warn, loading, served, drift>>

(* updatemin=0: the handler goes on although it holds no row. *)
SqlZeroRows(t) ==
    /\ pc[t] = "sql"
    /\ FindsNoRow(req[t]) /\ ZeroRowsAccepted(req[t])
    /\ Goes(t, "plugin")
    /\ UNCHANGED <<table, req, plug, old, valid, model, loading, served, drift>>

(* updatePlugins.get(modelId), then setConnection on the shared plugin.     *)
(* onUpdate and onDelete take the name from params.get(0), which a request  *)
(* with a k: parameter does not have: IndexOutOfBoundsException.            *)
CallPlugin(r) ==
    IF r.op = "readQuery" THEN "read"
    ELSE IF r.op = "insert" THEN "validate"
    ELSE IF r.byParam THEN "abandon" ELSE "remove"

FetchPlugin(t) ==
    /\ pc[t] = "plugin"
    /\ plugin # NoPlugin
    /\ plug' = [plug EXCEPT ![t] = plugin]
    /\ conn' = [conn EXCEPT ![plugin] = t]
    /\ Goes(t, CallPlugin(req[t]))
    /\ UNCHANGED <<table, req, old, valid, epoch, mem, plugin, warn, loading, served,
                   drift>>

(* A write goes on to its commit; readQuery answers 404. *)
FindsNoPlugin(t) ==
    /\ pc[t] = "plugin"
    /\ plugin = NoPlugin
    /\ IF req[t].op = "readQuery" THEN Ends(t)
       ELSE Goes(t, "commit") /\ UNCHANGED <<req, plug, old, valid, lock, conn>>
    /\ UNCHANGED <<rows, epoch, mem, plugin, warn, loading, served, drift>>

(* doPluginAction: QOnQueries.readQuery, on whatever connection the plugin *)
(* has by now.                                                             *)
ReadQuery(t) ==
    /\ pc[t] = "read"
    /\ Ends(t)
    /\ UNCHANGED <<rows, epoch, mem, plugin, warn, loading, served, drift>>

(* onDelete and the first half of onUpdate. *)
Without_Kept(e, k) == mem
Without(e, k) == [mem EXCEPT ![e][k] = NoEntry]

RemoveOld(t) ==
    LET e == plug[t]  k == req[t].key IN
    /\ pc[t] = "remove"
    /\ old' = [old EXCEPT ![t] = mem[e][k]]
    /\ mem' = Without(e, k)
    /\ Goes(t, IF req[t].op = "delete" THEN "commit" ELSE "validate")
    /\ Drifts(IF HasLocks(t) THEN {} ELSE Touched(req[t]))
    /\ UNCHANGED <<table, req, plug, valid, epoch, plugin, conn, warn, loading,
                   served>>

(* The database prepares the new definition on the plugin's connection,     *)
(* which another thread may have replaced or closed.                        *)
Accepted_Unprepared(t) == conn[plug[t]] # Closed
Accepted(t) ==
    /\ conn[plug[t]] # Closed
    /\ IF req[t].def = NoDef THEN Kind = "tables" ELSE SqlAccepts(req[t].def)

(* A validation starts by removing the warning that the name has. *)
Warned_RemovedLast(n, ok) == warn \ {n}
Warned(n, ok) == IF ok THEN warn \ {n} ELSE warn \cup {n}

(* addQueryToModel: the outcome is kept as the query's valid flag and as a  *)
(* warning.  addTable and addExecutable go on with an accepted definition   *)
(* only.                                                                    *)
Validate(t) ==
    /\ pc[t] = "validate"
    /\ Kind = "queries" \/ Accepted(t)
    /\ valid' = [valid EXCEPT ![t] = Accepted(t)]
    /\ warn' = IF Kind = "queries" THEN Warned(req[t].name, Accepted(t)) ELSE warn
    /\ Drifts(IF HasLocks(t) THEN {} ELSE Touched(req[t]))
    /\ Goes(t, "add")
    /\ UNCHANGED <<table, req, plug, old, epoch, mem, plugin, conn, loading, served>>

(* addTable or addExecutable throws BadRequestException.  QOnTables.onUpdate *)
(* puts the old entry back; QOnExecs.onUpdate does not.                      *)
Restored_Never(t) == mem
Restored(t) ==
    LET e == plug[t]  k == req[t].key IN
    IF Kind = "tables" /\ req[t].op = "update" /\ mem[e][k] = NoEntry
    THEN [mem EXCEPT ![e][k] = old[t]] ELSE mem

PluginRejects(t) ==
    /\ pc[t] = "validate"
    /\ Kind # "queries" /\ ~Accepted(t)
    /\ mem' = Restored(t)
    /\ Drifts(IF Kind = "execs" /\ req[t].op = "update" THEN {req[t].key} ELSE {})
    /\ Ends(t)
    /\ UNCHANGED <<rows, epoch, plugin, warn, loading, served>>

(* Remove an equal entry, add the new one.  The entry is built from the     *)
(* request alone: it does not look at DISABLED, and a definition that the   *)
(* request does not supply is empty.                                        *)
AddNew(t) ==
    LET e == plug[t]  n == req[t].name IN
    /\ pc[t] = "add"
    /\ mem' = [mem EXCEPT ![e][n] = [def |-> req[t].def, valid |-> valid[t]]]
    /\ Goes(t, "commit")
    /\ Drifts(IF HasLocks(t) /\ req[t].def # NoDef /\ ~req[t].disabled
              THEN {} ELSE Touched(req[t]))
    /\ UNCHANGED <<table, req, plug, old, valid, epoch, plugin, conn, warn, loading,
                   served>>

(* A transaction that wrote no row has nothing to commit. *)
Written_Upsert(t) == TableAfter(req[t], rows)
Written(t) == IF HasLocks(t) THEN TableAfter(req[t], rows) ELSE rows

(* The change went to the published model, not to one replaced meanwhile. *)
OnCurrentModel(t) == plug[t] = epoch

Commit(t) ==
    /\ pc[t] = "commit"
    /\ rows' = Written(t)
    /\ Drifts(IF OnCurrentModel(t) THEN {} ELSE Touched(req[t]))
    /\ Ends(t)
    /\ UNCHANGED <<epoch, mem, plugin, warn, loading, served>>

(* conn.commit() throws: the transaction is rolled back, the model is not.  *)
CommitFails(t) ==
    /\ "commit" \in Faults
    /\ pc[t] = "commit"
    /\ Drifts(Touched(req[t]))
    /\ Ends(t)
    /\ UNCHANGED <<rows, epoch, mem, plugin, warn, loading, served>>

(* An exception that is neither SQLException nor BadRequestException: the   *)
(* finally block closes the connection with the transaction open, and the   *)
(* JDBC driver commits it or rolls it back.                                 *)
Abandon(t) ==
    /\ pc[t] = "abandon"
    /\ \/ rows' = Written(t) /\ Drifts(Touched(req[t]))
       \/ UNCHANGED <<rows, drift>>
    /\ Ends(t)
    /\ UNCHANGED <<epoch, mem, plugin, warn, loading, served>>

(* ----------------------------- doInit ---------------------------------- *)

(* manage/reload: a new SchemaModel is grabbed and setModels publishes it.  *)
Publish ==
    /\ lpc = "off"
    /\ epoch < MaxEpoch
    /\ epoch' = epoch + 1
    /\ lpc' = "clear"
    /\ UNCHANGED <<table, local, mem, plugin, conn, warn, up, snap, todo, served, drift>>

ClearPlugins ==
    /\ lpc = "clear"
    /\ plugin' = NoPlugin
    /\ lpc' = "select"
    /\ UNCHANGED <<table, local, epoch, mem, conn, warn, up, snap, todo, served, drift>>

(* onInit: the warnings are cleared and the enabled rows selected. *)
Selected_Disabled == {n \in Names : rows[n] # NoRow}
Selected == {n \in Names : rows[n] # NoRow /\ ~rows[n].disabled}

SelectRows ==
    /\ lpc = "select"
    /\ snap' = rows
    /\ todo' = Selected
    /\ warn' = {}
    /\ conn' = [conn EXCEPT ![epoch] = Loader]
    /\ lpc' = "add"
    /\ drift' = {}
    /\ UNCHANGED <<table, local, epoch, mem, plugin, up, served>>

(* QOnExecs alone stops at a row it rejects. *)
StopsLoad_AnyKind(d) == ~SqlAccepts(d)
StopsLoad(d) == Kind = "execs" /\ ~SqlAccepts(d)

(* One row of the result set becomes an entry, or a warning. *)
LoadRow(n) ==
    /\ lpc = "add" /\ n \in todo
    /\ ~StopsLoad(snap[n].def)
    /\ todo' = todo \ {n}
    /\ mem' = IF Keeps(snap[n].def)
              THEN [mem EXCEPT ![epoch][n] = [def |-> snap[n].def,
                                              valid |-> SqlAccepts(snap[n].def)]]
              ELSE mem
    /\ warn' = Warned(n, SqlAccepts(snap[n].def))
    /\ UNCHANGED <<table, local, epoch, plugin, conn, up, lpc, snap, served, drift>>

(* modelRollback of QOnQueries.onInit: the views the model had before. *)
AfterFailedLoad_Half == mem
AfterFailedLoad ==
    IF Kind = "queries" THEN [mem EXCEPT ![epoch] = EmptyModel] ELSE mem

(* activePlugins.add comes after onInit. *)
ActiveAfterFailure_New == epoch
ActiveAfterFailure == plugin

(* The select or the reading of its rows fails, or a script that does not   *)
(* compile ends the load of QOnExecs: updatePlugins goes without the plugin.*)
LoadFails ==
    /\ \/ lpc \in {"select", "add"} /\ "read" \in Faults
       \/ lpc = "add" /\ \E n \in todo : StopsLoad(snap[n].def)
    /\ mem' = AfterFailedLoad
    /\ plugin' = ActiveAfterFailure
    /\ lpc' = "off" /\ up' = TRUE
    /\ todo' = {}
    /\ conn' = [conn EXCEPT ![epoch] = Closed]
    /\ UNCHANGED <<table, local, epoch, warn, snap, served, drift>>

(* updatePlugins.put; doInit ends. *)
Activate ==
    /\ lpc = "add" /\ todo = {}
    /\ plugin' = epoch
    /\ lpc' = "off" /\ up' = TRUE
    /\ conn' = [conn EXCEPT ![epoch] = Closed]
    /\ UNCHANGED <<table, local, epoch, mem, warn, snap, todo, served, drift>>

(* The process dies; the database rolls back its transactions.  The next    *)
(* process starts from the table alone.                                     *)
Crash ==
    /\ "crash" \in Faults
    /\ epoch < MaxEpoch
    /\ epoch' = epoch + 1
    /\ pc' = [t \in Threads |-> "idle"]
    /\ req' = [t \in Threads |-> NoRequest]
    /\ plug' = [t \in Threads |-> NoPlugin]
    /\ old' = [t \in Threads |-> NoEntry]
    /\ valid' = [t \in Threads |-> FALSE]
    /\ lock' = [n \in Names |-> NoOne]
    /\ plugin' = NoPlugin
    /\ conn' = [e \in Epochs |-> Closed]
    /\ warn' = {} /\ todo' = {} /\ lpc' = "select" /\ up' = FALSE
    /\ UNCHANGED <<rows, mem, snap, served, drift>>

-----------------------------------------------------------------------------
(* What a thread does once it has received its request. *)
Step(t) ==
    \/ ExecSql(t) \/ SqlRejected(t) \/ SqlZeroRows(t)
    \/ FetchPlugin(t) \/ FindsNoPlugin(t) \/ ReadQuery(t)
    \/ RemoveOld(t) \/ Validate(t) \/ PluginRejects(t) \/ AddNew(t)
    \/ Commit(t) \/ CommitFails(t) \/ Abandon(t)

(* doInit once it has begun. *)
Load ==
    \/ ClearPlugins \/ SelectRows
    \/ \E n \in Names : LoadRow(n)
    \/ LoadFails \/ Activate

Next ==
    \/ \E t \in Threads : (\E r \in Requests : Receive(t, r)) \/ Step(t)
    \/ Publish \/ Load \/ Crash

Spec == Init /\ [][Next]_vars

(* A thread that can go on does, whatever the others do; requests, reloads  *)
(* and crashes need not happen.                                             *)
FairSpec == Spec /\ WF_vars(Load) /\ \A t \in Threads : WF_vars(Step(t))

-----------------------------------------------------------------------------
(* What the published model should say of a row: the definition of an       *)
(* enabled one that the load keeps.  And what it says.                      *)
DefOfRow(row) ==
    IF row # NoRow /\ ~row.disabled /\ Keeps(row.def) THEN row.def ELSE NoDef
DefOfEntry(x) == IF x = NoEntry THEN NoDef ELSE x.def

(* Nothing is being reloaded and the plugin of the published model is the   *)
(* one that handlers find.                                                  *)
Steady == plugin = epoch

(* Whatever the interleaving of handlers and reloads, a name that no        *)
(* transaction holds has in the published model exactly the definition that *)
(* its enabled row has in the table, unless one of the causes recorded in   *)
(* drift has hit it since the last load.  (Plugin calls happen before the   *)
(* commit and without a lock of their own: only the row lock orders them.)  *)
ModelFollowsTable ==
    Steady => \A n \in Names :
        lock[n] = NoOne /\ n \notin drift =>
            DefOfEntry(mem[epoch][n]) = DefOfRow(rows[n])

(* A query that the model shows as invalid has a warning that says why, and *)
(* one shown as valid was accepted by the database.  (addQueryToModel       *)
(* removes and puts warnings in a map that outlives the plugin: the plugins *)
(* of two models may write to it at the same time.)                         *)
InvalidHasWarning ==
    Kind = "queries" /\ Steady => \A n \in Names :
        lock[n] = NoOne /\ n \notin drift /\ mem[epoch][n] # NoEntry =>
            /\ ~mem[epoch][n].valid => n \in warn
            /\ mem[epoch][n].valid => SqlAccepts(mem[epoch][n].def)

(* When the load of QOnQueries fails half-way, the published model has no   *)
(* query at all, and no handler still serving brings one back: onInit's     *)
(* modelRollback.                                                           *)
FailedLoadLeavesNothing ==
    Kind = "queries" /\ lpc = "off" /\ plugin = NoPlugin => mem[epoch] = EmptyModel

(* Refinement: whatever the path a handler takes, the table changes only by *)
(* the whole effect of one request that was applicable when it committed.   *)
Store == INSTANCE MetaStore WITH table <- rows
TableIsAtomic == Store!Spec

(* Every request gets to its end: no error path keeps a row locked that     *)
(* another thread waits for.                                                *)
RequestEnds == \A t \in Threads : pc[t] # "idle" ~> pc[t] = "idle"

(* A reload whose reads succeed ends with the plugin of the new model in    *)
(* place, whatever the rows hold: one bad row does not stop the load of     *)
(* QOnQueries and QOnTables.                                                *)
ReloadEnds == lpc # "off" ~> Steady
=============================================================================
