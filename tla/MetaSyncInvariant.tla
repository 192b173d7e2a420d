-------------------------- MODULE MetaSyncInvariant --------------------------
(***************************************************************************)
(* The inductive invariant of MetaSync: what is true between any two steps *)
(* and makes the properties of MetaSync true.                              *)
(***************************************************************************)
EXTENDS MetaSync

(* Labels of a thread that may have an open transaction with written rows. *)
InTransaction == {"plugin", "remove", "validate", "add", "commit", "abandon"}

(* Where a thread is agrees with its request and with what it has fetched   *)
(* and validated.                                                           *)
Control ==
    \A t \in Threads :
        /\ pc[t] # "idle" => req[t] \in Requests
        /\ pc[t] \in {"read", "remove", "validate", "add"} => plug[t] \in Epochs
        /\ pc[t] \in {"idle", "sql", "plugin"} => plug[t] = NoPlugin
        /\ pc[t] \in {"remove", "abandon"} => req[t].op \in {"update", "delete"}
        /\ pc[t] \in {"validate", "add"} => req[t].op \in {"insert", "update"}
        /\ pc[t] \in {"sql", "commit"} => req[t].op # "readQuery"
        /\ pc[t] = "add" => req[t].def = NoDef \/ Keeps(req[t].def)

(* A locked row belongs to a request being served.  A thread inside its     *)
(* transaction holds every row its statement wrote, and the statement would *)
(* still find them as it did; or it wrote none, as updatemin=0 allows.      *)
Locking ==
    /\ \A n \in Names : lock[n] # NoOne =>
        /\ pc[lock[n]] \in InTransaction
        /\ n \in Touched(req[lock[n]])
    /\ \A t \in Threads : pc[t] \in InTransaction =>
        \/ HasLocks(t) /\ Applicable(req[t], rows)
        \/ req[t].op \in {"update", "readQuery"} /\ \A n \in Names : lock[n] # t

(* Plugins belong to models that were published; nobody has the plugin of a *)
(* model that is not loaded yet, and nobody has written to such a model.    *)
Loading ==
    /\ \A n \in todo : snap[n] # NoRow /\ ~snap[n].disabled
    /\ plugin # NoPlugin => plugin <= epoch
    /\ \A t \in Threads : plug[t] # NoPlugin => plug[t] <= epoch
    /\ lpc # "off" => plugin # epoch
    /\ plugin # epoch => \A t \in Threads : plug[t] # epoch
    /\ \A e \in Epochs : e > epoch => mem[e] = EmptyModel
    /\ lpc \in {"clear", "select"} => mem[epoch] = EmptyModel

Matches(n) == DefOfEntry(mem[epoch][n]) = DefOfRow(rows[n])

(* How far the model is from the row n that thread t holds. *)
Pending(t, n) ==
    IF plug[t] # epoch \/ pc[t] \in {"remove", "abandon"} THEN Matches(n)
    ELSE IF pc[t] = "commit"
    THEN DefOfEntry(mem[epoch][n]) = DefOfRow(TableAfter(req[t], rows)[n])
    ELSE IF req[t].op = "update" /\ n = req[t].key
    THEN /\ mem[epoch][n] = NoEntry
         /\ DefOfEntry(old[t]) = DefOfRow(rows[n])
    ELSE Matches(n)

(* While the rows are loaded, the ones still to do have no entry and the    *)
(* others match.  Once the plugin is there, a free row matches and a held   *)
(* one is where its thread is.  A thread that holds no row has already been *)
(* recorded.                                                                *)
Following ==
    /\ lpc = "add" => \A n \in Names \ drift :
        /\ snap[n] = rows[n]
        /\ IF n \in todo THEN mem[epoch][n] = NoEntry ELSE Matches(n)
    /\ plugin = epoch => \A n \in Names \ drift :
        IF lock[n] = NoOne THEN Matches(n) ELSE Pending(lock[n], n)
    /\ \A t \in Threads :
        pc[t] \in {"validate", "add"} /\ req[t].op = "update" /\ plug[t] = epoch
            => HasLocks(t) \/ Touched(req[t]) \subseteq drift

(* An entry is as InvalidHasWarning says. *)
Explained(n) ==
    mem[epoch][n] # NoEntry =>
        /\ ~mem[epoch][n].valid => n \in warn
        /\ mem[epoch][n].valid => SqlAccepts(mem[epoch][n].def)

(* The entry of the row n that thread u holds is explained until u has      *)
(* validated its successor: the warning may then be that of the new entry   *)
(* already.  A thread with the plugin of another model may change the       *)
(* warning as well, and its commit will be recorded.                        *)
Explaining(u, n) ==
    IF pc[u] \in {"plugin", "abandon"} THEN Explained(n)
    ELSE plug[u] = epoch =>
        IF pc[u] = "add" /\ n = req[u].name
        THEN /\ ~valid[u] => n \in warn
             /\ valid[u] => SqlAccepts(req[u].def)
        ELSE Explained(n)

Warning ==
    Kind = "queries" /\ (lpc = "add" \/ plugin = epoch) =>
        \A n \in Names \ drift :
            IF lock[n] = NoOne THEN Explained(n) ELSE Explaining(lock[n], n)

(* What the editor pages send: rows that are enabled and have a definition,  *)
(* keyed in the path, of an object that is there.  With such requests, and  *)
(* while commits succeed, only QOnExecs and a reload part model and table.  *)
Whole(r) ==
    /\ r.op \in {"update", "delete"} => ~r.byParam
    /\ r.op = "update" => r.min = 1
    /\ r.op \in {"insert", "update"} => r.def # NoDef /\ ~r.disabled
Undisturbed == Kind # "execs" /\ "commit" \notin Faults /\ \A r \in Requests : Whole(r)

(* Without a reload nothing is served during a load, a handler in its       *)
(* transaction holds its rows and has the plugin of the published model, if *)
(* there is one, and nothing has drifted.                                   *)
Calm ==
    /\ lpc # "off" => ~up
    /\ ~up => \A t \in Threads : pc[t] = "idle"
    /\ lpc = "add" \/ plugin = epoch => drift = {}
    /\ \A t \in Threads :
        /\ pc[t] \in InTransaction /\ req[t].op # "readQuery" => HasLocks(t)
        /\ plugin = epoch =>
             /\ pc[t] # "abandon"
             /\ pc[t] \in {"remove", "validate", "add", "commit"} => plug[t] = epoch

(* What ModelFollowsTable says, without exception. *)
ModelIsTable ==
    Steady => \A n \in Names :
        lock[n] = NoOne => DefOfEntry(mem[epoch][n]) = DefOfRow(rows[n])

IInv == TypeOK /\ Control /\ Locking /\ Loading /\ Following
=============================================================================
