----------------------------- MODULE RowWrites -----------------------------
(***************************************************************************)
(* INSERT, UPDATE and DELETE requests on a relation (QueryOn.doInsert,     *)
(* doUpdate, doDelete): each runs its statement in a transaction of its    *)
(* own, looks at the number of rows, may read the table again (optimistic  *)
(* lock, sqlFilter), and commits.  The database isolates transactions as   *)
(* READ COMMITTED does: a statement reads the committed rows and those of  *)
(* its own transaction, and waits for a row that another one has written.  *)
(*                                                                         *)
(* A definition named X_Y is a wrong version of X: with it in place of X   *)
(* TLC finds a property violated (README, "What the properties can see").  *)
(***************************************************************************)
EXTENDS RowRequests

CONSTANTS
    Threads,      \* request threads of the servlet container
    Tables,       \* contents the table may have at first
    MaxRequests,  \* bound: requests received in a behaviour
    Same,         \* the transaction has not written the row
    NoRequest     \* the thread is serving no request

ASSUME MaxRequestsAssumption == MaxRequests \in Nat
ASSUME TablesAssumption == Tables \subseteq [Keys -> Row \cup {NoRow}]
ASSUME SameAssumption == Same \notin Row \cup {NoRow} /\ NoRequest \notin Request

VARIABLES
    rows,    \* committed content of the table
    own,     \* own[t][k]: what thread t's transaction has written to row k
    pc,      \* of each thread: where its handler is
    req,     \* of each thread: its request
    served,  \* requests received
    unseen   \* history: keys of rows that an accepted update made invisible

vars == <<rows, own, pc, req, served, unseen>>

TypeOK ==
    /\ rows \in [Keys -> Row \cup {NoRow}]
    /\ own \in [Threads -> [Keys -> Row \cup {NoRow, Same}]]
    /\ pc \in [Threads -> {"idle", "sql", "recheck", "count", "visible", "commit"}]
    /\ req \in [Threads -> Requests \cup {NoRequest}]
    /\ served \in 0 .. MaxRequests
    /\ unseen \subseteq Keys

Nothing == [k \in Keys |-> Same]

Init ==
    /\ rows \in Tables
    /\ own = [t \in Threads |-> Nothing]
    /\ pc = [t \in Threads |-> "idle"]
    /\ req = [t \in Threads |-> NoRequest]
    /\ served = 0
    /\ unseen = {}

(* ----------------------------- the database ---------------------------- *)

Wrote(t) == {k \in Keys : own[t][k] # Same}
View(t) == [k \in Keys |-> IF own[t][k] = Same THEN rows[k] ELSE own[t][k]]
LockedFor(t, k) == \E u \in Threads \ {t} : k \in Wrote(u)

(* ------------------------- the where clauses ---------------------------- *)

(* filterByKey *)
HasKey(r, view) == {k \in r.select : view[k] # NoRow}

(* filterByXtraParams, then applyQonTableSqlFilter *)
Filtered_NoSqlFilter(r, view) == {k \in HasKey(r, view) : r.filter \in {AnyGroup, view[k].group}}
Filtered(r, view) ==
    {k \in HasKey(r, view) :
        r.filter \in {AnyGroup, view[k].group} /\ (HasFilter => view[k].visible)}

(* tryOptimisticLock: a request without the parameter binds null, which no  *)
(* value equals.                                                            *)
LockMatches_OnlyIfGiven(r, row) ==
    HasLock /\ r.lock # Null => row.version \in {r.lock, Null}
LockMatches(r, row) == HasLock => row.version = Null \/ row.version = r.lock

(* The rows that the statement writes.  With a sqlFilter, an INSERT is an   *)
(* INSERT ... SELECT ... WHERE of its own values.                           *)
Target(r) ==
    IF r.op = "insert" THEN {k \in r.select : HasFilter => r.visible}
    ELSE IF r.op = "update" THEN {k \in Filtered(r, rows) : LockMatches(r, rows[k])}
    ELSE Filtered(r, rows)

(* ------------------------------ the handler ----------------------------- *)

Goes(t, label) == pc' = [pc EXCEPT ![t] = label]

(* Commit or rollback, close. *)
RolledBack_Kept(t) == own
RolledBack(t) == [own EXCEPT ![t] = Nothing]

Ends(t) ==
    /\ Goes(t, "idle")
    /\ req' = [req EXCEPT ![t] = NoRequest]
    /\ own' = RolledBack(t)

Receive(t, r) ==
    /\ pc[t] = "idle"
    /\ served < MaxRequests
    /\ served' = served + 1
    /\ req' = [req EXCEPT ![t] = r]
    /\ Goes(t, "sql")
    /\ UNCHANGED <<rows, own, unseen>>

Duplicates(r) == r.op = "insert" /\ \E k \in Target(r) : rows[k] # NoRow

(* executeUpdate.  An UPDATE that found no row looks whether the lock is    *)
(* the reason.                                                              *)
ExecSql(t) ==
    LET r == req[t] IN
    /\ pc[t] = "sql"
    /\ \A k \in Target(r) : ~LockedFor(t, k)
    /\ ~Duplicates(r)
    /\ own' = [own EXCEPT ![t] = [k \in Keys |->
                  IF k \in Target(r) THEN NewRow(r, rows[k]) ELSE Same]]
    /\ Goes(t, IF r.op = "update" /\ HasLock /\ Target(r) = {} THEN "recheck" ELSE "count")
    /\ UNCHANGED <<rows, req, served, unseen>>

SqlRejected(t) ==
    /\ pc[t] = "sql"
    /\ \A k \in Target(req[t]) : ~LockedFor(t, k)
    /\ Duplicates(req[t])
    /\ Ends(t)
    /\ UNCHANGED <<rows, served, unseen>>

(* An SQLException at any other moment, the commit included: a constraint,  *)
(* a lock timeout, a connection that breaks.                                *)
SqlFails(t) ==
    /\ pc[t] # "idle"
    /\ Ends(t)
    /\ UNCHANGED <<rows, served, unseen>>

(* checkOptimisticLock: 409 if the key alone finds a row. *)
Recheck(t) ==
    /\ pc[t] = "recheck"
    /\ IF HasKey(req[t], View(t)) # {} THEN Ends(t)
       ELSE Goes(t, "count") /\ UNCHANGED <<req, own>>
    /\ UNCHANGED <<rows, served, unseen>>

(* A DELETE with a full key needs one row (404, 500); then updatemax and    *)
(* updatemin (400).                                                         *)
CountAccepted_MaxPlusOne(r, count) == count <= r.max + 1 /\ count >= r.min
CountAccepted(r, count) ==
    /\ r.op = "delete" /\ r.full => count = 1
    /\ count <= r.max /\ count >= r.min

CheckCount(t) ==
    LET r == req[t] IN
    /\ pc[t] = "count"
    /\ IF ~CountAccepted(r, Cardinality(Wrote(t))) THEN Ends(t)
       ELSE /\ Goes(t, IF r.op = "update" /\ HasFilter THEN "visible" ELSE "commit")
            /\ UNCHANGED <<req, own>>
    /\ UNCHANGED <<rows, served, unseen>>

(* The rows found by the request's own filters are counted again. *)
SameCount_Unfiltered(t) ==
    Cardinality(Filtered_NoSqlFilter(req[t], View(t))) = Cardinality(Wrote(t))
SameCount(t) == Cardinality(Filtered(req[t], View(t))) = Cardinality(Wrote(t))

CheckVisible(t) ==
    /\ pc[t] = "visible"
    /\ IF ~SameCount(t) THEN Ends(t)
       ELSE Goes(t, "commit") /\ UNCHANGED <<req, own>>
    /\ UNCHANGED <<rows, served, unseen>>

Commit(t) ==
    /\ pc[t] = "commit"
    /\ rows' = View(t)
    /\ unseen' = unseen \cup {k \in Wrote(t) : /\ HasFilter /\ req[t].op = "update"
                                              /\ ~own[t][k].visible}
    /\ Ends(t)
    /\ UNCHANGED served

Step(t) ==
    \/ ExecSql(t) \/ SqlRejected(t) \/ Recheck(t)
    \/ CheckCount(t) \/ CheckVisible(t) \/ Commit(t)

Next ==
    \E t \in Threads : Step(t) \/ SqlFails(t) \/ \E r \in Requests : Receive(t, r)

Spec == Init /\ [][Next]_vars

(* A handler that can go on does; requests and failures need not come. *)
FairSpec == Spec /\ \A t \in Threads : WF_vars(Step(t))

-----------------------------------------------------------------------------
(* Refinement: although a handler decides on its count and on its lock in   *)
(* steps between which others commit, the rows it commits still are, at     *)
(* that instant, rows it selects, as its client read them, in a number that *)
(* updatemin and updatemax allow.                                           *)
Store == INSTANCE RowStore WITH table <- rows
CommitsWhatItSelected == Store!Spec

(* "check if row is still visible" (doUpdate): an accepted update leaves    *)
(* every row it wrote visible to the relation's sqlFilter.                  *)
SeenAfterUpdate == unseen = {}

(* An update of one row by its key that has passed the check hides no row,  *)
(* whatever others have committed since its UPDATE.  Of several rows the    *)
(* check can be wrong.                                                      *)
KeyedUpdatesSeen ==
    \A t \in Threads :
        /\ pc[t] = "commit" /\ HasFilter /\ req[t].op = "update"
        /\ \E k \in Keys : req[t].select = {k}
        => \A k \in Wrote(t) : own[t][k].visible

(* Every request is answered: whatever the outcome of its checks a handler  *)
(* gives its rows back to the ones that wait for them.                      *)
WriteEnds == \A t \in Threads : pc[t] # "idle" ~> pc[t] = "idle"
=============================================================================
