---------------------------- MODULE Transactions ----------------------------
(***************************************************************************)
(* Requests that run statements the program does not know: stored queries, *)
(* SQL of the user, routines, schema diffs.  Each borrows a connection of  *)
(* the pool, or two, runs its statements, answers, and commits, rolls back *)
(* or leaves its transaction to whatever close() does.  What the client is *)
(* told is compared with what the database has.                            *)
(*                                                                         *)
(* A definition named X_Y is a wrong version of X (README, "What the       *)
(* properties can see").                                                   *)
(***************************************************************************)
EXTENDS Naturals, Sequences, FiniteSets

CONSTANTS
    Calls,       \* requests of a behaviour, each in a thread of its own
    Connections, \* the pool's connections
    Requests,    \* what a request may be
    Databases    \* the databases and pools there may be

(* rows: the statement returns a result set.  excess: its update count is   *)
(* above update-max.  ddl: it defines objects of the schema, as any         *)
(* statement of a diff may.  Every statement changes something, that of a   *)
(* query by a function it calls; only "info", which reads metadata, does    *)
(* not.  "diff2q" stands for Diff2QServlet and DataDiffServlet.             *)
Request == [op: {"select", "selectAny", "sql", "execute", "diff", "diff2q", "info"},
            rows: BOOLEAN, excess: BOOLEAN, ddl: BOOLEAN]

(* close: what close() does with an open transaction: roll back, commit, or *)
(* keep it open.  ddlCommits: dataDefinitionCausesTransactionCommit().      *)
Database == [close: {"rollback", "commit", "keep"}, ddlCommits: BOOLEAN]

ASSUME RequestsAssumption == Requests \subseteq Request
ASSUME DatabasesAssumption == Databases \subseteq Database
ASSUME PoolAssumption == IsFiniteSet(Connections)

VARIABLES
    dbms,    \* the database and its pool
    req,     \* of each call: the request
    pc,      \* of each call: where its handler is
    held,    \* of each call: the connections it has borrowed
    ran,     \* of each call: how many statements it has run
    flushed, \* the calls whose response is committed: resp.isCommitted()
    end,     \* of each call: how its handler ended: well, by an SQLException,
             \* by a BadRequestException or by another exception
    pool,    \* connections that nobody has borrowed
    open,    \* of each connection: the changes of its open transaction
    db       \* the changes that are committed

vars == <<dbms, req, pc, held, ran, flushed, end, pool, open, db>>

Changes == Calls \X {1, 2}

TypeOK ==
    /\ dbms \in Database
    /\ req \in [Calls -> Request]
    /\ pc \in [Calls -> {"borrow", "run", "write", "commit", "answer", "close",
                         "hooks", "done"}]
    /\ held \in [Calls -> Seq(Connections)]
    /\ ran \in [Calls -> 0 .. 2]
    /\ flushed \subseteq Calls
    /\ end \in [Calls -> {"", "ok", "sql", "request", "server"}]
    /\ pool \subseteq Connections
    /\ open \in [Connections -> SUBSET Changes]
    /\ db \subseteq Changes

Init ==
    /\ dbms \in Databases
    /\ req \in [Calls -> Requests]
    /\ pc = [q \in Calls |-> "borrow"]
    /\ held = [q \in Calls |-> <<>>]
    /\ ran = [q \in Calls |-> 0]
    /\ flushed = {}
    /\ end = [q \in Calls |-> ""]
    /\ pool = Connections
    /\ open = [c \in Connections |-> {}]
    /\ db = {}

(* ------------------------------- requests ------------------------------- *)

Op(q) == req[q].op

(* connSource and connTarget; models may share a pool. *)
Borrows(q) == IF Op(q) = "diff2q" THEN 2 ELSE 1
Statements_OneMore(q) ==
    IF Op(q) = "diff" THEN 3 ELSE IF Op(q) = "diff2q" THEN 2 ELSE 1
Statements(q) == IF Op(q) \in {"diff", "diff2q"} THEN 2 ELSE 1
ConnectionOf(q, i) == IF Op(q) = "diff2q" THEN held[q][i] ELSE held[q][1]

(* doSql of a statement without a result set. *)
Updates(q) == Op(q) = "sql" /\ ~req[q].rows

(* The handlers whose catch of SQLException calls doRollback. *)
RollsBack_NotSql(q) == Op(q) \in {"select", "selectAny", "execute"}
RollsBack(q) == Op(q) \in {"select", "selectAny", "sql", "execute"}

(* Its statements, or some of them, commit what its connection has open.    *)
Implicit(q) == dbms.ddlCommits /\ Op(q) # "info" /\ (req[q].ddl \/ Op(q) = "diff")

Mine(q) == {held[q][i] : i \in DOMAIN held[q]}
Undone(q) == [c \in Connections |-> IF c \in Mine(q) THEN {} ELSE open[c]]

(* The transaction of a connection is committed, with these changes. *)
CommitsWith(c, changes) ==
    /\ db' = db \cup open[c] \cup changes
    /\ open' = [open EXCEPT ![c] = {}]

Goes(q, label) == pc' = [pc EXCEPT ![q] = label]
Ends(q, how) == Goes(q, "close") /\ end' = [end EXCEPT ![q] = how]

(* ------------------------------- handlers ------------------------------- *)

(* initDBConn *)
Borrow(q) ==
    /\ pc[q] = "borrow"
    /\ \E c \in pool :
          /\ pool' = pool \ {c}
          /\ held' = [held EXCEPT ![q] = Append(@, c)]
    /\ Goes(q, IF Len(held[q]) + 1 = Borrows(q) THEN "run" ELSE "borrow")
    /\ UNCHANGED <<dbms, req, ran, flushed, end, open, db>>

(* The pool gives no connection in time: an SQLException.  InfoServlet logs *)
(* it; the finally of SELECT_ANY replaces it by a NullPointerException.     *)
BorrowFails(q) ==
    /\ pc[q] = "borrow"
    /\ Ends(q, IF Op(q) = "info" THEN "ok" ELSE IF Op(q) = "selectAny" THEN "server"
               ELSE "sql")
    /\ UNCHANGED <<dbms, req, held, ran, flushed, pool, open, db>>

AfterRun_NoCommit(q) ==
    IF ran[q] + 1 < Statements(q) THEN Goes(q, "run") /\ UNCHANGED end
    ELSE IF Op(q) = "info" THEN Ends(q, "ok")
    ELSE IF Updates(q) /\ req[q].excess THEN Ends(q, "request")
    ELSE Goes(q, IF Op(q) = "diff" THEN "commit" ELSE "write") /\ UNCHANGED end
AfterRun(q) ==
    IF ran[q] + 1 < Statements(q) THEN Goes(q, "run") /\ UNCHANGED end
    ELSE IF Op(q) = "info" THEN Ends(q, "ok")
    ELSE IF Updates(q) /\ req[q].excess THEN Ends(q, "request")
    ELSE Goes(q, IF Updates(q) \/ Op(q) = "diff" THEN "commit" ELSE "write") /\ UNCHANGED end

(* The change stays in the transaction of its connection, unless it is a    *)
(* definition that commits by itself.                                       *)
Changed(q, c, change) ==
    \/ Op(q) = "info" /\ UNCHANGED <<open, db>>
    \/ /\ Op(q) # "info" /\ ~(dbms.ddlCommits /\ req[q].ddl)
       /\ open' = [open EXCEPT ![c] = @ \cup {change}]
       /\ UNCHANGED db
    \/ Implicit(q) /\ CommitsWith(c, {change})

Run(q) ==
    /\ pc[q] = "run"
    /\ Changed(q, ConnectionOf(q, ran[q] + 1), <<q, ran[q] + 1>>)
    /\ ran' = [ran EXCEPT ![q] = @ + 1]
    /\ AfterRun(q)
    /\ UNCHANGED <<dbms, req, held, flushed, pool>>

(* A statement is refused, or its rows cannot be read. *)
SqlFails(q) ==
    /\ pc[q] \in {"run", "write"} /\ Op(q) # "info"
    /\ open' = IF RollsBack(q) THEN Undone(q) ELSE open
    /\ Ends(q, "sql")
    /\ UNCHANGED <<dbms, req, held, ran, flushed, pool, db>>

(* A definition that is refused has committed what went before it. *)
DdlRefused(q) ==
    /\ pc[q] = "run" /\ Implicit(q)
    /\ CommitsWith(ConnectionOf(q, ran[q] + 1), {})
    /\ Ends(q, "sql")
    /\ UNCHANGED <<dbms, req, held, ran, flushed, pool>>

(* InfoServlet logs any exception and answers; conn.close() is skipped. *)
InfoFails(q) ==
    /\ pc[q] = "run" /\ Op(q) = "info"
    /\ Goes(q, "done")
    /\ end' = [end EXCEPT ![q] = "ok"]
    /\ UNCHANGED <<dbms, req, held, ran, flushed, pool, open, db>>

(* The answer fills the response's buffer: its status is on its way. *)
Flush(q) ==
    /\ pc[q] = "write" \/ (pc[q] = "answer" /\ Op(q) = "diff")
    /\ q \notin flushed
    /\ flushed' = flushed \cup {q}
    /\ UNCHANGED <<dbms, req, pc, held, ran, end, pool, open, db>>

(* dumpResultSet, writeExecuteOutput; doExecute commits afterwards. *)
Write(q) ==
    /\ pc[q] = "write"
    /\ IF Op(q) = "execute" THEN Goes(q, "commit") /\ UNCHANGED end ELSE Ends(q, "ok")
    /\ UNCHANGED <<dbms, req, held, ran, flushed, pool, open, db>>

(* An exception that no handler rolls back for. *)
WriteFails(q) ==
    /\ pc[q] = "write"
    /\ \E how \in {"request", "server"} : Ends(q, how)
    /\ UNCHANGED <<dbms, req, held, ran, flushed, pool, open, db>>

(* doCommit: all that the connection's transaction holds. *)
Commit(q) ==
    /\ pc[q] = "commit"
    /\ CommitsWith(held[q][1], {})
    /\ IF Op(q) = "execute" THEN Ends(q, "ok") ELSE Goes(q, "answer") /\ UNCHANGED end
    /\ UNCHANGED <<dbms, req, held, ran, flushed, pool>>

(* The database discards the transaction. *)
CommitFails(q) ==
    /\ pc[q] = "commit"
    /\ open' = [open EXCEPT ![held[q][1]] = {}]
    /\ Ends(q, "sql")
    /\ UNCHANGED <<dbms, req, held, ran, flushed, pool, db>>

(* writeUpdateCount, the script that applyDiffs has run. *)
Answer(q) ==
    /\ pc[q] = "answer"
    /\ Ends(q, "ok")
    /\ UNCHANGED <<dbms, req, held, ran, flushed, pool, open, db>>

(* closeConnection; before it, for SELECT_ANY only, doRollback (the finally *)
(* blocks).                                                                 *)
Closed_LikeSelect(q) ==
    /\ db' = IF dbms.close = "commit" THEN db \cup UNION {open[c] : c \in Mine(q)} ELSE db
    /\ open' = IF dbms.close = "keep" THEN open ELSE Undone(q)
Closed(q) ==
    /\ db' = IF dbms.close = "commit" /\ Op(q) # "selectAny"
             THEN db \cup UNION {open[c] : c \in Mine(q)} ELSE db
    /\ open' = IF dbms.close = "keep" /\ Op(q) # "selectAny" THEN open ELSE Undone(q)

Returned_FirstOnly(q) == pool \cup (IF held[q] = <<>> THEN {} ELSE {held[q][1]})
Returned(q) == pool \cup Mine(q)

(* applyDiffs closes before the post-hooks run.  The finally of             *)
(* Diff2QServlet, not that of DataDiffServlet, flushes the response.        *)
Close(q) ==
    /\ pc[q] = "close"
    /\ Closed(q)
    /\ UNCHANGED flushed \/ (Op(q) = "diff2q" /\ flushed' = flushed \cup {q})
    /\ pool' = Returned(q)
    /\ held' = [held EXCEPT ![q] = <<>>]
    /\ Goes(q, IF Op(q) = "diff" /\ end[q] = "ok" THEN "hooks" ELSE "done")
    /\ UNCHANGED <<dbms, req, ran, end>>

(* The post-hooks of an applied diff: a script that ends well, or not. *)
Hooks(q) ==
    /\ pc[q] = "hooks"
    /\ Goes(q, "done")
    /\ \E how \in {"ok", "request", "server"} : end' = [end EXCEPT ![q] = how]
    /\ UNCHANGED <<dbms, req, held, ran, flushed, pool, open, db>>

Handler(q) ==
    \/ Borrow(q) \/ BorrowFails(q)
    \/ Run(q) \/ SqlFails(q) \/ DdlRefused(q) \/ InfoFails(q)
    \/ Flush(q) \/ Write(q) \/ WriteFails(q)
    \/ Commit(q) \/ CommitFails(q) \/ Answer(q)
    \/ Close(q) \/ Hooks(q)

Next == \E q \in Calls : Handler(q)

(* A thread goes on when it can; a pool need not have a timeout. *)
Progress(q) ==
    \/ Borrow(q) \/ Run(q) \/ Write(q) \/ Commit(q) \/ Answer(q) \/ Close(q) \/ Hooks(q)

Spec == Init /\ [][Next]_vars

FairSpec == Spec /\ \A q \in Calls : WF_vars(Progress(q))

-----------------------------------------------------------------------------
(* handleException of QueryOn and service of AbstractHttpServlet (diffs,    *)
(* info) make the answer an error, but once the response is committed its   *)
(* status has left and the answer ends as if it were complete.  They do not *)
(* handle the exceptions called "server".                                   *)
Told(q) ==
    IF end[q] = "ok" \/ (q \in flushed /\ end[q] # "server") THEN "ok"
    ELSE IF q \in flushed THEN "cut" ELSE "refused"

Own(q) == {q} \X (1 .. Statements(q))

(* A client that is told of the success of an update, a routine or a diff   *)
(* finds all its changes in the database (doSql, doExecute, applyDiffs),    *)
(* unless a routine's answer was flushed and its request failed afterwards: *)
(* doExecute writes before it commits.                                      *)
Promises(q) == Updates(q) \/ Op(q) \in {"execute", "diff"}
ToldIsCommitted ==
    \A q \in Calls :
        pc[q] = "done" /\ Promises(q) /\ Told(q) = "ok" =>
            Own(q) \subseteq db \/ (Op(q) = "execute" /\ q \in flushed /\ end[q] # "ok")

(* A request that is refused has changed nothing and never will, whoever    *)
(* borrows its connection next.  The exceptions are a post-hook that fails  *)
(* after the commit and, when close() does not roll back, the endings for   *)
(* which no handler does: a refused count, a diff half applied, and the     *)
(* exceptions other than SQLException.  A request that may define objects   *)
(* is excepted where definitions commit by themselves: a diff that is       *)
(* refused half-way stays half applied there.                               *)
LeftToClose(q) ==
    /\ dbms.close # "rollback" /\ Op(q) # "selectAny"
    /\ end[q] # "sql" \/ Op(q) \in {"diff", "diff2q"}
RefusedIsUndone ==
    \A q \in Calls :
        pc[q] = "done" /\ Told(q) = "refused" /\ Own(q) \cap db # {} =>
            LeftToClose(q) \/ (Op(q) = "diff" /\ end[q] # "sql") \/ Implicit(q)

(* What only reads changes nothing: a select of the user never (the finally *)
(* of SELECT_ANY), a stored query, a statement with a result set and a data *)
(* diff only if close() does not roll back.  All this if the statement is   *)
(* no definition, or definitions do not commit by themselves.               *)
Reads(q) == Op(q) \in {"select", "selectAny", "diff2q"} \/ (Op(q) = "sql" /\ req[q].rows)
ReadsChangeNothing ==
    \A q \in Calls :
        Reads(q) /\ Own(q) \cap db # {} =>
            (dbms.close # "rollback" /\ Op(q) # "selectAny") \/ Implicit(q)

(* Requests never all wait on each other, as long as those that wait for    *)
(* their second connection (Diff2QServlet, DataDiffServlet) and those that  *)
(* lost one (InfoServlet) do not have the whole pool: an empty pool has a   *)
(* borrower that goes on and gives its connections back.                    *)
Stuck == {q \in Calls : (pc[q] = "borrow" \/ pc[q] = "done") /\ held[q] # <<>>}
GoesOn(q) ==
    \/ pc[q] \in {"run", "write", "commit", "answer", "close", "hooks"}
    \/ pc[q] = "borrow" /\ pool # {}
SomebodyGoesOn ==
    (\E q \in Calls : pc[q] # "done") /\ Cardinality(Stuck) < Cardinality(Connections) =>
        \E q \in Calls : GoesOn(q)

(* Under the same condition, every request ends. *)
RequestEnds ==
    [](Cardinality(Stuck) < Cardinality(Connections)) =>
        \A q \in Calls : <>(pc[q] = "done")
=============================================================================
