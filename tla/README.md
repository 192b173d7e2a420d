# QueryOn: specifications, model checking and proofs

QueryOn publishes relational databases over HTTP. A servlet (`QueryOn`) holds an
in-memory model of each schema (`SchemaModel`), turns a URL into a SQL statement, runs
it over JDBC and writes the result in one of many syntaxes. Queries, virtual tables and
executables that users define are rows of meta-tables (`qon_queries`, `qon_tables`,
`qon_execs`), copied into the `SchemaModel` and kept in step with it by *update
plugins*. This directory holds TLA+ specifications of the parts whose correctness is
hardest to test, TLC runs on small instances of them, and TLAPS proofs.

Paths below are relative to the repository; `QueryOn.java:n` is
`src/qon-core/src/main/java/tbrugz/queryon/QueryOn.java`, line n.

    tlc -workers 2 -config MCMetaSync_queries.cfg MCMetaSync      # one run
    tlapm MetaSyncProofs.tla                                       # one module of proofs

Seven groups of modules are complete:

| group | question | modules |
|---|---|---|
| meta-objects | does the in-memory model follow the table, under interleaved requests, reloads and failures? | `MetaRows`, `MetaStore`, `MetaSync`, `MetaSyncInvariant`, `MCMetaSync`, `MetaSyncProofs` |
| row writes | is what a write request commits what it selected and was allowed to change? | `RowRequests`, `RowStore`, `RowWrites`, `RowWritesInvariant`, `MCRowWrites`, `RowWritesProofs` |
| pages | is a page of a relation the rows that were asked for? | `PageLimits`, `ResultPages`, `RowWindow`, `RowWindowInvariant`, `MCRowWindow`, `RowWindowProofs` |
| editors | is an edit ever lost, or overwritten unseen? | `PageEditor`, `PageEditorInvariant`, `MCPageEditor`, `PageEditorProofs` |
| result table | does the table in the browser show what the database has? | `ResultView`, `ResultViewInvariant`, `MCResultView`, `ResultViewProofs` |
| relation lists | do location, list and selection of the page agree? | `RelationLists`, `RelationListsInvariant`, `MCRelationLists`, `RelationListsProofs` |
| transactions | is what clients are told what is committed? | `Transactions`, `TransactionsInvariant`, `MCTransactions`, `TransactionsProofs` |

## 1. Inventory

`PROJECT.json` lists every component with its sources and its status. What each keeps,
does and must get right:

**Meta-object store** (`UpdatePlugin`, `processor/QOnQueries`, `QOnTables`, `QOnExecs`,
`AbstractUpdatePlugin`, `UpdatePluginUtils`). State: the sets of views, tables and
executables of a `SchemaModel`; the plugin's `conn` field; the warnings, a map in the
servlet context. Operations: `onInit` (load), `onInsert`, `onUpdate`, `onDelete`,
`executePluginAction` (`readQuery`). They are called by request threads between the
statement and the commit, and by `doInit`. Hard: one plugin object is shared by all
threads without a lock; the change of the model precedes the commit; a reload replaces
model and plugin under running requests; loads fail half-way. Correct when: the model
says what the enabled rows say; an invalid object has a warning; a failed load leaves
nothing behind; the table changes by whole requests.

**Row writes** (`doInsert` 2636, `doUpdate` 2445, `doDelete` 2347 of `QueryOn`;
`DBUtil`). State: the table, the transaction of each handler. Hard: a handler takes
its decision over several statements of a READ COMMITTED transaction (the write, the
optimistic-lock check, the visibility count) while others commit in between. Correct
when: a commit writes only rows that the request selects at that instant and that are
as its client read them; the number of rows respects `updatemin`/`updatemax`; no row
leaves the sight of the relation's `sqlFilter` unnoticed; every request ends and gives
its rows back.

**Select and pages** (`doSelect` 1559, `dumpResultSet`, `dumpBlob`, `SQL.java`,
`ResultSetLimitOffsetDecorator`, the page buttons of `index.html`). State: the cursor,
the rows written, the offset the client is at. Hard: two places compute a limit from
five settings; the limit is applied by the SQL text, by a decorator or by the loop;
drivers differ (forward only, `isLast`). Correct when: a page has the rows of its
window, says whether more follow, and a client that turns pages misses no row.

**Initialisation and reload** (`doInit` 472-, `QOnContextUtils`, `QOnModelUtils`,
`ProcessorServlet`). State: properties, models, plugins and sources in the servlet
context. Hard: everything is replaced while requests run; properties are cleared before
they are loaded; two reloads may run at once. Its publication and load order is part of
`MetaSync`; the rest is planned.

**Connections** (`DBUtil`, pools). State: the pool, the open transaction of each
connection. Hard: what `close()` does with a transaction that is still open depends on
the pool; some requests need two connections, one servlet loses its own. Correct when:
no request commits what another one left behind, and the pool does not run dry.
Isolation and row locks are part of `MetaSync` and `RowWrites`, the pool and the fate
of open transactions of `Transactions`.

**Key filter** (`fullKeyDefined`, `filterByKey`, `getValuesOrderedByPkCols`). A pure
function from the parameters of a request to conditions on columns. Hard: partial keys
and keys given by column name. Planned (`RowKeys`).

**Request parsing** (`RequestSpec`, `ResponseSpec`): a request is a record in the
models. **SQL builder** (`SQL`): text; only limits and offset are modelled.

**Dispatch and authorization** (`doService` 993, `getActionType`, grants,
`filterStatus`, Shiro helpers). Decisions of one request; planned as operators.

**Execution of scripts, SQL and diffs** (`doExecute`, `doSql`, the query branch of
`doSelect`, `applyDiffs`, `Diff2QServlet`, `DataDiffServlet`, `InfoServlet`). State: the
connections borrowed, the transaction, the response and whether it is committed. Hard:
every handler has its own order of statement, answer, commit and rollback, and its own
list of exceptions that it rolls back for; an answer that has left cannot be taken back.
Correct when: who is told of a success finds the changes in the database, who is refused
finds nothing changed, and what only reads changes nothing.

**Status listings and decorators** (`doStatus`, `UnionResultSet`, filter decorators).
Hard: positions across several result sets. Planned (`StatusRows`).

**Batch processors** (`QOnQueriesProcessor`, loaders, validator). Hard: a batch in
which some rows fail. Planned (`QueriesBatch`).

**Browser editors** (`qon-editor.html`, `pages-editor.html`). State: the text, the
version that was read, whether the text is altered, the save button. Hard: lost answers,
double saves, text typed while a save is in flight, rows removed and created again.
Correct when: no save overwrites an edit that its tab has not read, and no text is
closed without a warning.

**Result table** (`index.html`, `js/queryon-b.js`, `js/table2dataobject.js`). State: the
table shown, its header, the order field, the dialog. Hard: nothing is disabled while a
call is in flight, and answers find a page that has changed. Correct when: the table,
once quiet, is what the database has, and its header says how it is sorted.

**Relation lists** (`index.html`, `js/queryon-b.js`, `js/queryon-b2.js`). State: the
selects for model and relation, the relations known, the history of the location. Hard:
the list is loaded in between; location and selects are each derived from the other.
Correct when: the location names what is selected, and what was asked for is selected.

**Not planned**: output syntaxes, output decorators, GraphQL, SOAP, Swagger, OData,
WebDAV translation, markdown and pages servlets, filters that set headers, Spring Boot
and Keycloak wiring, presentation in the browser, vendored scripts, demos. They
translate or lay out data, with no state shared between requests.

### How the parts interact

    editor, result table, relation lists (one page, several calls in flight)
      |
    client --HTTP--> QueryOn.doService --> doSelect  --> result set decorators --> answer
                                       --> doInsert/doUpdate/doDelete --SQL--> table
                                                   |--> update plugin --> SchemaModel
                                       --> manage/reload --> doInit --> new SchemaModel
                                                                    --> new update plugins
                                       --> doExecute/doSql/diff --SQL--> pool, tables

Request threads share the `SchemaModel`, the map of plugins, each plugin's connection
field, the warnings and the pool. The database's row locks are all that orders them.
In the browser, handlers of clicks and of answers share the page; nothing orders the
answers of two calls.

### Hazards

`PROJECT.json` lists 40 hazards, each at its line, with the properties that would catch
it going wrong. Those without a property carry a note: they belong to a planned module,
or lie below the level of the models (a torn `HashMap`).

## 2. Plan

Done, in this order: meta-objects, row writes, pages, editors, result table, relation
lists, transactions. To come, most important first:

1. `RowKeys`: which rows a key selects. Operators over parameters and column lists,
   compared over bounded inputs with "every given value is compared with its own
   column"; no recursion, so theorems about full keys are in reach.
2. `Reloads`: `doInit` step by step with two reloads and requests: properties, models,
   plugins, connections; composes with the load of `MetaSync`.
3. `StatusRows`: `UnionResultSet` and the filter decorators as cursors; abstract
   specification `ResultPages`, already there.
4. `QueriesBatch`: the batch with one savepoint per query.
5. `Access`: action type, grants, roles and `filterStatus` as operators.
6. `DiffSettings`: the static settings of the diff classes that two requests change.

Every invariant of a passing run is now a theorem (section 5). Theorems worth proving
with the modules to come: a full key selects at most one row; two reloads publish the
model and the plugins of one of them; `StatusRows` implements `ResultPages` for the
corrected decorators and the condition under which it does now.

## 3. The models

Conventions. One action per step that other threads can see. `pc[t]` is where the
handler of thread t is; an action's name is its function or the step's purpose, and
`PROJECT.json` "map" gives the lines of each definition. Bounds are constants named
`Max...` and appear in guards only.

### Meta-objects: `MetaSync`

| state | code |
|---|---|
| `rows`, `lock` | the committed meta-table; row locks of open transactions |
| `pc`, `req` | the handler of each request thread; its `RequestSpec` |
| `plug`, `old`, `valid` | locals: the plugin fetched from `updatePlugins`; the object removed; the outcome of the validation |
| `epoch`, `mem` | the `SchemaModel` that `SchemaModelUtils.setModels` published last; what every `SchemaModel` created so far contains |
| `plugin`, `conn` | the content of `updatePlugins`; the `conn` field of every plugin |
| `warn` | names with a warning in the servlet context |
| `up`, `lpc`, `snap`, `todo` | `doInit`: whether requests are served; where it is; what `onInit` selected and has not added yet |
| `drift` | history, see below |

A write is `Receive`, `ExecSql` (or `SqlRejected`, `SqlZeroRows`), `FetchPlugin` (or
`FindsNoPlugin`), then the plugin's own steps `RemoveOld`, `Validate`, `AddNew` (or
`PluginRejects`), then `Commit`, `CommitFails` or `Abandon`. A reload is `Publish`,
`ClearPlugins`, `SelectRows`, one `LoadRow` per row, and `Activate` or `LoadFails`. The
three plugins differ in `Keeps` (what a load does with a definition that the database
rejects), `StopsLoad`, `Restored` and `Accepted`, chosen by the constant `Kind`.

*Data.* The key of the three tables is NAME; a row is its definition and its DISABLED
flag. The other columns play no part in the properties. `Requests` is a parameter, a
set of records; `MCMetaSync` distinguishes what the editor pages send from what the API
accepts besides.

*`drift`.* The code does not keep model and table equal under all circumstances, and
"they are equal unless something went wrong" would say nothing. `drift` records the
names hit by one of these causes, and nothing else:

- a plugin call of a handler that holds no row (`updatemin=0` and no row found);
- a partial update, or an insert or update of a disabled row: `AddNew` builds the entry
  from the request alone;
- a commit that fails after the plugin has changed the model, or a transaction that
  `close()` commits after an exception (`Abandon`);
- a change that went to a replaced model, or found no plugin;
- in `QOnExecs`, an update that is rejected: the old executable is not put back.

Each is a weakness of the code that a maintainer may want to know. The next load clears
`drift`, since it reads the table afresh. `ModelFollowsTable` says that for every other
name, whatever the interleaving, the published model is what the table says; so the
list is complete for the requests of the model, which no test could show (section 6 says
what these leave out). `Undisturbed` excludes the causes that lie in
requests and commits (whole rows only, every commit succeeds, not `QOnExecs`): then, as
long as nobody reloads, model and table agree without exception (`ModelIsTable`).

*Abstract specification.* `MetaStore`: a table that changes by the whole effect of one
request applicable at that instant. `MetaSync` implements it with `table <- rows`.

### Row writes: `RowWrites`

| state | code |
|---|---|
| `rows` | the committed relation |
| `own[t]` | the rows written by the transaction of thread t (`Same` where it wrote none); they are locked for others |
| `pc`, `req` | the handler (`sql`, `recheck`, `count`, `visible`, `commit`) and its request |
| `unseen` | history: keys of rows that a committed update made invisible to the `sqlFilter` |

`ExecSql` is the INSERT, UPDATE or DELETE with all its conditions (`filterByKey`,
`filterByXtraParams`, `applyQonTableSqlFilter`, `tryOptimisticLock`); `Recheck` is
`checkOptimisticLock`, run when nothing was updated; `CheckCount` the bounds on the
number of rows; `CheckVisible` the count after an update; `Commit` and `SqlFails` end
the transaction. Isolation is READ COMMITTED, which the code assumes (it never sets a
level): a statement sees committed rows and its own, and waits for rows that others
have written. A statement acquires its rows in one step; a deadlock between two
statements that acquire many rows is left to the database and not modelled.

*Data.* A row has a key, a column that clients filter on, whether the `sqlFilter`
accepts it, and its lock column. A request is a record of the parameters that matter
(`RowRequests`).

*Abstract specification.* `RowStore`: one atomic change of rows that the request
selects *now* and that are as the client read them, in an allowed number, leaving them
visible. The handler takes up to four steps between which others commit; the refinement
says that this cannot be seen in the table. `RowStore!AsRead` also says what a lock is
worth: a null lock column matches every request, and deletes do not look at it.

### Pages: `RowWindow`

| state | code |
|---|---|
| `setting` | limits of the request, the query text and the properties, the driver and the strategy (`LimitOffsetStrategy`), the size of the relation |
| `offset`, `answer`, `shown` | the client: the offset asked, the page it got, all rows it has seen |
| `pc`, `pos`, `left`, `nexts`, `page` | the request: the database cursor, rows still to skip, `nextCount` of the decorator, rows written |

`Execute` builds the statement (limit pushed into SQL or left to the decorator) and
places the cursor; `Skip` is the loop for forward-only drivers; `WriteRow` and
`WriteFooter` are `dumpResultSet`, `WriteValue` is `dumpBlob`, which refuses a window
without a row and one with several, `WriteHeaders` a HEAD request; `NextPage` and `PreviousPage` are the buttons of `index.html`. Rows are
numbers: a page is right when it has the right numbers in the right order. The relation
does not change between two pages; the program promises nothing for that case. Count
and pivot requests, syntaxes that read the result set themselves and negative limits
are left out.

*Abstract specification.* `ResultPages`: the documented window and whether rows follow;
for a value the window's only row, or a refusal.
`PageLimits` has both the limits as the code computes them (`PushedLimit`,
`ShownLimit`) and the one that `src/doc/queryon-config-tips.md` describes
(`DocumentedLimit`); `LimitsAgree` says when they coincide.

### Editors: `PageEditor`

| state | code |
|---|---|
| `table`, `log` | the relation, as `RowStore` has it; history: every content of the object's row |
| `text`, `lock` | of each tab: the editor, the field `optimisticlock` |
| `saved`, `altered`, `busy` | `isQuerySaved` (of a page: the field `id` is set); `queryAltered`, `pageAltered`; the class `onaction` of the save button |
| `basis`, `overtaken` | history: which content the form is based on; whether the text differs from that of a save in flight |
| `call` | the calls in flight, with what the form had when they were sent |

`Edit`, `Save`, `Remove` and `Open` are the user's; `Serve` is the server's; `Loaded`,
`Saved` and `Removed` are the handlers of answers, `Fail` those of other statuses and of
errors (the answer may be lost after the call was served), `Vanish` a call of a page
that is gone. The server is `RowStore`: `Writes` is `RowStore!Apply`, which `RowWrites`
implements, so the editors are checked against what the handlers promise and not
against their steps.

`NoBlindOverwrite` names what the lock does not protect: a row whose lock column is
null, and a query that was removed and created again, for its versions start from 1
again while deletes do not look at the lock. `ClosesOnlyStored` names the text that can
be lost: `qon-editor.html:418` and `pages-editor.html:191` clear the flag for whatever
text is there when the answer arrives, also for what was typed since the save was sent.

### Result table: `ResultView`

| state | code |
|---|---|
| `stored` | the tables of the database, which only this page changes |
| `selected`, `order` | the select `objects`, the field `order` |
| `content`, `dimmed` | the table shown, with the marks of its lines and the order in its header; `tblInactivate` |
| `dialog` | the update dialog, with the number of its line |
| `call` | the calls in flight; a run captures its order, a write its line number |
| `sure` | history, see below |

`Go`, `Sort`, `Select`, the dialogs and `Delete` are the user's; `ShowRows` and
`ShowChange` are the handlers of answers, `Fail` the others. A select lists each row
once, sorted by its key if the url has an order and in any order otherwise (`Listings`).
`sure` becomes false, until
the next run that meets no write, at what may part table and database: a write sent
while another call is in flight or a run sent while a write is (the answers may come in
either order, and a line is patched by its number after the content was replaced); a
write for another line than the one shown (the select was changed without running, and
the buttons of the old table act on the new relation, `index.html:741-783`, `959-972`;
the dialog outlived its table); a write whose answer is lost. `ShownIsStored` says that
nothing else does. `Patient` says the same of the user: one who waits for every answer,
edits only the relation selected, opens no deleted line and closes the dialog before
loading or deleting keeps `sure`, unless the network loses the answer of a write.

### Relation lists: `RelationLists`

| state | code |
|---|---|
| `page` | the selects `model` and `objects`, the options of the latter, `relationsHash` (`known`), the history and the place in it |
| `load` | `GET /relation.json` in flight, with the callback of a navigation |
| `run`, `backs` | runs in flight; `history.back()` of links whose run has failed |
| `asked`, `hasty`, `mixed` | history: the place asked for last; whether something else met a missing list since; whether two lists were in flight at once |

`Followed` is `updateSelectedQueryState`, `Rewritten` is `updateState`, `Found` the
callback that selects; the actions compose them as the handlers do. The exceptions in
the properties are weaknesses of the page: two answers mix the options of two models
(`queryon-b.js:59` appends); a run that is answered while a list is loading rewrites the
location without a relation (`index.html:357`), so that the place asked for is lost; and
`history.back()` of a link whose run failed late (`index.html:546`) undoes a newer
navigation.

### Transactions: `Transactions`

| state | code |
|---|---|
| `dbms` | the database and its pool: what `close()` does with an open transaction, whether a definition commits by itself (`dataDefinitionCausesTransactionCommit`) |
| `req`, `pc` | the request and where its handler is |
| `held`, `pool` | the connections of each request; those nobody has |
| `ran`, `open`, `db` | statements run; the changes of each open transaction; the committed ones |
| `flushed`, `end` | `resp.isCommitted()`; how the handler ended: well, or by which kind of exception |

One handler for seven operations, whose differences are operators: `Borrows`,
`Statements`, `RollsBack` (whose `catch` rolls back, and for which exceptions), `AfterRun`
(whether it answers or commits first), `Closed` (the `finally` blocks). A statement is
a change that the program does not see: a query may call a function that writes (the
connection of `SELECT_ANY` is asked to be read-only, which for JDBC is a hint, so the model
lets it write). Any statement but those of `InfoServlet` may be a definition (`ddl`), those
of a diff always may. Where definitions commit by themselves, one commits what its
connection has open, also when it is then refused (`DdlRefused`).

The exceptions in the properties, each a behaviour of the code: `doExecute` answers
before it commits (`QueryOn.java:2118`), so a flushed answer may belong to a routine that
is rolled back; a count above `update-max` is refused (`:1814`) after the statement has
run and is not rolled back; handlers roll back for `SQLException` only; `applyDiffs`
never does, and a post-hook that fails after its commit (`DiffServlet:254`) makes the
request fail although it was applied. All of these leave the transaction to `close()`;
JDBC does not say what that does, hence the three values of `close`. With a pool that keeps the
transaction, the next borrower commits what another request left.

`Implicit` is the exception of `RefusedIsUndone` and `ReadsChangeNothing` for definitions
that commit by themselves: a diff whose second statement is refused stays half applied
whatever `close()` does, and the rollback of `SELECT_ANY` comes too late for a definition.
The code knows of such databases, but its test (`QueryOn.java:1120-1128`) is switched off
(`:380`). `ToldIsCommitted` needs no such exception.

`Told` is `handleException` of `QueryOn`, and `service` of `AbstractHttpServlet` for the
diffs and `InfoServlet`. `Diff2QServlet:98-103` may flush the response before the exception
gets there, so that a failed diff of data is told with status 200 (`Close`);
`DataDiffServlet` does not. No property relies on the success of such a diff.

`RequestEnds` names
what empties the pool: `InfoServlet:207-209` skips `close()` after an exception, and
`Diff2QServlet:68-69` and `DataDiffServlet:139-140` hold one connection while they wait
for the second. `SomebodyGoesOn` is the safety half of it: as long as such requests
(`Stuck`) do not have the whole pool, some handler that is not over can take a step.

## 4. What the runs check

All properties are stated and explained where they are defined.

| run | instance | properties | what it shows |
|---|---|---|---|
| `sync_queries` | 2 threads, 2 names, a good and a bad definition, 12 kinds of request, every fault, 2 requests, 2 further models; 940 000 states | `TypeOK`, `ModelFollowsTable`, `InvalidHasWarning`, `FailedLoadLeavesNothing`, `TableIsAtomic` | queries follow their table through reloads, restarts and failures; `drift` is complete for these requests; warnings agree with the model |
| `sync_tables` | 2 threads, 7 kinds of request, `QOnTables`, failing commits, 2 requests, 1 further model, fair; 62 000 states | `ModelFollowsTable`, `RequestEnds`, `ReloadEnds` | a rejected update restores the old table; no request and no reload hangs |
| `writes_lock` | 3 threads, 2 keys, 2 versions, optimistic lock, 3 requests, fair; 118 000 states | `TypeOK`, `CommitsWhatItSelected`, `WriteEnds` | no lost update; rows are given back |
| `writes_filter` | 2 threads, `sqlFilter`, keyed and group requests, 4 requests; 103 000 states | `CommitsWhatItSelected`, `KeyedUpdatesSeen` | the same with visibility and bounds on the number of rows; a keyed update that passed its check hides no row |
| `writes_hiding` | an update of a group and an insert into it | `SeenAfterUpdate`, **violated** | finding 1 |
| `window_pages` | relations of 0 to 5 rows, limits none or 0 to 3, all drivers, pushed or not, fair; 219 000 states | `TypeOK`, `NothingSkipped`, `PagesAreWindows`, `PageComes` | pages are right wherever the limits agree |
| `window_more` | any setting | `MoreRowsNoticed`, **violated** | finding 2 |
| `window_value` | a value with `limit=1`, limit left to the result set | `ValueRefusedUnlessOne`, **violated** | finding 3 |
| `editor_tabs` | 2 tabs, 2 connections each, 2 texts, 4 calls; 1 520 000 states | `TypeOK`, `ClosesOnlyStored`, `BusyMeansSaving`, `NoBlindOverwrite` | locks protect edits through late, lost and repeated saves, but for the two exceptions named |
| `view_edits` | 2 relations, 2 keys, 2 calls in flight, 4 calls; 2 380 000 states | `TypeOK`, `MarksFollowRows`, `ShownIsStored`, `DimmedMeansRunning` | the table follows the database outside the overlaps named; a lost run leaves nothing dimmed |
| `lists_places` | 2 models, 2 relations, 3 bookmarks, 2 loads, 2 runs, 3 clicks, fair; 161 000 states | `TypeOK`, `LocationNamesSelection`, `AskedIsSelected`, `ListIsOfModel`, `LoadingEnds` | bookmarks and history lead where they say; lists that ask for lists come to an end |
| `outcomes` | 2 requests of 9 kinds, definitions or not, 2 connections, 6 databases, fair; 1 092 000 states | `TypeOK`, `ToldIsCommitted`, `RefusedIsUndone`, `ReadsChangeNothing`, `SomebodyGoesOn`, `RequestEnds` | what clients are told is what is committed, but for the endings and the definitions named |

**Bounds.** Two names are enough for a rename onto another row, two threads for every
conflict over a row (a third one waits behind the same lock; `writes_lock` has it). Each
request of `MetaSync` touches at most two names and each behaviour starts from any
committed table, so two requests give every pair of handlers in every interleaving.
A second further `SchemaModel` lets a handler outlive two
reloads. `MaxRequests` and `MaxEpoch` appear only in the guards of `Receive`, `Publish`
and `Crash`. In `RowWindow` five rows with limits up to three give several pages, full
and short last ones, and an offset past the end; `FetchMax = 2` puts offsets on both
sides of the forward-only limit. In `PageEditor` four calls are two loads and two saves,
or a save, a removal, an insert and a late save. In `ResultView` two calls in flight are
what it takes to answer in the wrong order; two more before them change the table they
meet. In `RelationLists` three clicks are a navigation, one that overlaps it and one that
goes back. In `Transactions` one request leaves a transaction and another commits it, and
a lost connection and a pair, or two pairs, exhaust two connections. The proofs make no use of any of these bounds.

**Deadlock.** `CHECK_DEADLOCK FALSE` everywhere: a behaviour rightly stops when its
requests are used up and every handler is idle, or when a client stops turning pages.
That nothing stops earlier is what `SomebodyGoesOn`, `RequestEnds`, `ReloadEnds`, `WriteEnds`, `PageComes`
and `LoadingEnds` check.

**Fairness.** Weak fairness of each thread's steps (`Step(t)`), of `doInit` (`Load`) and
of the serving of a request (`Serve`): a thread of the container that can run does. A
thread waiting for a row is enabled when the row is free; with finitely many requests
weak fairness suffices, and strong fairness, which would ask the database to be fair
about its lock queue, is not assumed. Requests, reloads, failures and crashes are never
assumed to happen. `ReloadEnds` is checked without failing reads: a reload whose reads
fail ends without the plugin, as `LoadFails` says. In `RelationLists` a call is answered
or the browser reports its failure (`LoadStep`). In `Transactions` a handler that can go
on does (`Progress`); that a pool refuses a request after a time is possible and not
assumed, so `RequestEnds` is stated for behaviours in which the requests that hold a
connection for nothing (`Stuck`) never have the whole pool.

**Symmetry.** Threads are interchangeable in the runs of `MetaSync` and `RowWrites` that
use it, tabs and connections in `editor_tabs`, calls in `view_edits`; no run with a
liveness property uses it.

### What the properties can see

A definition named `X_Y` (`NewRow_NullDef`, `Landing_OnRow`...) is a plausible wrong
version of `X`: a cleanup that was forgotten, an off-by-one, a check that is missing.
No specification uses it. With it in place of `X` (in a copy of the module) TLC finds
the property violated that `PROJECT.json` "mutants" pairs it with, so that property
does depend on `X` being as it is in the code. Every property of a passing run has at
least one.

### Findings

1. *An update can hide a row* (`writes_hiding`, QueryOn.java:2584). "check if row is
   still visible" compares the number of updated rows with a count made afterwards. A
   row that another request commits in between enters the count and makes up for the
   one that vanished. Only requests that select more than one row can meet this:
   `KeyedUpdatesStaySeen` proves that keyed updates do not.
2. *Rows out of reach* (`window_more`, QueryOn.java:1741). With `limit-max` in the query
   text and a smaller default limit, the SQL text fetches default + 1 rows, the loop
   writes them all, and the footer says that no rows follow; `queryon-config-tips.md`
   promises the default. The page is shorter than the limit in its header, so
   `index.html` offers no next page: with default 1 and `limit-max` 3, the rows after the
   second are not reachable by the buttons. `FooterIsRight` proves that settings whose limits
   agree do not meet this.
3. *A value refused* (`window_value`, QueryOn.java:3397). `isLast()` is answered by the
   driver, below the decorator that applies `limit=1`: a value is refused for "more than
   1 row" although the window has exactly one. `RefusalIsRight` proves that a value with a
   limit of its own, applied by the database or by a driver without `isLast()`, is refused
   only if its window has no row (`dumpBlob`: "ResultSet has no rows") or several.

The weaknesses of the editors, the pages and the transactions that section 3 describes
contradict no text of the repository, so they are exceptions of the properties of
passing runs, each written as a condition as narrow as TLC allows: with one of them
left out TLC finds the behaviour.

## 5. What is proved

TLAPS checks these theorems for any number of threads, names, rows and requests and any
bounds. The assumptions are the named `ASSUME`s of the modules (sentinels are outside
the sets they stand beside, bounds are naturals, `Keys` and `Connections` are finite,
`Keys` and `Values` of `ResultView` are not empty, requests are records of their type); TLC evaluates them in every run.

| theorem | statement |
|---|---|
| `MetaSyncProofs!Invariance`, `TypeCorrect` | `Spec => []IInv`, `Spec => []TypeOK` |
| `MetaSyncProofs!FollowsTable` | `Spec => []ModelFollowsTable` |
| `MetaSyncProofs!WarningsFollow` | `Spec => []InvalidHasWarning` |
| `MetaSyncProofs!FailedLoadIsEmpty` | `Spec => []FailedLoadLeavesNothing` |
| `MetaSyncProofs!TableRefines` | `Spec => TableIsAtomic` |
| `MetaSyncProofs!WholeRequestsKeepModel` | `Spec /\ Undisturbed /\ [][~Publish]_vars => []ModelIsTable` |
| `RowWritesProofs!Invariance`, `TypeCorrect` | `Spec => []IInv`, `Spec => []TypeOK` |
| `RowWritesProofs!KeyedUpdatesStaySeen` | if every update selects by one key, `Spec => []SeenAfterUpdate` |
| `RowWritesProofs!KeyedUpdatesChecked` | `Spec => []KeyedUpdatesSeen` |
| `RowWritesProofs!WritesRefine` | `Spec => CommitsWhatItSelected` |
| `RowWindowProofs!Invariance`, `TypeCorrect` | `Spec => []IInv`, `Spec => []TypeOK` |
| `RowWindowProofs!NoRowSkipped` | `Spec => [](Agreed(setting) => NothingSkipped)` |
| `RowWindowProofs!PagesImplemented` | `Spec /\ Agreed(setting) => PagesAreWindows` |
| `RowWindowProofs!FooterIsRight` | `Spec /\ Agreed(setting) => []MoreRowsNoticed` |
| `RowWindowProofs!RefusalIsRight` | `Spec /\ Agreed(setting) => []ValueRefusedUnlessOne` |
| `PageEditorProofs!Invariance`, `TypeCorrect` | `Spec => []IInv`, `Spec => []TypeOK` |
| `PageEditorProofs!NoTextLost`, `ButtonReleased` | `Spec => []ClosesOnlyStored`, `Spec => []BusyMeansSaving` |
| `PageEditorProofs!EditsAreRead` | `Spec => NoBlindOverwrite` |
| `ResultViewProofs!Invariance`, `TypeCorrect` | `Spec => []IInv`, `Spec => []TypeOK` |
| `ResultViewProofs!TableIsCurrent` | `Spec => []ShownIsStored` |
| `ResultViewProofs!RowsAreSorted` | `Spec => []MarksFollowRows` |
| `ResultViewProofs!DimmedRuns` | `Spec => []DimmedMeansRunning` |
| `ResultViewProofs!PatienceSuffices` | `Spec /\ [][Patient]_vars => []sure` |
| `RelationListsProofs!Invariance`, `TypeCorrect` | `Spec => []IInv`, `Spec => []TypeOK` |
| `RelationListsProofs!PlaceIsNamed`, `ListsDoNotMix` | `Spec => []LocationNamesSelection`, `Spec => []ListIsOfModel` |
| `RelationListsProofs!AskedIsReached` | `Spec => []AskedIsSelected` |
| `TransactionsProofs!Invariance`, `TypeCorrect` | `Spec => []IInv`, `Spec => []TypeOK` |
| `TransactionsProofs!SuccessIsCommitted` | `Spec => []ToldIsCommitted` |
| `TransactionsProofs!RefusalIsUndone` | `Spec => []RefusedIsUndone` |
| `TransactionsProofs!ReadsAreSafe` | `Spec => []ReadsChangeNothing` |
| `TransactionsProofs!NoDeadlock` | `Spec => []SomebodyGoesOn` |

**`MetaSync`.** `ModelFollowsTable` speaks of rows that no transaction holds; it is not
inductive because a commit makes a held row free. `Following` adds how far the model is
from a *held* row at each point of its handler (`Pending`), and from a row that a load
has yet to add. `Locking` is what makes this stable: a thread in its transaction holds
all the rows its statement wrote and the statement would still find them so. `Loading`
says that nobody has touched a model before its plugin is published: a handler of the
old plugin works on the old model. `Control` ties the labels to the request.
`Warning` does for the warnings what `Following` does for the definitions: between the
validation and the new entry, the warning may be that of the entry to come (`Explaining`).
`WholeRequestsKeepModel` closes the gap that `drift` leaves in `ModelFollowsTable`: without
a reload a handler always has the published plugin, a whole request makes the entry that
its row says, and a refused one is undone on both sides (`Calm`), so that `drift` stays
empty, through failed loads and restarts of the server too.

**`RowWrites`.** The refinement needs that what a statement found still holds at the
commit: `HeldRowsAreFresh` (a held row is in the request's target *now*, and the row
written is the request's change of it). It holds because a held row cannot change.
`Checked` carries the outcome of each check to the commit. That the visibility count is
reliable for one key is arithmetic of a set with at most one element; for groups it
fails (finding 1), so `Seen` has its hypothesis.

**`RowWindow`.** `Agreed` says that the limits coincide, and that a value has its own
limit. Without it the statements are false (findings 2 and 3); where the cursor is does
not depend on it. `FooterIsRight` and `RefusalIsRight` are not proved from the steps of
the request but from the refinement: `ResultPages` answers with the window and with
whether rows follow, or refuses a value whose window has not one row, and the invariant has
the number of rows. `Cursor` says where the cursor is as a function of the rows skipped and
written, for the pushed and the decorated case in one formula. `Seen` makes
`NothingSkipped` inductive: what the client saw is an interval which the page in
progress will extend on either side.

**`PageEditor`.** A version number must name one content. `Ascending` says that it does
between two removals, since `RowStore` accepts a save only with the number that is
stored and the call carries the next one; `Forms` and `CallsKnown` say that every tab
and every call on its way knows the content its lock was read from, or made
(`BasedOn`, `Known`). An accepted save has the row's number, so its basis is the row's
last content, or there was a removal since, or the row has no number.

**`ResultView`.** That the lines are the rows (`Holds`) cannot be kept by a write that is
served before its answer is shown. `Agrees` says that while `sure` holds there is at most
one write in flight, aimed at its line (`Aimed`: neither the line nor its key has changed
since it was sent), and that the table *with the answer applied* has the rows. For runs,
`Answers` says the same of the answer on its way, as long as no write was in flight with
it (`CleanAlone`); the answer that is shown then replaces the lines by the rows. `Lengths`
bounds the lines by the inserts still in flight, which `TypeOK` alone cannot.
`PatienceSuffices` rests on `Untroubled`: one call at most is in flight, and the line of an
open dialog still has the key that the dialog was opened for, because the answer of an
update keeps the key of its line and that of an insert adds a line at the end.

**`RelationLists`.** `OneList` says what a list in flight finds: unless two overlap, an
empty select of the same model. `LocationNamesSelection` is then inductive by itself,
for every handler either rewrites the location, or empties the select, or follows the
location. `Heading` is what `AskedIsSelected` rests on, which speaks of quiet moments
only: in between, the location leads to the place asked for, and the one list in flight is
that of the model selected, so that its callback will select what the location names.

**`Transactions`.** `Borrowed`: a connection has one borrower. `Pending` and `Stored` follow the
changes of a request from its own transaction to the database. `OpenOrigin` and
`DbOrigin` are the converse: a change in an open transaction is of its borrower, or was
left by a request that is over and whose `close()` keeps it; a committed change is of a
request that committed, or was left to `close()`. Both are needed at once, because a
commit takes everything that the connection's transaction holds. A definition that commits by
itself (`Run`, `DdlRefused`) is such a commit in the middle of a handler: `DbOrigin` excepts
`Implicit` requests and no others, and `Pending` says that the changes of a handler are in
its transaction or in the database already. For `NoDeadlock`,
`PoolInv` says that every connection is in the pool or borrowed, and that a handler that is
over has none, `InfoServlet`'s excepted: if nobody can go on the pool is empty, and each
connection is with a stuck request of its own, so these are as many as the connections.

**Only model-checked.** The liveness properties `RequestEnds` (of `MetaSync` and of
`Transactions`), `ReloadEnds`, `WriteEnds`, `PageComes` and `LoadingEnds`: liveness under
fairness and ENABLED are out of the prover's reach. And the violations of the three
findings, which are facts about one behaviour. Every invariant, and every refinement, that
a passing run checks is proved (those of `RowWindow` for the settings that agree, to which
its passing run is limited). Induction over data and `RECURSIVE` operators are out of
reach as well and are not used here.

## 6. Limits of the models

- A map operation, a validation and a statement are atomic; unsynchronised `HashMap`s
  may do worse than any interleaving.
- The database is READ COMMITTED with row locks; engines that lock tables or keep
  snapshots show fewer behaviours.
- Two reloads at once, the empty properties during a reload and classloading are not
  modelled.
- Grants and authorization are assumed to have let the request through.
- `INSERT ... SELECT`, blobs, generated keys and updatable views are left out of
  `RowWrites`; filters, ordering and grouping out of `RowWindow`.
- Known, and outside the properties: an update of a column that it filters on is refused
  although its rows stay visible (`QueryOn.java:2584` counts with the request's own
  filters). No page of the program sends one.
- `PageEditor` has the text as the only field of the object; grants and the running of a
  query from its editor are left out.
- In `ResultView` a call whose failure the page has seen is not served afterwards; no
  other page changes the database. Leaving the page before the first entry of the
  history is left out of `RelationLists`.
- The requests of `MetaSync` give `v:NAME`. An update without it makes the plugin build an
  entry of the name null (`QOnQueries.java:123`), which is one more cause of `drift` that
  the model leaves out.
- `MetaSync!Validate` leaves out the rollback of `QOnQueries.java:243` and `:251`: on a
  database that wants one after a failed statement, and gives no savepoint, it undoes the
  handler's whole transaction before the commit, and the model keeps an entry that the
  table has not. The model has databases that go on after a failed validation.
- In `RowWrites` a statement fails by an `SQLException` or a check; an exception of
  another class after `executeUpdate`, whose transaction `close()` ends, is in `MetaSync`
  only (`Abandon`).
- In `Transactions` a statement commits by itself as a whole or not at all, and databases
  that *ignore* definitions in a transaction (`dataDefinitionIgnoredInTransactions`) are
  left out.
- In `Transactions` a rollback succeeds, a commit that fails has discarded the
  transaction, and a hook ends. A connection that keeps its transaction also keeps its
  row locks, which would stop writers; the model has no locks.

### Not modelled

Output syntaxes and decorators, GraphQL, SOAP, Swagger, OData, WebDAV, markdown and
pages servlets, filters, Spring Boot and Keycloak wiring: they translate a request or lay
out data and keep no state between requests. Request parsing, the SQL text, keys,
authorization, status listings and batch processors are functions of one request; the
plan has those worth checking over bounded inputs. The scripts under
`src/qon-web/src/main/webapp/js/ace`, `typeahead.bundle.js`, `markdown.js`, `jscolor`
and the like are third-party code, nine tenths of the repository's JavaScript, and hold no
part of the program's logic.
