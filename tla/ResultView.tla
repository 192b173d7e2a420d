----------------------------- MODULE ResultView -----------------------------
(***************************************************************************)
(* The table of index.html: the page runs the relation that is selected,   *)
(* sorts its rows and edits them.  Every click sends a call and nothing is *)
(* disabled meanwhile, so that the answers of several calls meet a page    *)
(* that has changed since.                                                 *)
(*                                                                         *)
(* A definition named X_Y is a wrong version of X (README, "What the       *)
(* properties can see").                                                   *)
(***************************************************************************)
EXTENDS Naturals, Sequences, FiniteSets

CONSTANTS
    Relations, \* tables with key columns of the same names
    Keys,      \* values of the primary key, numbers
    Values,    \* values of the other columns
    Databases, \* contents that the database may have at first
    Calls,     \* identities of calls (bound: calls in flight at once)
    MaxCalls,  \* bound: calls in a behaviour
    NoValue,   \* no row with that key
    NoTable,   \* nothing has been run
    NoCall,    \* the identity is free
    Closed     \* no dialog is open

(* "none": the field "order" is empty. *)
Orders == {"none", "key", "-key"}
Line == [key: Keys, value: Values, mark: {"plain", "struck", "added"}]
Table == [rel: Relations, marks: Orders, lines: Seq(Line)]

(* op: "sort" is a run with doRunErrorCallback.  order: the variable that   *)
(* doRun captures.  key, rownum: of the line to change; newkey, value: its  *)
(* new cells.  answer: the lines that the server sends.  clean: history,    *)
(* no write has been in flight together with this run.                      *)
Call == [op: {"run", "sort", "insert", "update", "delete"}, rel: Relations,
         order: Orders, key: Keys, newkey: Keys, value: Values, rownum: Nat,
         served: BOOLEAN, answer: Seq(Line), clean: BOOLEAN]

Dialog == [op: {"insert", "update"}, rownum: Nat, rel: Relations, key: Keys]

ASSUME KeysAreNumbers == Keys \subseteq Nat /\ IsFiniteSet(Keys) /\ Keys # {}
ASSUME ValuesAssumption == Values # {}
ASSUME DatabasesAssumption ==
    Databases \subseteq [Relations -> [Keys -> Values \cup {NoValue}]]
ASSUME SentinelsAssumption ==
    /\ NoValue \notin Values
    /\ NoTable \notin Table /\ NoCall \notin Call /\ Closed \notin Dialog
ASSUME MaxCallsAssumption == MaxCalls \in Nat

VARIABLES
    stored,   \* the database, which only this page changes
    selected, \* the select "objects"
    order,    \* the field "order"
    content,  \* the table shown
    dimmed,   \* tblInactivate: the table shown is out of date
    dialog,   \* the update dialog; rel, key: history, the line it was opened for
    call,     \* the calls in flight
    sent,     \* calls sent
    sure      \* history: nothing has happened that may part table and database

page == <<selected, order, content, dimmed, dialog>>
vars == <<stored, page, call, sent, sure>>

TypeOK ==
    /\ stored \in [Relations -> [Keys -> Values \cup {NoValue}]]
    /\ selected \in Relations
    /\ order \in Orders
    /\ content = NoTable \/ (content \in Table /\ Len(content.lines) <= Cardinality(Keys) + sent)
    /\ dimmed \in BOOLEAN
    /\ dialog \in Dialog \cup {Closed}
    /\ call \in [Calls -> Call \cup {NoCall}]
    /\ sent \in 0 .. MaxCalls
    /\ sure \in BOOLEAN

Init ==
    /\ stored \in Databases
    /\ selected \in Relations
    /\ order = "none"
    /\ content = NoTable
    /\ dimmed = FALSE
    /\ dialog = Closed
    /\ call = [c \in Calls |-> NoCall]
    /\ sent = 0
    /\ sure = TRUE

(* ------------------------------- the calls ------------------------------ *)

InFlight == {c \in Calls : call[c] # NoCall}
Writes == {c \in InFlight : call[c].op \notin {"run", "sort"}}

Blank == [op |-> "run", rel |-> selected, order |-> order,
          key |-> CHOOSE k \in Keys : TRUE, newkey |-> CHOOSE k \in Keys : TRUE,
          value |-> CHOOSE v \in Values : TRUE, rownum |-> 0,
          served |-> FALSE, answer |-> <<>>, clean |-> FALSE]

MaySend(c) == call[c] = NoCall /\ sent < MaxCalls /\ sent' = sent + 1

(* The url of the relation selected, with its order. *)
RunCall(op, ord) == [Blank EXCEPT !.op = op, !.order = ord, !.clean = Writes = {}]

(* doRun: the url and the variable order are taken now. *)
DoRun(c, op, ord) ==
    /\ MaySend(c)
    /\ call' = [call EXCEPT ![c] = RunCall(op, ord)]
    /\ dimmed' = (content # NoTable)

(* A write: the runs in flight may read before or after it. *)
DoWrite(c, request) ==
    /\ MaySend(c)
    /\ call' = [d \in Calls |->
                  IF d = c THEN request
                  ELSE IF call[d] = NoCall THEN NoCall
                  ELSE [call[d] EXCEPT !.clean = FALSE]]

(* ------------------------------- the page ------------------------------- *)

(* onchange of the select; the table stays (onQueryChangedClean). *)
Select(rel) ==
    /\ rel # selected
    /\ selected' = rel
    /\ order' = "none"
    /\ UNCHANGED <<stored, content, dimmed, dialog, call, sent, sure>>

(* The button "go!". *)
Go(c) ==
    /\ DoRun(c, "run", order)
    /\ UNCHANGED <<stored, selected, order, content, dialog, sure>>

(* sortBy, sortByNone: the buttons of a header that addSortHrefs has made. *)
Sort(c, ord) ==
    /\ content # NoTable
    /\ order' = ord
    /\ DoRun(c, IF ord = "none" THEN "run" ELSE "sort", ord)
    /\ UNCHANGED <<stored, selected, content, dialog, sure>>

HasLine(i) == content # NoTable /\ i \in 1 .. Len(content.lines)

(* getKeyValsForRow: the key is read from the table when it is needed. *)
KeyAt(i) == content.lines[i].key

(* doOpenInsertDialog, doOpenUpdateDialog: the button of a line, or the     *)
(* previous and next row of the dialog.                                     *)
OpenInsert ==
    /\ content # NoTable
    /\ dialog' = [op |-> "insert", rownum |-> 0, rel |-> content.rel,
                  key |-> CHOOSE k \in Keys : TRUE]
    /\ UNCHANGED <<stored, selected, order, content, dimmed, call, sent, sure>>

OpenUpdate(i) ==
    /\ HasLine(i)
    /\ \/ content.lines[i].mark = "plain"
       \/ dialog # Closed /\ (dialog.rownum = i + 1 \/ dialog.rownum + 1 = i)
    /\ dialog' = [op |-> "update", rownum |-> i, rel |-> content.rel,
                  key |-> KeyAt(i)]
    /\ UNCHANGED <<stored, selected, order, content, dimmed, call, sent, sure>>

CloseDialogs ==
    /\ dialog # Closed
    /\ dialog' = Closed
    /\ UNCHANGED <<stored, selected, order, content, dimmed, call, sent, sure>>

(* doConfirmUpdate: the key of the line that is now at rownum, the cells of *)
(* the dialog, the relation that is now selected.                           *)
ConfirmUpdate(c, v, closes) ==
    /\ dialog # Closed /\ dialog.op = "update" /\ HasLine(dialog.rownum)
    /\ LET key == KeyAt(dialog.rownum) IN
       /\ DoWrite(c, [Blank EXCEPT !.op = "update", !.key = key, !.newkey = dialog.key,
                                   !.value = v, !.rownum = dialog.rownum])
       /\ sure' = (/\ sure /\ InFlight = {}
                   /\ selected = content.rel /\ key = dialog.key
                   /\ content.lines[dialog.rownum].mark # "struck")
    /\ dialog' = IF closes THEN Closed ELSE dialog
    /\ UNCHANGED <<stored, selected, order, content, dimmed>>

(* doConfirmInsert *)
ConfirmInsert(c, k, v, closes) ==
    /\ dialog # Closed /\ dialog.op = "insert"
    /\ DoWrite(c, [Blank EXCEPT !.op = "insert", !.newkey = k, !.value = v])
    /\ sure' = (sure /\ InFlight = {} /\ selected = content.rel)
    /\ dialog' = IF closes THEN Closed ELSE dialog
    /\ UNCHANGED <<stored, selected, order, content, dimmed>>

(* doRunDelete: the key of a line shown, the relation selected. *)
Delete(c, i) ==
    /\ HasLine(i) /\ content.lines[i].mark = "plain"
    /\ DoWrite(c, [Blank EXCEPT !.op = "delete", !.key = KeyAt(i), !.rownum = i])
    /\ sure' = (sure /\ InFlight = {} /\ selected = content.rel)
    /\ UNCHANGED <<stored, page>>

(* ------------------------------ the server ------------------------------ *)

Present(rel) == {k \in Keys : stored[rel][k] # NoValue}

Before(ord, k, j) == CASE ord = "key" -> k < j [] ord = "-key" -> k > j [] OTHER -> TRUE

(* A select lists each row once; without "order by" in whatever order.      *)
Listings(K, ord) ==
    {s \in [1 .. Cardinality(K) -> K] :
        /\ \A k \in K : \E i \in DOMAIN s : s[i] = k
        /\ \A i, j \in DOMAIN s : i < j => s[i] # s[j] /\ Before(ord, s[i], s[j])}

Rows(rel, keys) ==
    [i \in DOMAIN keys |-> [key |-> keys[i], value |-> stored[rel][keys[i]], mark |-> "plain"]]

Reads(c) ==
    /\ call[c].op \in {"run", "sort"}
    /\ \E keys \in Listings(Present(call[c].rel), call[c].order) :
          call' = [call EXCEPT ![c].served = TRUE, ![c].answer = Rows(call[c].rel, keys)]
    /\ UNCHANGED stored

(* A write of one row (updatemin = updatemax = 1); the cells of an update   *)
(* include its key.                                                         *)
Changes(c) ==
    LET r == call[c]
        row == stored[r.rel] IN
    /\ CASE r.op = "insert" ->
              /\ row[r.newkey] = NoValue
              /\ stored' = [stored EXCEPT ![r.rel][r.newkey] = r.value]
         [] r.op = "update" ->
              /\ row[r.key] # NoValue
              /\ r.newkey = r.key \/ row[r.newkey] = NoValue
              /\ stored' = [stored EXCEPT ![r.rel][r.key] = NoValue,
                                          ![r.rel][r.newkey] = r.value]
         [] r.op = "delete" ->
              /\ row[r.key] # NoValue
              /\ stored' = [stored EXCEPT ![r.rel][r.key] = NoValue]
         [] OTHER -> FALSE
    /\ call' = [call EXCEPT ![c].served = TRUE]

Serve(c) ==
    /\ call[c] # NoCall /\ ~call[c].served
    /\ Reads(c) \/ Changes(c)
    /\ UNCHANGED <<page, sent, sure>>

(* ------------------------------ the answers ----------------------------- *)

Done_Again(c) == UNCHANGED call
Done(c) == call' = [call EXCEPT ![c] = NoCall]

(* addSortHrefs(containerId, order) *)
Marks_Now(c) == order
Marks(c) == call[c].order

(* success of doRun: the table is replaced, whatever is selected by now. *)
ShowRows(c) ==
    /\ call[c].op \in {"run", "sort"}
    /\ content' = [rel |-> call[c].rel, marks |-> Marks(c), lines |-> call[c].answer]
    /\ dimmed' = FALSE
    /\ sure' = call[c].clean

(* onload of doExecuteUpdateAjax, success of doDelete: the line that has    *)
(* the number rownum by now; none, and the callback throws.                 *)
Patched_HeaderCounts(c) ==
    LET r == call[c] IN
    [content EXCEPT !.lines =
        IF r.op = "insert"
        THEN Append(@, [key |-> r.newkey, value |-> r.value, mark |-> "added"])
        ELSE [i \in DOMAIN @ |->
                IF i # r.rownum + 1 THEN @[i]
                ELSE IF r.op = "delete" THEN [@[i] EXCEPT !.mark = "struck"]
                ELSE [@[i] EXCEPT !.key = r.newkey, !.value = r.value]]]
Patched(c) ==
    LET r == call[c] IN
    [content EXCEPT !.lines =
        IF r.op = "insert"
        THEN Append(@, [key |-> r.newkey, value |-> r.value, mark |-> "added"])
        ELSE [i \in DOMAIN @ |->
                IF i # r.rownum THEN @[i]
                ELSE IF r.op = "delete" THEN [@[i] EXCEPT !.mark = "struck"]
                ELSE [@[i] EXCEPT !.key = r.newkey, !.value = r.value]]]

ShowChange(c) ==
    /\ call[c].op \notin {"run", "sort"}
    /\ content' = Patched(c)
    /\ UNCHANGED <<dimmed, sure>>

Answer(c) ==
    /\ call[c] # NoCall /\ call[c].served
    /\ ShowRows(c) \/ ShowChange(c)
    /\ Done(c)
    /\ UNCHANGED <<stored, selected, order, dialog, sent>>

(* error: the call was refused, or its answer was lost; an update whose     *)
(* answer is lost shows nothing (there is no onerror).                      *)
Undimmed_Kept(c) == UNCHANGED dimmed
Undimmed(c) == dimmed' = (dimmed /\ call[c].op \notin {"run", "sort"})

Fail(c) ==
    /\ call[c] # NoCall
    /\ Undimmed(c)
    /\ order' = IF call[c].op = "sort" THEN "none" ELSE order
    /\ sure' = (sure /\ ~(c \in Writes /\ call[c].served))
    /\ Done(c)
    /\ UNCHANGED <<stored, selected, content, dialog, sent>>

User ==
    \/ \E rel \in Relations : Select(rel)
    \/ \E i \in 1 .. Cardinality(Keys) + MaxCalls : OpenUpdate(i)
    \/ OpenInsert \/ CloseDialogs
    \/ \E c \in Calls :
          \/ Go(c) \/ \E ord \in Orders : Sort(c, ord)
          \/ \E i \in 1 .. Cardinality(Keys) : Delete(c, i)
          \/ \E v \in Values, closes \in BOOLEAN :
                ConfirmUpdate(c, v, closes) \/ \E k \in Keys : ConfirmInsert(c, k, v, closes)

Network(c) == Serve(c) \/ Answer(c) \/ Fail(c)

Next == User \/ \E c \in Calls : Network(c)

Spec == Init /\ [][Next]_vars

-----------------------------------------------------------------------------
(* The rows shown are sorted as the buttons of the header tell, whatever    *)
(* was clicked since, in whatever order answers come and whatever updates   *)
(* have patched (doRun captures the order; addSortHrefs), except for lines  *)
(* that were added and after the writes that ShownIsStored excepts.         *)
MarksFollowRows ==
    content # NoTable /\ sure =>
        \A i, j \in {n \in DOMAIN content.lines : content.lines[n].mark # "added"} :
            i < j => Before(content.marks, KeyAt(i), KeyAt(j))

(* When no call is in flight the lines that are not struck through are the  *)
(* rows of the database, unless, since the table was loaded, a write was in *)
(* flight together with another call, was sent for another line than the    *)
(* one shown, or lost its answer.                                           *)
Live == {i \in DOMAIN content.lines : content.lines[i].mark # "struck"}
ShownIsStored ==
    content # NoTable /\ InFlight = {} /\ sure =>
        /\ {<<content.lines[i].key, content.lines[i].value>> : i \in Live} =
              {<<k, stored[content.rel][k]>> : k \in Present(content.rel)}
        /\ Cardinality(Live) = Cardinality(Present(content.rel))

(* A table is dimmed only while a run is in flight: whatever becomes of the *)
(* run, the table is shown clearly again (tblInactivate, tblActivate).      *)
DimmedMeansRunning == dimmed => InFlight # Writes
=============================================================================
