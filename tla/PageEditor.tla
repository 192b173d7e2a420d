----------------------------- MODULE PageEditor -----------------------------
(***************************************************************************)
(* Browser tabs in which users edit one object: a query (qon-editor.html)  *)
(* or a page (pages-editor.html), a row of a relation with an optimistic   *)
(* lock.  A tab loads the row, sends saves that carry the version it read, *)
(* may have several calls in flight (the button stays enabled, F10 saves   *)
(* too), and learns of each only from an answer that may be late or lost.  *)
(*                                                                         *)
(* The server is the abstract RowStore, which RowWrites implements; the    *)
(* text of the object is the column that RowStore calls group.             *)
(*                                                                         *)
(* A definition named X_Y is a wrong version of X (README, "What the       *)
(* properties can see").                                                   *)
(***************************************************************************)
EXTENDS RowRequests, Sequences

CONSTANTS
    Tabs,        \* tabs that have the object open
    Connections, \* bound: calls a tab has in flight at once
    MaxCalls,    \* bound: calls in a behaviour
    Object,      \* the key of the object
    Blank,       \* the text of an empty editor
    NoCall       \* the connection is free

Ops == {"load", "insert", "update", "delete"}

(* text, lock, version: what the form had when the call was sent.  basis:   *)
(* history, the change of the row that the form was based on.  heard: the   *)
(* tab waits for the answer.  served: the server has accepted the call.     *)
(* result: history, the change of the row that it has read or made.         *)
Call == [op: Ops, text: Groups, lock: Versions \cup {Null}, version: Versions,
         basis: Nat, heard: BOOLEAN, served: BOOLEAN, result: Nat]

ASSUME ObjectAssumption == Object \in Keys /\ Blank \in Groups
ASSUME EditedVersionsAssumption == Versions \subseteq Nat \ {0} /\ 1 \in Versions
ASSUME EditedRelationAssumption == HasLock /\ ~HasFilter
ASSUME MaxCallsAssumption == MaxCalls \in Nat
ASSUME NoCallAssumption == NoCall \notin Call

VARIABLES
    kind,      \* the page that the tabs show: "query" or "page"
    table,     \* the relation (the variable of RowStore)
    log,       \* history: every content the object's row has had
    text,      \* of each tab: the editor
    lock,      \* the field optimisticlock
    saved,     \* isQuerySaved; of a page: the field id is set
    altered,   \* queryAltered, pageAltered
    busy,      \* btnSave has the class onaction
    basis,     \* history: the change of the row the form is based on; 0: none
    overtaken, \* history: the text differs from that of a save in flight
    call,      \* of each tab and connection: the call in flight
    sent       \* calls sent

store == <<kind, table, log>>
form == <<text, lock, saved, altered, busy, basis, overtaken>>
vars == <<store, form, call, sent>>

Store == INSTANCE RowStore

TypeOK ==
    /\ kind \in {"query", "page"}
    /\ table \in [Keys -> Row \cup {NoRow}]
    /\ log \in Seq(Row \cup {NoRow})
    /\ text \in [Tabs -> Groups]
    /\ lock \in [Tabs -> Versions \cup {Null}]
    /\ saved \in [Tabs -> BOOLEAN]
    /\ altered \in [Tabs -> BOOLEAN]
    /\ busy \in [Tabs -> BOOLEAN]
    /\ basis \in [Tabs -> Nat]
    /\ overtaken \in [Tabs -> BOOLEAN]
    /\ call \in [Tabs -> [Connections -> Call \cup {NoCall}]]
    /\ sent \in 0 .. MaxCalls

(* The object is new, or a row from before its lock column was filled, or   *)
(* one that an editor saved.                                                *)
Init ==
    /\ kind \in {"query", "page"}
    /\ table \in [Keys -> [group: {Blank}, visible: {TRUE}, version: {1, Null}] \cup {NoRow}]
    /\ log = <<table[Object]>>
    /\ text = [t \in Tabs |-> Blank]
    /\ lock = [t \in Tabs |-> Null]
    /\ saved = [t \in Tabs |-> FALSE]
    /\ altered = [t \in Tabs |-> FALSE]
    /\ busy = [t \in Tabs |-> FALSE]
    /\ basis = [t \in Tabs |-> 0]
    /\ overtaken = [t \in Tabs |-> FALSE]
    /\ call = [t \in Tabs |-> [c \in Connections |-> NoCall]]
    /\ sent = 0

(* ------------------------------- the form ------------------------------- *)

Waits(t, c) == call[t][c] # NoCall /\ call[t][c].heard
Saving(t) == {c \in Connections : Waits(t, c) /\ call[t][c].op \in {"insert", "update"}}
Outdated(t, x) == \E c \in Saving(t) : call[t][c].text # x

(* isInteger(optimisticlock) ? 1 + parseInt(optimisticlock) : 1 *)
NextVersion_NoNumber(v) == IF v = Null THEN Null ELSE v + 1
NextVersion(v) == IF v = Null THEN 1 ELSE v + 1

(* What the user sees of a text: the editor, the flag for beforeunload.     *)
Shows_Silently(t, x, flag) ==
    /\ text' = [text EXCEPT ![t] = x]
    /\ UNCHANGED altered
    /\ overtaken' = [overtaken EXCEPT ![t] = Outdated(t, x)]
Shows(t, x, flag) ==
    /\ text' = [text EXCEPT ![t] = x]
    /\ altered' = [altered EXCEPT ![t] = flag]
    /\ overtaken' = [overtaken EXCEPT ![t] = Outdated(t, x)]

NewCall(t, op) ==
    [op |-> op, text |-> text[t], lock |-> lock[t], version |-> NextVersion(lock[t]),
     basis |-> basis[t], heard |-> TRUE, served |-> FALSE, result |-> 0]

Sends(t, c, op) ==
    /\ call[t][c] = NoCall
    /\ lock[t] # Null => lock[t] + 1 \in Versions
    /\ sent < MaxCalls
    /\ sent' = sent + 1
    /\ call' = [call EXCEPT ![t][c] = NewCall(t, op)]

(* The user types, or undoes. *)
Edit(t, x) ==
    /\ x # text[t]
    /\ Shows(t, x, TRUE)
    /\ UNCHANGED <<store, lock, saved, busy, basis, call, sent>>

(* doSave: an update of a saved object, an insert otherwise. *)
Save(t, c) ==
    /\ Sends(t, c, IF saved[t] THEN "update" ELSE "insert")
    /\ busy' = [busy EXCEPT ![t] = TRUE]
    /\ UNCHANGED <<store, text, lock, saved, altered, basis, overtaken>>

(* doRemove; pages are not removed from their editor. *)
Remove(t, c) ==
    /\ kind = "query" /\ saved[t]
    /\ Sends(t, c, "delete")
    /\ UNCHANGED <<store, form>>

(* The page is opened, with or without a name in its address (onLoad): the  *)
(* old document is gone, its calls are not.                                 *)
Abandoned(t) ==
    [c \in Connections |->
        IF call[t][c] # NoCall /\ ~call[t][c].served
        THEN [call[t][c] EXCEPT !.heard = FALSE] ELSE NoCall]

Load == [op |-> "load", text |-> Blank, lock |-> Null, version |-> 1,
         basis |-> 0, heard |-> TRUE, served |-> FALSE, result |-> 0]

Open(t, c, named) ==
    /\ text' = [text EXCEPT ![t] = Blank]
    /\ lock' = [lock EXCEPT ![t] = Null]
    /\ saved' = [saved EXCEPT ![t] = named /\ kind = "page"]
    /\ altered' = [altered EXCEPT ![t] = FALSE]
    /\ busy' = [busy EXCEPT ![t] = FALSE]
    /\ basis' = [basis EXCEPT ![t] = 0]
    /\ overtaken' = [overtaken EXCEPT ![t] = FALSE]
    /\ IF named
       THEN /\ call[t][c] = NoCall
            /\ sent < MaxCalls
            /\ sent' = sent + 1
            /\ call' = [call EXCEPT ![t] = [Abandoned(t) EXCEPT ![c] = Load]]
       ELSE /\ call' = [call EXCEPT ![t] = Abandoned(t)]
            /\ UNCHANGED sent
    /\ UNCHANGED store

(* ------------------------------ the server ------------------------------ *)

RequestOf(k) ==
    [op |-> k.op, select |-> {Object}, full |-> TRUE, filter |-> AnyGroup,
     group |-> k.text, visible |-> TRUE, version |-> k.version,
     lock |-> k.lock, min |-> 1, max |-> 1]

(* Nobody waits for the answer of a call whose page is gone. *)
Served(t, c, change) ==
    call' = [call EXCEPT ![t][c] =
                IF @.heard THEN [@ EXCEPT !.served = TRUE, !.result = change] ELSE NoCall]

Reads(t, c) ==
    /\ call[t][c].op = "load"
    /\ table[Object] # NoRow
    /\ Served(t, c, Len(log))
    /\ UNCHANGED <<table, log>>

Writes(t, c) ==
    /\ call[t][c].op # "load"
    /\ Store!Apply(RequestOf(call[t][c]))
    /\ log' = Append(log, table'[Object])
    /\ Served(t, c, Len(log) + 1)

Serve(t, c) ==
    /\ call[t][c] # NoCall /\ ~call[t][c].served
    /\ Reads(t, c) \/ Writes(t, c)
    /\ UNCHANGED <<kind, form, sent>>

(* ------------------------------ the answers ----------------------------- *)

Settle(t, c) == call' = [call EXCEPT ![t][c] = NoCall]

ShowsButton_Stuck(t, c) == UNCHANGED busy
ShowsButton(t, c) ==
    busy' = [busy EXCEPT ![t] = @ /\ call[t][c].op \notin {"insert", "update"}]

(* loadQuery, doLoadPage: onload with a status of 200. *)
Loaded(t, c) ==
    LET row == log[call[t][c].result] IN
    /\ call[t][c].op = "load"
    /\ Shows(t, row.group, FALSE)
    /\ lock' = [lock EXCEPT ![t] = row.version]
    /\ saved' = [saved EXCEPT ![t] = TRUE]
    /\ basis' = [basis EXCEPT ![t] = call[t][c].result]

(* doSave: request.done, onload with a status of 200.  The form takes the   *)
(* version that was sent.                                                   *)
Saved(t, c) ==
    /\ call[t][c].op \in {"insert", "update"}
    /\ lock' = [lock EXCEPT ![t] = call[t][c].version]
    /\ saved' = [saved EXCEPT ![t] = TRUE]
    /\ altered' = [altered EXCEPT ![t] = FALSE]
    /\ basis' = [basis EXCEPT ![t] = call[t][c].result]
    /\ overtaken' = [overtaken EXCEPT ![t] = Outdated(t, text[t])]
    /\ UNCHANGED text

(* doRemove: request.done, which calls validateEditComponents(false). *)
Removed(t, c) ==
    /\ call[t][c].op = "delete"
    /\ saved' = [saved EXCEPT ![t] = FALSE]
    /\ UNCHANGED <<text, lock, altered, basis, overtaken>>

Answer(t, c) ==
    /\ Waits(t, c) /\ call[t][c].served
    /\ Loaded(t, c) \/ Saved(t, c) \/ Removed(t, c)
    /\ ShowsButton(t, c)
    /\ Settle(t, c)
    /\ UNCHANGED <<store, sent>>

(* An answer with another status (request.fail, doSaveError,                *)
(* doLoadPageError), or none (onerror): the tab shows a message.  RowStore  *)
(* promises nothing of the requests it refuses, so any may be refused; a    *)
(* call whose answer was lost may yet be served.                            *)
Unheard(t, c) ==
    call' = [call EXCEPT ![t][c] =
                IF @.served THEN NoCall ELSE [@ EXCEPT !.heard = FALSE]]

Fail_TakesVersion(t, c) ==
    /\ Waits(t, c)
    /\ ShowsButton(t, c)
    /\ Unheard(t, c)
    /\ lock' = [lock EXCEPT ![t] = call[t][c].version]
    /\ UNCHANGED <<store, text, saved, altered, basis, overtaken, sent>>
Fail(t, c) ==
    /\ Waits(t, c)
    /\ ShowsButton(t, c)
    /\ Unheard(t, c)
    /\ UNCHANGED <<store, text, lock, saved, altered, basis, overtaken, sent>>

(* A call that nobody waits for was refused or never arrived. *)
Vanish(t, c) ==
    /\ call[t][c] # NoCall /\ ~call[t][c].heard
    /\ Settle(t, c)
    /\ UNCHANGED <<store, form, sent>>

User(t) ==
    \/ \E x \in Groups : Edit(t, x)
    \/ \E c \in Connections :
          Save(t, c) \/ Remove(t, c) \/ \E named \in BOOLEAN : Open(t, c, named)

Network(t, c) == Serve(t, c) \/ Answer(t, c) \/ Fail(t, c) \/ Vanish(t, c)

Next == \E t \in Tabs : User(t) \/ \E c \in Connections : Network(t, c)

Spec == Init /\ [][Next]_vars

-----------------------------------------------------------------------------
(* An update that is committed replaces what the tab that sent it has read  *)
(* or written last: no edit of another user is overwritten unseen, however  *)
(* late the save arrives and whatever was lost.  Two exceptions, both of    *)
(* the version number: a row that has none, and a row that was removed and  *)
(* created again since, whose numbers start again.                          *)
RemovedSince(b) == \E i \in b .. Len(log) : i > 0 /\ log[i] = NoRow

Commits(t, c) == call'[t][c] # call[t][c] /\ log' # log

OverwritesWhatItRead ==
    \A t \in Tabs : \A c \in Connections :
        Commits(t, c) /\ call[t][c].op = "update" =>
            \/ call[t][c].basis = Len(log)
            \/ table[Object].version = Null
            \/ RemovedSince(call[t][c].basis)
NoBlindOverwrite == [][OverwritesWhatItRead]_vars

(* When the page may be closed without a warning (confirmExit), its text    *)
(* has been stored or was loaded, unless it changed while a save was in     *)
(* flight: the answer clears the flag although the new text was not sent.   *)
StoredText(b) == IF b = 0 THEN Blank ELSE log[b].group
ClosesOnlyStored ==
    \A t \in Tabs : ~altered[t] => text[t] = StoredText(basis[t]) \/ overtaken[t]

(* The button never shows a save that is over, lost answers included. *)
BusyMeansSaving == \A t \in Tabs : busy[t] => Saving(t) # {}
=============================================================================
