------------------------- MODULE ResultViewInvariant -------------------------
(***************************************************************************)
(* The inductive invariant of ResultView.                                  *)
(***************************************************************************)
EXTENDS ResultView

Reading(r) == r.op \in {"run", "sort"}

(* Before the first answer there is nothing to edit. *)
Untouched == content = NoTable => dialog = Closed /\ Writes = {}

(* A run has met no write as long as none is in flight. *)
CleanAlone == \A c \in InFlight : call[c].clean => Writes = {}

(* Each call adds at most one line to the table. *)
Inserts == {c \in InFlight : call[c].op = "insert"}
Lengths ==
    /\ IsFiniteSet(Inserts) /\ Cardinality(Inserts) <= sent
    /\ content # NoTable =>
         Len(content.lines) + Cardinality(Inserts) <= Cardinality(Keys) + sent

LiveOf(lines) == {i \in DOMAIN lines : lines[i].mark # "struck"}

(* The lines that are not struck through are the rows of a relation, each   *)
(* once.                                                                    *)
Holds(lines, row) ==
    /\ \A i \in LiveOf(lines) : row[lines[i].key] = lines[i].value
    /\ \A k \in Keys : row[k] # NoValue => \E i \in LiveOf(lines) : lines[i].key = k
    /\ \A i, j \in LiveOf(lines) : lines[i].key = lines[j].key => i = j

InOrder(lines, ord) ==
    \A i, j \in {n \in DOMAIN lines : lines[n].mark # "added"} :
        i < j => Before(ord, lines[i].key, lines[j].key)

(* What a run has read is in its order, and what the database holds as long *)
(* as no write is in flight.                                                *)
Read(r) ==
    /\ Len(r.answer) <= Cardinality(Keys)
    /\ InOrder(r.answer, r.order)
    /\ r.clean => Holds(r.answer, stored[r.rel])
Answers == \A c \in InFlight : Reading(call[c]) /\ call[c].served => Read(call[c])

(* A write is for the line that it was sent for: neither that line nor its  *)
(* key has changed.                                                         *)
Aimed(r) ==
    /\ r.rel = content.rel
    /\ r.op \in {"update", "delete"} =>
         /\ HasLine(r.rownum) /\ KeyAt(r.rownum) = r.key
         /\ content.lines[r.rownum].mark # "struck"
    /\ r.op = "update" => r.newkey = r.key
    /\ r.op = "delete" => content.lines[r.rownum].mark = "plain"

(* While nothing may have parted them, table and database agree: at once,   *)
(* or when the answer of the only write in flight has been shown.           *)
Agrees ==
    content # NoTable /\ sure =>
        /\ InOrder(content.lines, content.marks)
        /\ Writes = {} => Holds(content.lines, stored[content.rel])
        /\ \A c \in Writes :
             /\ Writes = {c} /\ Aimed(call[c])
             /\ Holds((IF call[c].served THEN Patched(c) ELSE content).lines,
                      stored[content.rel])

IInv ==
    /\ TypeOK /\ Untouched /\ CleanAlone /\ Lengths
    /\ Answers /\ Agrees /\ DimmedMeansRunning
-----------------------------------------------------------------------------
(* A user who lets each call be answered before doing anything else, edits  *)
(* only the relation that is selected, opens no line that was deleted, and  *)
(* closes the dialog before loading or deleting; and a network that loses   *)
(* no answer to a write.                                                    *)
Patient ==
    /\ UNCHANGED <<selected, dialog, sent>> \/ InFlight = {}
    /\ \A c \in Calls : call[c] = NoCall /\ call'[c] # NoCall =>
         /\ call'[c].op \in {"run", "sort", "delete"} => dialog = Closed
         /\ ~Reading(call'[c]) => selected = content.rel
    /\ dialog' \in Dialog \ {dialog} /\ dialog'.op = "update" =>
         content.lines[dialog'.rownum].mark # "struck"
    /\ \A c \in Writes : Fail(c) => ~call[c].served

(* Then one call at most is in flight, and the dialog's line is still the   *)
(* one it was opened for.                                                   *)
LineOpen ==
    dialog # Closed /\ dialog.op = "update" =>
        /\ HasLine(dialog.rownum) /\ KeyAt(dialog.rownum) = dialog.key
        /\ content.lines[dialog.rownum].mark # "struck"

Untroubled ==
    /\ sure /\ LineOpen
    /\ \A c, d \in InFlight : c = d
    /\ \A c \in InFlight :
         /\ Reading(call[c]) => call[c].clean
         /\ call[c].op \in {"run", "sort", "delete"} => dialog = Closed
=============================================================================
