------------------------- MODULE RowWindowInvariant -------------------------
(***************************************************************************)
(* The inductive invariant of RowWindow: where the cursor is at each step  *)
(* of a request, and what a client has seen between two requests.          *)
(***************************************************************************)
EXTENDS RowWindow

(* Settings for which the pages are the documented ones: the loop and the   *)
(* SQL text have one limit, and a value's limit comes from the request and  *)
(* is applied by the database or by a driver that does not tell the last row.*)
Agreed(s) ==
    /\ LimitsAgree(s)
    /\ s.kind = "value" => /\ s.asked # None /\ s.asked > 0
                           /\ s.queryMax = None /\ s.max > 0
                           /\ s.strategy = "RESULTSET_CONTROL" => ~s.tellsLast

(* The cursor of the database and the rows written move together. *)
Cursor ==
    /\ pc = "skip" =>
        /\ ~Pushed /\ left <= offset
        /\ pos = Moved(0, offset - left)
        /\ nexts = 0 /\ page = <<>>
        /\ ~setting.scrolls => offset <= FetchMax
    /\ pc = "fetch" =>
        /\ nexts = Len(page) /\ Len(page) <= ShownLimit(setting)
        /\ \A i \in 1 .. Len(page) : page[i] = offset + i
        /\ pos = Moved(0, (offset - First) + Len(page))
        /\ page # <<>> => pos <= Size /\ setting.kind = "rows"
        /\ ~Pushed /\ ~setting.scrolls => offset <= FetchMax

Waits == pc # "idle" <=> answer = Waiting

(* An answer has as many rows as the relation has left, up to the limit. *)
Answered ==
    pc = "idle" /\ answer # Refused /\ setting.kind = "rows" =>
        Len(answer.rows) = Pages!Width(setting, offset)

(* What the client has seen is an interval that its next page will extend. *)
Seen ==
    LET done == pc = "idle" /\ answer # Refused /\ setting.kind = "rows"
        L == ShownLimit(setting)
    IN  \/ shown = {} /\ (done => offset >= setting.total \/ L = 0)
        \/ \E a \in 1 .. setting.total, b \in 1 .. setting.total :
              /\ a <= b /\ shown = a .. b
              /\ a <= offset + L + 1 /\ offset <= b
              /\ done => a <= offset + 1 /\ Least(offset + L, setting.total) <= b

(* A page has the rows of its window only if the limits agree. *)
IInv == TypeOK /\ Cursor /\ Waits /\ (Agreed(setting) => Answered /\ Seen)
=============================================================================
