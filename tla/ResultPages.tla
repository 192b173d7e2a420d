---------------------------- MODULE ResultPages ----------------------------
(***************************************************************************)
(* What a client that turns the pages of a relation is promised: an answer *)
(* has the rows of the window it asked for and says whether rows follow; a *)
(* value is that of one row.                                               *)
(***************************************************************************)
EXTENDS PageLimits, Sequences

CONSTANTS
    Settings,   \* settings that a client may meet
    FetchMax,   \* FORWARD_ONLY_FETCH_MAX
    Waiting,    \* the answer has not come
    Refused     \* the answer is an error

VARIABLES setting, offset, answer

(* Rows from + 1 ... of the relation, as many as the limit allows. *)
Rows(from, n) == [i \in 1 .. n |-> from + i]

Width(s, from) ==
    LET after == IF s.total > from THEN s.total - from ELSE 0
    IN  Least(DocumentedLimit(s), after)

Page(s, from) ==
    IF s.kind = "rows"
    THEN [rows |-> Rows(from, Width(s, from)), more |-> s.total > from + DocumentedLimit(s)]
    ELSE IF s.kind = "head" THEN [rows |-> <<>>, more |-> FALSE]
    ELSE [rows |-> Rows(from, 1), more |-> FALSE]

(* Only a driver that cannot scroll leaves an offset unreached; a value is  *)
(* that of one row, and several are noticed by a driver that tells the last.*)
IsRefused(s, from) ==
    \/ ~s.scrolls /\ s.strategy = "RESULTSET_CONTROL" /\ from > FetchMax
    \/ s.kind = "value" /\ (Width(s, from) = 0 \/ (s.tellsLast /\ Width(s, from) > 1))

Init ==
    /\ setting \in Settings
    /\ offset \in 0 .. setting.total + 1
    /\ answer = Waiting

Answer ==
    /\ answer = Waiting
    /\ IF IsRefused(setting, offset) THEN answer' = Refused
       ELSE answer' = Page(setting, offset)
    /\ UNCHANGED <<setting, offset>>

NextOffset(s, from) == from + DocumentedLimit(s)
PreviousOffset(s, from) ==
    IF from < DocumentedLimit(s) THEN 0 ELSE from - DocumentedLimit(s)

Turn ==
    /\ answer \notin {Waiting, Refused}
    /\ setting.kind = "rows"
    /\ \/ offset' = NextOffset(setting, offset) /\ Len(answer.rows) = DocumentedLimit(setting)
       \/ offset' = PreviousOffset(setting, offset) /\ offset > 0
    /\ answer' = Waiting
    /\ UNCHANGED setting

Next == Answer \/ Turn

Spec == Init /\ [][Next]_<<setting, offset, answer>>
=============================================================================
