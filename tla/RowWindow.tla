----------------------------- MODULE RowWindow -----------------------------
(***************************************************************************)
(* How a SELECT request yields one page of a relation (QueryOn.doSelect):  *)
(* the limit and the offset go into the SQL text or, when the strategy or  *)
(* the query does not allow it, into a decorator of the result set; a loop *)
(* then writes rows and says whether more follow.  The client turns pages  *)
(* (index.html, doRunCallback).  The relation does not change meanwhile.   *)
(*                                                                         *)
(* A definition named X_Y is a wrong version of X: with it in place of X   *)
(* TLC finds a property violated (README, "What the properties can see").  *)
(***************************************************************************)
EXTENDS PageLimits, Sequences

CONSTANTS
    Settings,   \* settings that a client may meet
    FetchMax,   \* FORWARD_ONLY_FETCH_MAX
    Waiting,    \* the answer has not come
    Refused     \* the answer is an error

ASSUME SettingsAssumption == Settings \subseteq Setting
ASSUME FetchMaxAssumption == FetchMax \in Nat
ASSUME AnswersAssumption ==
    /\ Waiting # Refused
    /\ Waiting \notin [rows: Seq(Nat), more: BOOLEAN]
    /\ Refused \notin [rows: Seq(Nat), more: BOOLEAN]

VARIABLES
    setting,  \* what the page depends on; chosen once
    offset,   \* offset of the request
    answer,   \* what the client got
    shown,    \* numbers of the rows that the client has seen
    pc,       \* where the request is: asked, skip, fetch, idle
    pos,      \* position of the database's cursor; 0 is before the first row
    left,     \* rows still to skip
    nexts,    \* ResultSetLimitOffsetDecorator.nextCount
    page      \* rows written to the response

vars == <<setting, offset, answer, shown, pc, pos, left, nexts, page>>

TypeOK ==
    /\ setting \in Settings
    /\ offset \in Nat /\ pos \in Nat /\ left \in Nat /\ nexts \in Nat
    /\ answer \in [rows: Seq(Nat), more: BOOLEAN] \cup {Waiting, Refused}
    /\ shown \subseteq 1 .. setting.total
    /\ pc \in {"asked", "skip", "fetch", "idle"}
    /\ page \in Seq(Nat)

Init ==
    /\ setting \in Settings
    /\ offset \in 0 .. setting.total + 1
    /\ answer = Waiting
    /\ shown = {}
    /\ pc = "asked"
    /\ pos = 0 /\ left = 0 /\ nexts = 0
    /\ page = <<>>

(* ----------------------------- the SQL text ----------------------------- *)

(* SQL.sqlLoEncapsulated *)
Pushed ==
    /\ setting.strategy # "RESULTSET_CONTROL"
    /\ PushedLimit(setting) > 0 \/ offset > 0

(* One row more than the limit shows that there are more; a value needs none. *)
Fetched_Exact(s) == PushedLimit(s)
Fetched(s) == IF s.kind = "value" THEN PushedLimit(s) ELSE PushedLimit(s) + 1

(* Rows of the result set, which are rows First + 1, First + 2... of the    *)
(* relation.                                                                *)
First == IF Pushed THEN offset ELSE 0
Size ==
    LET after == IF setting.total > First THEN setting.total - First ELSE 0
    IN  IF Pushed /\ PushedLimit(setting) > 0 THEN Least(Fetched(setting), after)
        ELSE after

(* ---------------- ResultSetLimitOffsetDecorator -------------------------- *)

Moved(from, by) == Least(from + by, Size + 1)

Cap(s) == IF s.kind = "value" THEN Limit(s.asked, s.default, s.max)
          ELSE ShownLimit(s) + 1

Capped == ~Pushed /\ Cap(setting) > 0 /\ Cap(setting) < nexts + 1

(* next() *)
HasNext == ~Capped /\ pos < Size
MovesNext == /\ nexts' = nexts + 1
             /\ pos' = IF Capped THEN pos ELSE Moved(pos, 1)

(* ------------------------------ the request ------------------------------ *)

(* A driver that scrolls goes to row offset, from which next() leads to the *)
(* row after it.                                                            *)
Landing_OnRow(from) == Moved(0, from + 1)
Landing(from) == Moved(0, from)

Execute ==
    /\ pc = "asked"
    /\ nexts' = 0 /\ page' = <<>>
    /\ IF Pushed \/ offset = 0
       THEN pc' = "fetch" /\ pos' = 0 /\ UNCHANGED <<left, answer>>
       ELSE IF setting.scrolls
       THEN pc' = "fetch" /\ pos' = Landing(offset) /\ UNCHANGED <<left, answer>>
       ELSE IF offset > FetchMax
       THEN pc' = "idle" /\ pos' = 0 /\ answer' = Refused /\ UNCHANGED left
       ELSE pc' = "skip" /\ pos' = 0 /\ left' = offset /\ UNCHANGED answer
    /\ UNCHANGED <<setting, offset, shown>>

(* FORWARD_ONLY: rows are read without being used. *)
Skip_CountsRows ==
    /\ pc = "skip"
    /\ IF left = 0 THEN pc' = "fetch" /\ UNCHANGED <<pos, left>>
       ELSE /\ pos' = Moved(pos, 1)
            /\ left' = IF pos' <= Size THEN left - 1 ELSE left
            /\ UNCHANGED pc
    /\ UNCHANGED <<setting, offset, answer, shown, nexts, page>>
Skip ==
    /\ pc = "skip"
    /\ IF left = 0 THEN pc' = "fetch" /\ UNCHANGED <<pos, left>>
       ELSE pos' = Moved(pos, 1) /\ left' = left - 1 /\ UNCHANGED pc
    /\ UNCHANGED <<setting, offset, answer, shown, nexts, page>>

Answers(a) ==
    /\ pc' = "idle"
    /\ answer' = a
    /\ UNCHANGED <<setting, offset, left, page>>

(* The loop of dumpResultSet. *)
WriteRow ==
    /\ pc = "fetch" /\ setting.kind = "rows"
    /\ HasNext /\ Len(page) < ShownLimit(setting)
    /\ MovesNext
    /\ page' = Append(page, First + pos')
    /\ UNCHANGED <<setting, offset, answer, shown, pc, left>>

WriteFooter ==
    /\ pc = "fetch" /\ setting.kind = "rows"
    /\ ~HasNext \/ Len(page) >= ShownLimit(setting)
    /\ MovesNext
    /\ Answers([rows |-> page, more |-> HasNext])
    /\ shown' = shown \cup {page[i] : i \in 1 .. Len(page)}

(* HEAD: the headers only. *)
WriteHeaders ==
    /\ pc = "fetch" /\ setting.kind = "head"
    /\ Answers([rows |-> <<>>, more |-> FALSE])
    /\ UNCHANGED <<pos, nexts, shown>>

(* dumpBlob: "ResultSet has no rows" or "more than 1 row" if there is not   *)
(* one.  isLast() is the driver's, below the decorator.                     *)
WriteValue ==
    /\ pc = "fetch" /\ setting.kind = "value"
    /\ MovesNext
    /\ Answers(IF HasNext /\ (setting.tellsLast => pos' = Size)
               THEN [rows |-> <<First + pos'>>, more |-> FALSE]
               ELSE Refused)
    /\ UNCHANGED shown

Serve == Execute \/ Skip \/ WriteRow \/ WriteFooter \/ WriteHeaders \/ WriteValue

(* ------------------------------- the client ------------------------------ *)

(* The button for the next page is there when the page is full. *)
IsFull(rows) == ShownLimit(setting) = Len(rows)

Asks(from) ==
    /\ pc = "idle" /\ setting.kind = "rows"
    /\ answer \notin {Waiting, Refused}
    /\ offset' = from
    /\ answer' = Waiting
    /\ pc' = "asked"
    /\ UNCHANGED <<setting, shown, pos, left, nexts, page>>

NextPage ==
    /\ answer \notin {Waiting, Refused} /\ IsFull(answer.rows)
    /\ Asks(offset + ShownLimit(setting))

PreviousOffset_Unbounded == offset - ShownLimit(setting)
PreviousOffset == IF offset < ShownLimit(setting) THEN 0 ELSE offset - ShownLimit(setting)

PreviousPage == offset > 0 /\ Asks(PreviousOffset)

Next == Serve \/ NextPage \/ PreviousPage

Spec == Init /\ [][Next]_vars

(* A request that was received is worked on. *)
FairSpec == Spec /\ WF_vars(Serve)

-----------------------------------------------------------------------------
(* Refinement: whatever the strategy and the driver, a page has exactly the *)
(* rows of its window, its footer says whether rows follow, and a request   *)
(* for a value whose window is empty is refused.                            *)
Pages == INSTANCE ResultPages
PagesAreWindows == Pages!Spec

(* A client that turns pages misses no row: what it has seen has no gap,    *)
(* and when a page offers no next one, it has seen every row from there and *)
(* from the first it saw to the last.                                       *)
NothingSkipped ==
    /\ \A p, r \in shown : p .. r \subseteq shown
    /\ pc = "idle" /\ answer # Refused /\ setting.kind = "rows" /\ ~IsFull(answer.rows)
       => \A p \in shown \cup {offset + 1} : p .. setting.total \subseteq shown

(* Every request is answered: the skip and the loop come to an end. *)
PageComes == pc = "asked" ~> pc = "idle"

(* addLimitOffset fetches a row more than the limit "so we can check if     *)
(* there are more rows to fetch after limit".                               *)
MoreRowsNoticed ==
    pc = "idle" /\ answer # Refused /\ setting.kind = "rows" =>
        (answer.more <=> setting.total > offset + Len(answer.rows))

(* "ResultSet has no rows", "ResultSet has more than 1 row" (dumpBlob): a   *)
(* value is refused only if the window of the request has not exactly one.  *)
ValueRefusedUnlessOne ==
    pc = "idle" /\ answer = Refused /\ setting.kind = "value" /\ offset <= FetchMax =>
        Pages!Width(setting, offset) # 1
=============================================================================
