----------------------- MODULE RelationListsInvariant -----------------------
(***************************************************************************)
(* The inductive invariant of RelationLists.                               *)
(***************************************************************************)
EXTENDS RelationLists

(* While no list was asked for on top of another, at most one is on its way, *)
(* the select waits for it empty, and it is that of the model selected.      *)
OneList ==
    ~mixed =>
        /\ \A l \in Loading : /\ Loading = {l}
                              /\ page.options = {}
                              /\ load[l].model = page.model
        /\ page.options \in {{}, Of[page.model]}

(* The location leads to a place: to its model, and to its relation if the  *)
(* model has it.                                                            *)
LeadsTo(p, place) ==
    /\ Here(p) # NoHash /\ Here(p).model = place.model
    /\ place.rel \in Of[place.model] \cup {NoRel} => Here(p).rel = place.rel

(* Unless something else has met a list that was not there, the location    *)
(* leads to the place that was asked for last, and at most one list is on   *)
(* its way, that of the model selected.  Only before the page has been      *)
(* brought to its bookmark can the location name another model; until then  *)
(* nothing is shown and no relation is run.                                 *)
Heading ==
    /\ ~hasty =>
        /\ asked # NoHash /\ asked.model \in Models => LeadsTo(page, asked)
        /\ \A l \in Loading : Loading = {l} /\ load[l].model = page.model
    /\ Elsewhere(page) => ~page.shown /\ \A r \in Runs : run[r] # None => ~run[r].named

IInv == TypeOK /\ OneList /\ LocationNamesSelection
=============================================================================
