-------------------------- MODULE MCRelationLists --------------------------
(* A finite instance of RelationLists: a relation that both models have,   *)
(* and one of the second model only.                                       *)
EXTENDS RelationLists

CONSTANTS m1, m2, gone, r1, r2

SharedAndOwn == [m \in Models |-> IF m = m1 THEN {r1} ELSE {r1, r2}]

(* A place of the second model, no model (perhaps without the relation),   *)
(* and a model that is gone.                                               *)
SomeBookmarks ==
    {[rel |-> r2, model |-> m] : m \in {m2, NoModel, gone}}
=============================================================================
