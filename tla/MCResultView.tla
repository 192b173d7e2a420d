---------------------------- MODULE MCResultView ----------------------------
(* A finite instance of ResultView. *)
EXTENDS ResultView, TLC

CONSTANTS r1, r2, a, b, c1, c2

(* Two rows and one row. *)
TwoTables == {[r \in Relations |-> [k \in Keys |-> IF r = r1 \/ k = 1 THEN a ELSE NoValue]]}

Symmetric == Permutations(Calls)
=============================================================================
