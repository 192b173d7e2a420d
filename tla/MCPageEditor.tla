---------------------------- MODULE MCPageEditor ----------------------------
(* Finite instances of PageEditor. *)
EXTENDS PageEditor, TLC

CONSTANTS k1, blank, a, t1, t2, c1, c2

Symmetric == Permutations(Tabs) \cup Permutations(Connections)
=============================================================================
