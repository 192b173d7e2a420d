------------------------------ MODULE MetaStore ------------------------------
(***************************************************************************)
(* What the write operations of the API promise about a meta-object table: *)
(* each accepted request takes effect at one instant, on the table as it   *)
(* is at that instant; every other request leaves the table alone.         *)
(***************************************************************************)
EXTENDS MetaRows

VARIABLE table

Init == table \in [Names -> Row \cup {NoRow}]

Apply(r) ==
    /\ Applicable(r, table)
    /\ table' = TableAfter(r, table)

Next == \E r \in Requests : Apply(r)

Spec == Init /\ [][Next]_table
=============================================================================
