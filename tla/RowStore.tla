------------------------------ MODULE RowStore ------------------------------
(***************************************************************************)
(* What the write requests of the API promise about a relation: an accepted *)
(* request changes, at one instant, rows that it selects and that are then  *)
(* as its client read them, as many as updatemin and updatemax allow; it    *)
(* cannot put a row out of the sight of the relation's sqlFilter.           *)
(***************************************************************************)
EXTENDS RowRequests

VARIABLE table

Init == table \in [Keys -> Row \cup {NoRow}]

(* The row is as the client read it, if clients say what they read. *)
AsRead(r, row) == ~HasLock \/ row.version \in {r.lock, Null}

Selected(r) ==
    {k \in r.select :
        IF r.op = "insert" THEN table[k] = NoRow
        ELSE /\ table[k] # NoRow
             /\ r.filter \in {AnyGroup, table[k].group}
             /\ HasFilter => table[k].visible
             /\ r.op = "update" => AsRead(r, table[k])}

(* Whether the request must leave the rows it writes visible.  An UPDATE of *)
(* more than one row need not (see RowWrites, SeenAfterUpdate).             *)
KeepsVisible(r) ==
    /\ HasFilter
    /\ r.op = "insert" \/ (r.op = "update" /\ \E k \in Keys : r.select = {k})

Apply(r) ==
    \E K \in SUBSET Selected(r) :
        /\ Cardinality(K) >= r.min /\ Cardinality(K) <= r.max
        /\ r.op = "delete" /\ r.full => Cardinality(K) = 1
        /\ KeepsVisible(r) => \A k \in K : NewRow(r, table[k]).visible
        /\ table' = [k \in Keys |-> IF k \in K THEN NewRow(r, table[k]) ELSE table[k]]

Next == \E r \in Requests : Apply(r)

Spec == Init /\ [][Next]_table
=============================================================================
