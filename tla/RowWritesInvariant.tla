------------------------- MODULE RowWritesInvariant -------------------------
(***************************************************************************)
(* The inductive invariant of RowWrites: what lets a handler rely, when it *)
(* commits, on what its statement found several steps earlier.             *)
(***************************************************************************)
EXTENDS RowWrites

(* A thread that has not run its statement has written nothing. *)
Control ==
    \A t \in Threads :
        /\ pc[t] # "idle" => req[t] \in Requests
        /\ pc[t] \in {"idle", "sql", "recheck"} => own[t] = Nothing
        /\ pc[t] = "visible" => req[t].op = "update"

(* No two transactions hold one row, and a held row is still as the         *)
(* statement found it: nothing the handler relies on is stale.              *)
HeldRowsAreFresh ==
    \A t \in Threads : \A k \in Wrote(t) :
        /\ ~LockedFor(t, k)
        /\ k \in Target(req[t])
        /\ req[t].op = "insert" => rows[k] = NoRow
        /\ own[t][k] = NewRow(req[t], rows[k])

(* What the handler has checked stays true until it commits. *)
Checked ==
    /\ \A t \in Threads : pc[t] \in {"visible", "commit"} =>
          CountAccepted(req[t], Cardinality(Wrote(t)))
    /\ KeyedUpdatesSeen

(* An update of one row that a request selects by its key hides no row. *)
Seen ==
    (\A r \in Requests : r.op = "update" => \E k \in Keys : r.select = {k})
        => unseen = {}

IInv == TypeOK /\ Control /\ HeldRowsAreFresh /\ Checked /\ Seen
=============================================================================
