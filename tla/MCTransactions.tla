--------------------------- MODULE MCTransactions ---------------------------
(* Instances of Transactions for TLC. *)
EXTENDS Transactions

R(op) == [op |-> op, rows |-> FALSE, excess |-> FALSE, ddl |-> FALSE]
Defining(request) == [request EXCEPT !.ddl = TRUE]

Plain ==
    {R("select"), R("selectAny"), R("execute"), R("diff"), R("diff2q"), R("info"),
     R("sql"), [R("sql") EXCEPT !.excess = TRUE], [R("sql") EXCEPT !.rows = TRUE]}
AllRequests == Plain \cup {Defining(r) : r \in Plain \ {R("info"), R("diff")}}

AllDatabases == Database
=============================================================================
