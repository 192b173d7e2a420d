----------------------- MODULE TransactionsInvariant -----------------------
(***************************************************************************)
(* The inductive invariant of Transactions: where the changes of a request *)
(* may be at each place of its handler.                                    *)
(***************************************************************************)
EXTENDS Transactions

(* A connection has one borrower. *)
Borrowed ==
    /\ \A q \in Calls : Mine(q) \cap pool = {}
    /\ \A q, r \in Calls : q # r => Mine(q) \cap Mine(r) = {}

(* What a handler has done when it is at a label. *)
Control(q) ==
    /\ pc[q] = "borrow" => ran[q] = 0 /\ Len(held[q]) < Borrows(q)
    /\ pc[q] = "run" => ran[q] < Statements(q)
    /\ pc[q] \in {"run", "write", "commit", "answer"} => Len(held[q]) = Borrows(q)
    /\ pc[q] \in {"write", "commit", "answer"} => ran[q] = Statements(q)
    /\ pc[q] = "write" => ~Updates(q) /\ Op(q) # "diff"
    /\ pc[q] = "commit" => Promises(q)
    /\ pc[q] = "answer" => Updates(q) \/ Op(q) = "diff"
    /\ pc[q] \in {"borrow", "run", "write", "commit", "answer"} => end[q] = ""
    /\ pc[q] = "hooks" => Op(q) = "diff" /\ end[q] = "ok"
    /\ Updates(q) => q \notin flushed

(* The changes of an update, a routine or a diff are in the transaction of  *)
(* its connection until they are committed ...                              *)
Pending(q) ==
    Promises(q) /\ pc[q] \in {"run", "write", "commit"} =>
        \A i \in 1 .. ran[q] : <<q, i>> \in open[held[q][1]] \cup db

(* ... and are in the database before anybody is told so.                   *)
Applied(q) ==
    \/ pc[q] = "answer" \/ end[q] = "ok"
    \/ Op(q) = "diff" /\ q \in flushed
Stored(q) == Promises(q) /\ Applied(q) => Own(q) \subseteq db

(* A handler that ended like this has neither committed nor rolled back. *)
Undecided(q) ==
    /\ end[q] = "ok" => ~Promises(q)
    /\ end[q] = "sql" => Op(q) \in {"diff", "diff2q"}

(* A change in an open transaction is of the connection's borrower, or was  *)
(* left there by a request that is over.                                    *)
OpenOrigin(q) ==
    \A c \in Connections, i \in {1, 2} : <<q, i>> \in open[c] =>
        /\ Op(q) # "info"
        /\ \/ c \in Mine(q) /\ pc[q] \in {"run", "write", "commit"}
           \/ c \in Mine(q) /\ pc[q] = "close" /\ Undecided(q)
           \/ dbms.close = "keep" /\ pc[q] = "done" /\ LeftToClose(q)

(* A committed change is of a request that has committed, by itself or by   *)
(* its definitions, or was left to close().                                 *)
DbOrigin(q) ==
    \A i \in {1, 2} : <<q, i>> \in db =>
        \/ Promises(q) /\ pc[q] = "answer"
        \/ Promises(q) /\ pc[q] \in {"close", "hooks", "done"} /\ end[q] = "ok"
        \/ Op(q) = "diff" /\ pc[q] = "done" /\ end[q] # "sql"
        \/ pc[q] = "done" /\ LeftToClose(q)
        \/ Implicit(q)

CallInv(q) == Control(q) /\ Pending(q) /\ Stored(q) /\ OpenOrigin(q) /\ DbOrigin(q)

IInv == TypeOK /\ Borrowed /\ \A q \in Calls : CallInv(q)

(* Every connection is in the pool or borrowed, and only InfoServlet ends   *)
(* with one.                                                                *)
Accounted == \A c \in Connections : c \in pool \/ \E q \in Calls : c \in Mine(q)
GivenBack(q) ==
    pc[q] \in {"hooks", "done"} => held[q] = <<>> \/ (Op(q) = "info" /\ Len(held[q]) = 1)

PoolInv == Accounted /\ \A q \in Calls : GivenBack(q)
=============================================================================
