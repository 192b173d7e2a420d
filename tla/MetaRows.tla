------------------------------ MODULE MetaRows ------------------------------
(***************************************************************************)
(* The rows of a meta-object table (qon_queries, qon_tables or qon_execs)  *)
(* and what one INSERT, UPDATE or DELETE request does to them.             *)
(*                                                                         *)
(* The key of the three tables is the column NAME.  A row is abstracted to *)
(* its definition (the query text, the column list, the script body: what  *)
(* is validated against the database) and its DISABLED flag.               *)
(***************************************************************************)
EXTENDS Naturals

CONSTANTS
    Names,      \* values of the NAME column
    Defs,       \* definitions a row may hold
    ValidDefs,  \* the definitions the database accepts when they are prepared
    NoRow,      \* no row with that name
    NoDef,      \* a request that does not supply the definition's columns
    Requests    \* the requests that clients may send

Row == [def: Defs, disabled: BOOLEAN]

(* key: the value in the request's path, or in its k:NAME parameter when   *)
(* byParam holds.  name, def, disabled: the v: values.  min: updatemin.    *)
Request == [op: {"insert", "update", "delete", "readQuery"},
            key: Names, name: Names, def: Defs \cup {NoDef},
            disabled: BOOLEAN, byParam: BOOLEAN, min: {0, 1}]

ASSUME SentinelsAssumption == NoRow \notin Row /\ NoDef \notin Defs
ASSUME DefsAssumption == ValidDefs \subseteq Defs
ASSUME RequestsAssumption ==
    /\ Requests \subseteq Request
    /\ \A r \in Requests : r.op = "insert" => r.def # NoDef

-----------------------------------------------------------------------------
(* The names whose row the statement of a request writes: an UPDATE that    *)
(* supplies another NAME renames the row.                                   *)
Touched(r) ==
    (IF r.op \in {"update", "delete"} THEN {r.key} ELSE {})
    \cup (IF r.op \in {"insert", "update"} THEN {r.name} ELSE {})

(* The statement finds the one row it needs (update, delete), and its       *)
(* result breaks no key.                                                    *)
Applicable(r, tab) ==
    \/ r.op = "insert" /\ tab[r.name] = NoRow
    \/ r.op = "update" /\ tab[r.key] # NoRow /\ (r.name = r.key \/ tab[r.name] = NoRow)
    \/ r.op = "delete" /\ tab[r.key] # NoRow

(* The row a request leaves under its name: columns that it does not supply *)
(* keep their values.                                                       *)
NewRow_NullDef(r, tab) == [def |-> r.def, disabled |-> r.disabled]
NewRow(r, tab) ==
    [def |-> IF r.def = NoDef THEN tab[r.key].def ELSE r.def,
     disabled |-> r.disabled]

TableAfter(r, tab) ==
    [n \in Names |->
        IF n \notin Touched(r) THEN tab[n]
        ELSE IF r.op # "delete" /\ n = r.name THEN NewRow(r, tab)
        ELSE NoRow]
=============================================================================
