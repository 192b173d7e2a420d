---------------------------- MODULE RowRequests ----------------------------
(***************************************************************************)
(* A row of a relation and the requests that write to it, as far as        *)
(* doInsert, doUpdate and doDelete of QueryOn tell them apart.             *)
(*                                                                         *)
(* A row has a key, a column that clients filter on, the outcome of the    *)
(* relation's sqlFilter on it, and the column of its optimistic lock.      *)
(***************************************************************************)
EXTENDS Naturals, FiniteSets

CONSTANTS
    Keys,       \* values of the primary key
    Groups,     \* values of the column that clients filter on
    Versions,   \* values of the lock column
    HasFilter,  \* the relation is a QonTable with a sqlFilter
    HasLock,    \* queryon.optimisticlock@<relation>.field is set
    NoRow,      \* no row with that key
    Null,       \* the lock column is null; the request has no optimisticlock
    Keep,       \* the request does not supply the column
    AnyGroup,   \* the request does not filter on the column
    Requests    \* the requests that clients may send

Row == [group: Groups, visible: BOOLEAN, version: Versions \cup {Null}]

(* select: the keys that filterByKey leaves.  full: fullKeyDefined.  filter: *)
(* feq:GROUP.  group, visible, version: the v: values.  lock: optimisticlock.*)
(* min, max: updatemin and updatemax.                                        *)
Request == [op: {"insert", "update", "delete"},
            select: SUBSET Keys, full: BOOLEAN, filter: Groups \cup {AnyGroup},
            group: Groups \cup {Keep}, visible: BOOLEAN \cup {Keep},
            version: Versions \cup {Null, Keep}, lock: Versions \cup {Null},
            min: Nat, max: Nat]

ASSUME KeysAssumption == IsFiniteSet(Keys)
ASSUME FlagsAssumption == HasFilter \in BOOLEAN /\ HasLock \in BOOLEAN
ASSUME RowSentinelsAssumption ==
    /\ NoRow \notin Row
    /\ Null \notin Versions
    /\ Keep \notin Groups /\ Keep \notin BOOLEAN /\ Keep \notin Versions \cup {Null}
    /\ AnyGroup \notin Groups
ASSUME RowRequestsAssumption ==
    /\ Requests \subseteq Request
    /\ \A r \in Requests : r.op = "insert" =>
          /\ \E k \in Keys : r.select = {k}
          /\ r.group # Keep /\ r.visible # Keep /\ r.version # Keep

-----------------------------------------------------------------------------
(* The row a request leaves in place of a row; an insert supplies all of it. *)
Supplied(value, default) == IF value = Keep THEN default ELSE value

NewRow_KeepWritten(r, row) ==
    IF r.op = "delete" THEN NoRow
    ELSE [group |-> r.group, visible |-> r.visible, version |-> r.version]
NewRow(r, row) ==
    IF r.op = "delete" THEN NoRow
    ELSE [group |-> Supplied(r.group, row.group),
          visible |-> Supplied(r.visible, row.visible),
          version |-> Supplied(r.version, row.version)]
=============================================================================
