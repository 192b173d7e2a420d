---------------------------- MODULE MCRowWrites ----------------------------
(* Finite instances of RowWrites. *)
EXTENDS RowWritesInvariant

CONSTANTS k1, k2, g1, g2, t1, t2, t3

R(op, select, full, filter, lock, max) ==
    [op |-> op, select |-> select, full |-> full, filter |-> filter, lock |-> lock,
     group |-> Keep, visible |-> Keep, version |-> Keep, min |-> 1, max |-> max]

Insert(k, group, visible, version) ==
    [R("insert", {k}, FALSE, AnyGroup, Null, 1) EXCEPT
        !.group = group, !.visible = visible, !.version = version]

(* Saves of one row that take the next version, as the editors send them;   *)
(* saves of all the rows of a group; deletes and inserts.                   *)
LockRequests ==
    {[R("update", {k1}, TRUE, AnyGroup, v, 1) EXCEPT !.version = 3 - v] : v \in Versions}
    \cup {[R("update", {k1}, TRUE, AnyGroup, Null, 1) EXCEPT !.group = g2, !.version = 1],
          [R("update", Keys, FALSE, g1, 1, 2) EXCEPT !.version = 2],
          [R("update", Keys, FALSE, AnyGroup, 1, 1) EXCEPT !.group = g2, !.min = 0],
          R("delete", {k1}, TRUE, AnyGroup, Null, 1),
          R("delete", Keys, FALSE, g1, Null, 2),
          Insert(k1, g1, TRUE, 1), Insert(k2, g1, TRUE, Null)}

(* One row at a time, by its key. *)
KeyedRequests ==
    {[R("update", {k}, TRUE, AnyGroup, Null, 1) EXCEPT !.visible = b] :
        k \in Keys, b \in BOOLEAN}
    \cup {[R("update", {k1}, TRUE, g1, Null, 1) EXCEPT !.group = g2],
          R("delete", {k1}, TRUE, AnyGroup, Null, 1), R("delete", {k2}, TRUE, g1, Null, 1),
          Insert(k1, g1, TRUE, Null), Insert(k1, g1, FALSE, Null),
          Insert(k2, g1, TRUE, Null)}

(* All the rows of a group. *)
GroupRequests ==
    {[R("update", Keys, FALSE, g1, Null, n) EXCEPT !.visible = b] :
        n \in {1, 2}, b \in BOOLEAN}
    \cup {[R("update", Keys, FALSE, g1, Null, 2) EXCEPT !.group = g2],
          [R("update", Keys, FALSE, AnyGroup, Null, 2) EXCEPT !.group = g1, !.min = 2],
          R("delete", Keys, FALSE, g1, Null, 1),
          R("delete", Keys, TRUE, AnyGroup, Null, 2)}

FilterRequests == KeyedRequests \cup GroupRequests

(* What the visibility check meets. *)
HidingRequests ==
    {[R("update", Keys, FALSE, g1, Null, 2) EXCEPT !.visible = FALSE],
     Insert(k2, g1, TRUE, Null)}

SomeRow == [group: {g1}, visible: {TRUE}, version: {1, Null}]
LockTables == [Keys -> SomeRow \cup {NoRow}]
FilterTables ==
    {tab \in [Keys -> [group: Groups, visible: BOOLEAN, version: {Null}] \cup {NoRow}] :
        tab[k2] # NoRow => tab[k2].visible}
=============================================================================
