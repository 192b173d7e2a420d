---------------------------- MODULE MCMetaSync ----------------------------
(* Instances of MetaSync for TLC: two names, one good and one bad           *)
(* definition.                                                              *)
EXTENDS MetaSyncInvariant, TLC

CONSTANTS a, b, good, bad

MCNames == {a, b}
MCDefs == {good, bad}
MCValidDefs == {good}

R(op, key, name, def) ==
    [op |-> op, key |-> key, name |-> name, def |-> def,
     disabled |-> FALSE, byParam |-> FALSE, min |-> 1]

(* What the editor pages send: whole rows, the key in the path. *)
PlainRequests ==
    {R("insert", a, a, good), R("insert", a, a, bad),
     R("update", a, a, good), R("update", a, a, bad), R("update", a, b, good),
     R("delete", a, a, NoDef), R("delete", b, b, NoDef)}

(* What the API also accepts: no row needed, the key in a k: parameter, a   *)
(* disabled row, a definition left alone.                                   *)
OddRequests ==
    {[R("update", a, b, good) EXCEPT !.min = 0],
     [R("update", a, a, good) EXCEPT !.byParam = TRUE],
     [R("update", a, a, good) EXCEPT !.disabled = TRUE],
     R("update", a, a, NoDef), R("update", a, a, bad),
     R("readQuery", a, a, NoDef)}

AllRequests == PlainRequests \cup OddRequests

EnabledRow(d) == [def |-> d, disabled |-> FALSE]

(* Any row named a; none, or an enabled one, named b. *)
AnyTables ==
    {tab \in [MCNames -> Row \cup {NoRow}] : tab[b] \in {NoRow, EnabledRow(good)}}

EitherThread == Permutations(Threads)
===========================================================================
