---------------------------- MODULE MCRowWindow ----------------------------
(* Finite instances of RowWindow. *)
EXTENDS RowWindowInvariant

Perhaps(S) == S \cup {None}

Of(kinds, strategies) ==
    [asked: Perhaps({0, 1, 2}), queryDefault: Perhaps({1}), queryMax: Perhaps({2}),
     default: Perhaps({1, 3}), max: {2, 3}, total: {0, 2, 3, 5}, scrolls: BOOLEAN,
     tellsLast: BOOLEAN, strategy: strategies, kind: kinds]

AllStrategies == {"RESULTSET_CONTROL", "SQL_LIMIT_OFFSET", "SQL_ROWNUM", "SQL_FETCH_FIRST"}

AgreedSettings == {s \in Of({"rows", "value", "head"}, {"RESULTSET_CONTROL", "SQL_ROWNUM"}) : Agreed(s)}
AnySettings == Of({"rows"}, AllStrategies)
ValueSettings == {s \in Of({"value"}, {"RESULTSET_CONTROL"}) : s.asked = 1}
=============================================================================
