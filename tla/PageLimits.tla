----------------------------- MODULE PageLimits -----------------------------
(***************************************************************************)
(* How many rows of a relation an answer may have: the limits of the       *)
(* request, of the comments in the query's text and of the properties.     *)
(***************************************************************************)
EXTENDS Integers

CONSTANT None  \* a limit that is not given

ASSUME NoneAssumption == None \notin Int

(* asked: limit=<n>.  queryDefault, queryMax: limit-default and limit-max   *)
(* in the query's text.  default, max: queryon.limit.default and .max.      *)
(* total: rows of the relation that the request's filters leave.  scrolls:  *)
(* the driver's result set is not FORWARD_ONLY.  tellsLast: its isLast works.*)
(* kind: all columns, one column of one row (valuefield=), or HEAD.         *)
Setting == [asked: Nat \cup {None}, queryDefault: Nat \cup {None},
            queryMax: Nat \cup {None}, default: Nat \cup {None}, max: Nat,
            total: Nat, scrolls: BOOLEAN, tellsLast: BOOLEAN,
            strategy: {"RESULTSET_CONTROL", "SQL_LIMIT_OFFSET", "SQL_ROWNUM",
                       "SQL_FETCH_FIRST"},
            kind: {"rows", "value", "head"}]

Least(a, b) == IF a <= b THEN a ELSE b

(* MathUtil.minIgnoreNull *)
LeastGiven(a, b) == IF a = None THEN b ELSE IF b = None THEN a ELSE Least(a, b)

(* QueryOn.getLimit *)
Limit(given, default, max) ==
    IF given # None THEN Least(given, max)
    ELSE IF default # None THEN Least(default, max)
    ELSE max

(* SQL.limit *)
SqlLimit(s) == IF s.asked # None THEN s.asked ELSE s.queryDefault

(* The limit of the SQL statement (getSelectQuery) and the one of the loop  *)
(* that writes the rows (doSelect, dumpResultSet).                          *)
PushedLimit(s) == Limit(SqlLimit(s), s.default, LeastGiven(s.queryMax, s.max))

ShownLimit(s) == Limit(LeastGiven(SqlLimit(s), s.queryMax), s.default, s.max)

(* "about limit, limit-default, limit-max" of queryon-config-tips.md *)
DocumentedLimit(s) ==
    LET max == LeastGiven(s.queryMax, s.max)
        default == IF s.queryDefault # None THEN s.queryDefault
                   ELSE IF s.default # None THEN s.default ELSE max
    IN  Least(IF s.asked # None THEN s.asked ELSE default, max)

(* Settings for which the loop has the limit that is documented. *)
LimitsAgree(s) ==
    \/ SqlLimit(s) # None \/ s.queryMax = None \/ s.default = None
    \/ s.default >= Least(s.queryMax, s.max)
=============================================================================
