-------------------------- MODULE RowWindowProofs --------------------------
(***************************************************************************)
(* Theorems about RowWindow, for relations of any size, any settings, and  *)
(* any number of turned pages.                                             *)
(***************************************************************************)
EXTENDS RowWindowInvariant, SequenceTheorems, TLAPS

(* The limits are numbers. *)
LEMMA LimitTypes ==
    ASSUME NEW s \in Settings
    PROVE  /\ s \in Setting
           /\ PushedLimit(s) \in Nat /\ ShownLimit(s) \in Nat /\ DocumentedLimit(s) \in Nat
           /\ Cap(s) \in Nat /\ Fetched(s) \in Nat
<1>1. s \in Setting
  BY SettingsAssumption
<1> QED
  BY <1>1, NoneAssumption
     DEF Setting, PushedLimit, ShownLimit, DocumentedLimit, Cap, Fetched, Limit,
         SqlLimit, LeastGiven, Least

(* The limit of the SQL text is the documented one for every setting; that  *)
(* of the loop for the settings that agree.                                 *)
LEMMA LimitsAreDocumented ==
    ASSUME NEW s \in Settings
    PROVE  /\ PushedLimit(s) = DocumentedLimit(s)
           /\ LimitsAgree(s) => ShownLimit(s) = DocumentedLimit(s)
<1>1. s \in Setting
  BY SettingsAssumption
<1> QED
  BY <1>1, NoneAssumption
     DEF Setting, PushedLimit, ShownLimit, DocumentedLimit, LimitsAgree, Limit,
         SqlLimit, LeastGiven, Least

(* The result set has the rows of the relation from First on. *)
LEMMA SizeType ==
    ASSUME TypeOK
    PROVE  /\ Size \in Nat /\ First \in Nat
           /\ Size > 0 => First + Size <= setting.total
           /\ ~Pushed => First = 0 /\ Size = setting.total
           /\ Pushed => First = offset
           /\ setting.total \in Nat
           /\ \A m, n \in Nat : Moved(m, n) = Least(m + n, Size + 1) /\ Moved(m, n) \in Nat
<1>1. setting \in Setting /\ Fetched(setting) \in Nat /\ PushedLimit(setting) \in Nat
  BY LimitTypes DEF TypeOK
<1>2. setting.total \in Nat
  BY <1>1 DEF Setting
<1>3. /\ Size \in Nat /\ First \in Nat
      /\ Size > 0 => First + Size <= setting.total
      /\ ~Pushed => First = 0 /\ Size = setting.total
      /\ Pushed => First = offset
  BY <1>1, <1>2 DEF TypeOK, Size, First, Least
<1> QED
  BY <1>2, <1>3 DEF Moved, Least

-----------------------------------------------------------------------------
LEMMA InitIInv == Init => IInv
<1> SUFFICES ASSUME Init PROVE IInv
  OBVIOUS
<1>1. TypeOK
  <2>1. setting \in Setting
    BY SettingsAssumption DEF Init
  <2> QED
    BY <2>1 DEF Init, TypeOK, Setting
<1> QED
  BY <1>1 DEF Init, IInv, Cursor, Waits, Answered, Seen

-----------------------------------------------------------------------------
(* While a request is served, its result set stays what it is. *)
LEMMA SameResultSet ==
    ASSUME UNCHANGED <<setting, offset>>
    PROVE  /\ Pushed' <=> Pushed
           /\ Size' = Size /\ First' = First
           /\ Agreed(setting)' <=> Agreed(setting)
           /\ Pages!Width(setting, offset)' = Pages!Width(setting, offset)
BY DEF Pushed, Size, First, Pages!Width, Pages!Least, Pages!DocumentedLimit

LEMMA ExecuteIInv == IInv /\ Execute => IInv'
<1> SUFFICES ASSUME IInv, Execute PROVE IInv'
  OBVIOUS
<1>1. /\ UNCHANGED <<setting, offset, shown>>
      /\ pc = "asked" /\ answer = Waiting
      /\ nexts' = 0 /\ page' = <<>>
  BY DEF Execute, IInv, Waits
<1>2. /\ setting \in Setting /\ ShownLimit(setting) \in Nat
      /\ offset \in Nat /\ Size \in Nat
      /\ ~Pushed => First = 0
      /\ Pushed => First = offset
  BY LimitTypes, SizeType DEF IInv, TypeOK
<1>3. \/ pc' = "idle" /\ answer' = Refused /\ pos' = 0 /\ left' = left
      \/ /\ pc' = "fetch" /\ answer' = answer /\ left' = left
         /\ Pushed \/ setting.scrolls \/ offset = 0
         /\ pos' = Moved(0, offset - First) /\ pos' \in Nat
         /\ ~Pushed /\ ~setting.scrolls => offset <= FetchMax
      \/ /\ pc' = "skip" /\ answer' = answer /\ left' = offset /\ pos' = 0
         /\ ~Pushed /\ offset <= FetchMax
  BY <1>1, <1>2, FetchMaxAssumption DEF Execute, Landing, Moved, Least
<1>4. TypeOK'
  BY <1>1, <1>2, <1>3 DEF IInv, TypeOK
<1>5. Cursor'
  BY <1>1, <1>2, <1>3, SameResultSet DEF Cursor, Moved, Least
<1>6. Waits'
  BY <1>1, <1>3, AnswersAssumption DEF Waits
<1>7. Agreed(setting)' => Answered' /\ Seen'
  BY <1>1, <1>3, SameResultSet DEF IInv, Answered, Seen
<1> QED
  BY <1>4, <1>5, <1>6, <1>7 DEF IInv

LEMMA SkipIInv == IInv /\ Skip => IInv'
<1> SUFFICES ASSUME IInv, Skip PROVE IInv'
  OBVIOUS
<1>1. /\ UNCHANGED <<setting, offset, answer, shown, nexts, page>>
      /\ pc = "skip" /\ pc' \in {"skip", "fetch"}
      /\ ~Pushed /\ left \in 0 .. offset /\ pos = Moved(0, offset - left)
      /\ nexts = 0 /\ page = <<>>
      /\ ~setting.scrolls => offset <= FetchMax
  BY DEF Skip, IInv, TypeOK, Cursor
<1>2. /\ pc' = "fetch" => left = 0 /\ pos' = pos /\ left' = left
      /\ pc' = "skip" => left > 0 /\ pos' = Moved(pos, 1) /\ left' = left - 1
  BY <1>1 DEF Skip
<1>3. offset \in Nat /\ Size \in Nat /\ ShownLimit(setting) \in Nat
  BY SizeType, LimitTypes DEF IInv, TypeOK
<1>4. pos' = Moved(0, offset - left') /\ pos' \in Nat /\ left' \in 0 .. offset
  BY <1>1, <1>2, <1>3 DEF Moved, Least
<1>5. TypeOK'
  BY <1>1, <1>4 DEF IInv, TypeOK
<1>6. Cursor'
  <2>1. First = 0 /\ Len(page') = 0
    BY <1>1, SizeType DEF IInv
  <2>2. First' = 0 /\ ~Pushed' /\ Size' = Size
    BY <1>1, <2>1, SameResultSet
  <2>3. CASE pc' = "skip"
    BY <1>1, <1>3, <1>4, <2>2, <2>3 DEF Cursor, Moved
  <2>4. CASE pc' = "fetch"
    <3>1. offset - left' = (offset' - First') + Len(page')
      BY <1>1, <1>2, <1>3, <2>1, <2>2, <2>4
    <3>2. pos' = Least(0 + ((offset' - First') + Len(page')), Size' + 1)
      BY <1>4, <2>2, <3>1 DEF Moved
    <3>3. /\ nexts' = Len(page') /\ Len(page') <= ShownLimit(setting')
          /\ page' = <<>>
          /\ ~setting'.scrolls => offset' <= FetchMax
      BY <1>1, <1>3, <2>1
    <3>4. \A i \in 1 .. Len(page') : page'[i] = offset' + i
      BY <2>1
    <3> QED
      BY <2>4, <3>2, <3>3, <3>4 DEF Cursor, Moved
  <2> QED
    BY <1>1, <2>3, <2>4
<1>7. Waits' /\ (Agreed(setting)' => Answered' /\ Seen')
  BY <1>1, SameResultSet DEF IInv, Waits, Answered, Seen
<1> QED
  BY <1>5, <1>6, <1>7 DEF IInv

LEMMA WriteRowIInv == IInv /\ WriteRow => IInv'
<1> SUFFICES ASSUME IInv, WriteRow PROVE IInv'
  OBVIOUS
<1>1. /\ UNCHANGED <<setting, offset, answer, shown, pc, left>>
      /\ pc = "fetch" /\ setting.kind = "rows"
      /\ ~Capped /\ pos < Size /\ Len(page) < ShownLimit(setting)
      /\ nexts' = nexts + 1 /\ pos' = Moved(pos, 1)
      /\ page' = Append(page, First + pos')
  BY DEF WriteRow, HasNext, MovesNext
<1>2. /\ offset \in Nat /\ pos \in Nat /\ page \in Seq(Nat) /\ Len(page) \in Nat
      /\ Size \in Nat /\ First \in Nat /\ ShownLimit(setting) \in Nat
      /\ ~Pushed => First = 0
      /\ Pushed => First = offset
  <2>1. page \in Seq(Nat)
    BY DEF IInv, TypeOK
  <2> QED
    BY <2>1, SizeType, LimitTypes, LenProperties DEF IInv, TypeOK
<1>3. pos' = pos + 1 /\ pos' <= Size
  BY <1>1, <1>2 DEF Moved, Least
<1>4. pos = (offset - First) + Len(page)
  BY <1>1, <1>2 DEF IInv, Cursor, Moved, Least
<1>5. /\ First + pos' = offset + Len(page) + 1
      /\ First + pos' \in Nat
  BY <1>2, <1>3, <1>4
<1>6. /\ page' \in Seq(Nat) /\ Len(page') = Len(page) + 1
      /\ page' # <<>>
      /\ \A i \in 1 .. Len(page') : page'[i] = offset + i
  <2>1. \A i \in 1 .. Len(page) : page[i] = offset + i
    BY <1>1 DEF IInv, Cursor
  <2>2. /\ page' \in Seq(Nat) /\ Len(page') = Len(page) + 1
        /\ \A i \in 1 .. Len(page) : page'[i] = page[i]
        /\ page'[Len(page) + 1] = First + pos'
    BY <1>1, <1>2, <1>5, AppendProperties
  <2>3. page' # <<>>
    BY <1>2, <2>2
  <2>4. ASSUME NEW i \in 1 .. Len(page')
        PROVE  page'[i] = offset + i
    <3>1. CASE i \in 1 .. Len(page)
      BY <2>1, <2>2, <3>1
    <3>2. CASE i = Len(page) + 1
      BY <1>2, <1>5, <2>2, <3>2
    <3> QED
      BY <1>2, <2>2, <3>1, <3>2
  <2> QED
    BY <2>2, <2>3, <2>4
<1>7. TypeOK'
  <2>1. pos' \in Nat /\ nexts' \in Nat /\ page' \in Seq(Nat)
    <3>1. nexts \in Nat
      BY DEF IInv, TypeOK
    <3> QED
      BY <1>1, <1>2, <1>3, <1>6, <3>1
  <2>2. TypeOK
    BY DEF IInv
  <2> HIDE DEF IInv
  <2> QED
    BY <1>1, <2>1, <2>2 DEF TypeOK
<1>8. Cursor'
  <2>1. pos' = Moved(0, (offset - First) + Len(page'))
    BY <1>2, <1>3, <1>4, <1>6 DEF Moved, Least
  <2>2. nexts = Len(page) /\ (~Pushed /\ ~setting.scrolls => offset <= FetchMax)
    BY <1>1 DEF IInv, Cursor
  <2>3. (Pushed' <=> Pushed) /\ Size' = Size /\ First' = First
    BY <1>1, SameResultSet
  <2>4. Len(page') <= ShownLimit(setting)
    BY <1>1, <1>2, <1>6
  <2> QED
    BY <1>1, <1>2, <1>3, <1>6, <2>1, <2>2, <2>3, <2>4 DEF Cursor, Moved
<1>9. Waits' /\ (Agreed(setting)' => Answered' /\ Seen')
  BY <1>1, SameResultSet DEF IInv, Waits, Answered, Seen
<1> QED
  BY <1>7, <1>8, <1>9 DEF IInv

(* The instance of the abstract module has its own copy of the limits. *)
LEMMA PagesLimit ==
    ASSUME NEW s \in Settings
    PROVE  /\ Pages!DocumentedLimit(s) = DocumentedLimit(s)
           /\ \A m, n : Pages!Least(m, n) = Least(m, n)
BY DEF Pages!DocumentedLimit, Pages!LeastGiven, Pages!Least, DocumentedLimit, LeastGiven, Least

LEMMA WidthType ==
    ASSUME TypeOK, Agreed(setting)
    PROVE  LET after == IF setting.total > offset THEN setting.total - offset ELSE 0
           IN  /\ Pages!Width(setting, offset) \in Nat
               /\ Pages!Width(setting, offset) = Least(ShownLimit(setting), after)
<1>1. ShownLimit(setting) = DocumentedLimit(setting) /\ ShownLimit(setting) \in Nat
  BY LimitsAreDocumented, LimitTypes DEF TypeOK, Agreed
<1>2. setting.total \in Nat /\ offset \in Nat
  BY SizeType DEF TypeOK
<1> QED
  BY <1>1, <1>2, PagesLimit DEF TypeOK, Pages!Width, Least

(* The loop stops when the page has all the rows of its window; there is a  *)
(* further row in the result set exactly if there is one in the relation.   *)
LEMMA LoopEnds ==
    ASSUME IInv, Agreed(setting), pc = "fetch", setting.kind = "rows",
           ~HasNext \/ Len(page) >= ShownLimit(setting)
    PROVE  /\ Len(page) = Pages!Width(setting, offset)
           /\ page = Pages!Rows(offset, Pages!Width(setting, offset))
           /\ HasNext <=> setting.total > offset + DocumentedLimit(setting)
<1>1. /\ setting \in Settings /\ offset \in Nat /\ page \in Seq(Nat) /\ Len(page) \in Nat
      /\ nexts = Len(page) /\ Len(page) <= ShownLimit(setting)
      /\ pos = Moved(0, (offset - First) + Len(page))
      /\ page # <<>> => pos <= Size
      /\ \A i \in 1 .. Len(page) : page[i] = offset + i
  BY LenProperties DEF IInv, TypeOK, Cursor
<1>2. /\ ShownLimit(setting) = PushedLimit(setting)
      /\ ShownLimit(setting) = DocumentedLimit(setting)
      /\ ShownLimit(setting) \in Nat
  BY <1>1, LimitsAreDocumented, LimitTypes DEF Agreed
<1>3. setting.total \in Nat
  BY SizeType DEF IInv
<1>4. page = <<>> <=> Len(page) = 0
  BY <1>1, EmptySeq
<1> DEFINE after == IF setting.total > offset THEN setting.total - offset ELSE 0
<1>5. ASSUME Pushed
      PROVE  /\ Len(page) = Least(ShownLimit(setting), after)
             /\ HasNext <=> setting.total > offset + ShownLimit(setting)
  <2>1. /\ First = offset
        /\ Size = IF ShownLimit(setting) > 0 THEN Least(ShownLimit(setting) + 1, after)
                  ELSE after
    BY <1>2, <1>5 DEF First, Size, Fetched
  <2>2. HasNext <=> Len(page) < Size
    BY <1>1, <1>2, <1>3, <1>4, <1>5, <2>1 DEF HasNext, Capped, Moved, Least
  <2> DEFINE limit == ShownLimit(setting)
             total == setting.total
             n == Len(page)
  <2>3. /\ limit \in Nat /\ total \in Nat /\ n \in Nat /\ offset \in Nat
        /\ n <= limit /\ (~HasNext \/ n >= limit)
    BY <1>1, <1>2, <1>3
  <2>4. n <= Size
    <3>1. CASE page = <<>>
      BY <1>3, <1>4, <2>1, <2>3, <3>1 DEF Least
    <3>2. CASE page # <<>>
      BY <1>1, <2>1, <2>3, <3>2 DEF Moved, Least
    <3> QED
      BY <3>1, <3>2
  <2> HIDE DEF limit, total, n
  <2>5. Size = IF limit > 0 THEN Least(limit + 1, after) ELSE after
    BY <2>1 DEF limit
  <2>6. n = Least(limit, after) /\ (HasNext <=> total > offset + limit)
    BY <2>2, <2>3, <2>4, <2>5 DEF Least, n, total
  <2> QED
    BY <2>6 DEF limit, total, n
<1>6. ASSUME ~Pushed
      PROVE  /\ Len(page) = Least(ShownLimit(setting), after)
             /\ HasNext <=> setting.total > offset + ShownLimit(setting)
  <2>1. First = 0 /\ Size = setting.total
    BY <1>6, SizeType DEF IInv
  <2>2. Cap(setting) = ShownLimit(setting) + 1
    BY DEF Cap
  <2>3. HasNext <=> pos < setting.total
    BY <1>1, <1>2, <2>1, <2>2 DEF HasNext, Capped
  <2>4. HasNext <=> offset + Len(page) < setting.total
    BY <1>1, <1>3, <1>4, <2>1, <2>3 DEF Moved, Least
  <2> QED
    BY <1>1, <1>2, <1>3, <1>4, <2>1, <2>4 DEF Moved, Least
<1>7. Len(page) = Pages!Width(setting, offset)
  BY <1>5, <1>6, WidthType DEF IInv
<1>8. page = [i \in 1 .. Len(page) |-> page[i]]
  BY <1>1, SeqDef
<1>9. page = Pages!Rows(offset, Pages!Width(setting, offset))
  BY <1>1, <1>7, <1>8 DEF Pages!Rows
<1> QED
  BY <1>2, <1>5, <1>6, <1>7, <1>9

-----------------------------------------------------------------------------
(* An interval that a page extends is an interval again. *)
LEMMA Extended ==
    ASSUME NEW a \in Int, NEW b \in Int, NEW from \in Nat, NEW n \in Nat,
           a <= b + 1, from <= b, a <= from + n + 1
    PROVE  (a .. b) \cup ((from + 1) .. (from + n))
             = (IF a <= from + 1 THEN a ELSE from + 1) .. (IF b <= from + n THEN from + n ELSE b)
OBVIOUS

LEMMA WriteFooterIInv == IInv /\ WriteFooter => IInv'
<1> SUFFICES ASSUME IInv, WriteFooter PROVE IInv'
  OBVIOUS
<1> DEFINE n == Len(page)
           L == ShownLimit(setting)
           total == setting.total
           seen == (offset + 1) .. (offset + n)
<1>1. /\ pc = "fetch" /\ setting.kind = "rows"
      /\ pc' = "idle" /\ answer' = [rows |-> page, more |-> HasNext]
      /\ UNCHANGED <<setting, offset, left, page>>
      /\ shown' = shown \cup {page[i] : i \in 1 .. n}
      /\ nexts' = nexts + 1
      /\ pos' = IF Capped THEN pos ELSE Moved(pos, 1)
  BY DEF WriteFooter, Answers, MovesNext
<1>2. /\ setting \in Settings /\ offset \in Nat /\ page \in Seq(Nat)
      /\ n \in Nat /\ L \in Nat /\ total \in Nat
      /\ pos \in Nat /\ nexts \in Nat /\ Size \in Nat
  BY LenProperties, SizeType, LimitTypes DEF IInv, TypeOK
<1>3. n <= L /\ (n > 0 => offset + n <= total)
  <2>1. /\ n <= L /\ pos = Moved(0, (offset - First) + n)
        /\ page # <<>> => pos <= Size
    BY <1>1 DEF IInv, Cursor
  <2>2. /\ First \in Nat /\ (Size > 0 => First + Size <= total)
        /\ First = 0 \/ First = offset
    BY SizeType DEF IInv
  <2>3. n > 0 => page # <<>>
    BY <1>2
  <2> QED
    BY <1>2, <2>1, <2>2, <2>3 DEF Moved, Least
<1>4. {page[i] : i \in 1 .. n} = seen
  <2>1. \A i \in 1 .. n : page[i] = offset + i
    BY <1>1 DEF IInv, Cursor
  <2>2. ASSUME NEW r \in seen PROVE r \in {page[i] : i \in 1 .. n}
    <3>1. r - offset \in 1 .. n
      BY <1>2
    <3>2. page[r - offset] = r
      BY <1>2, <2>1, <3>1
    <3> QED
      BY <3>1, <3>2
  <2>3. ASSUME NEW i \in 1 .. n PROVE page[i] \in seen
    BY <1>2, <2>1
  <2> HIDE DEF seen
  <2> QED
    BY <2>2, <2>3
<1>5. Agreed(setting) =>
        /\ n = Pages!Width(setting, offset)
        /\ n = Least(L, IF total > offset THEN total - offset ELSE 0)
  BY <1>1, LoopEnds, WidthType DEF WriteFooter, IInv
<1>6. TypeOK'
  <2>1. answer' \in [rows: Seq(Nat), more: BOOLEAN]
    BY <1>1, <1>2 DEF HasNext
  <2>2. shown' \subseteq 1 .. total
    <3>1. seen \subseteq 1 .. total
      BY <1>2, <1>3
    <3>2. shown \subseteq 1 .. total
      BY DEF IInv, TypeOK
    <3> QED
      BY <1>1, <1>4, <3>1, <3>2
  <2>3. nexts' \in Nat /\ pos' \in Nat
    BY <1>1, <1>2 DEF Moved, Least
  <2> QED
    BY <1>1, <2>1, <2>2, <2>3 DEF IInv, TypeOK
<1>7. Cursor'
  BY <1>1 DEF Cursor
<1>8. Waits'
  <2>1. answer' \in [rows: Seq(Nat), more: BOOLEAN]
    BY <1>1, <1>2 DEF HasNext
  <2>2. answer' # Waiting
    BY <2>1, AnswersAssumption
  <2> QED
    BY <1>1, <2>2 DEF Waits
<1>9. ASSUME Agreed(setting) PROVE Answered'
  <2>1. answer'.rows = page
    BY <1>1
  <2> QED
    BY <1>1, <1>5, <1>9, <2>1, SameResultSet DEF Answered
<1>10. ASSUME Agreed(setting) PROVE Seen'
  <2>0. n = Least(L, IF total > offset THEN total - offset ELSE 0)
    BY <1>5, <1>10
  <2>1. L' = L /\ total' = total
    BY <1>1
  <2>2. CASE shown = {}
    <3>1. CASE n = 0
      BY <1>1, <1>2, <1>4, <2>0, <2>1, <2>2, <3>1 DEF Seen, Least
    <3>2. CASE n > 0
      <4>1. /\ offset + 1 \in 1 .. total /\ offset + n \in 1 .. total
            /\ shown' = (offset + 1) .. (offset + n)
        BY <1>1, <1>2, <1>3, <1>4, <2>2, <3>2
      <4>2. /\ offset + 1 <= offset + n
            /\ offset + 1 <= offset + L + 1 /\ offset <= offset + n
            /\ Least(offset + L, total) <= offset + n
        BY <1>2, <2>0, <3>2 DEF Least
      <4> QED
        BY <1>1, <2>1, <4>1, <4>2 DEF Seen
    <3> QED
      BY <1>2, <3>1, <3>2
  <2>3. ASSUME NEW a \in 1 .. total, NEW b \in 1 .. total,
               a <= b, shown = a .. b, a <= offset + L + 1, offset <= b
        PROVE  Seen'
    <3> DEFINE first == IF a <= offset + 1 THEN a ELSE offset + 1
               last == IF b <= offset + n THEN offset + n ELSE b
    <3>1. a <= offset + n + 1
      BY <1>2, <2>0, <2>3 DEF Least
    <3>2. shown' = first .. last
      <4>1. shown' = (a .. b) \cup seen
        BY <1>1, <1>4, <2>3
      <4>2. a \in Int /\ b \in Int /\ a <= b + 1 /\ offset <= b
        BY <1>2, <2>3
      <4> QED
        BY <1>2, <3>1, <4>1, <4>2, Extended
    <3>3. first \in 1 .. total /\ last \in 1 .. total /\ first <= last
      BY <1>2, <1>3, <2>3
    <3>4. /\ first <= offset + L + 1 /\ offset <= last
          /\ first <= offset + 1 /\ Least(offset + L, total) <= last
      <4>1. first <= offset + L + 1 /\ offset <= last /\ first <= offset + 1
        BY <1>2, <2>3
      <4>2. n = L \/ offset + n >= total
        BY <1>2, <2>0 DEF Least
      <4>3. Least(offset + L, total) <= offset + n
        BY <1>2, <4>2 DEF Least
      <4> QED
        BY <1>2, <4>1, <4>3 DEF Least
    <3> QED
      BY <1>1, <2>1, <3>2, <3>3, <3>4 DEF Seen
  <2> QED
    BY <1>10, <2>2, <2>3 DEF IInv, Seen
<1> QED
  BY <1>1, <1>6, <1>7, <1>8, <1>9, <1>10, SameResultSet DEF IInv

LEMMA WriteHeadersIInv == IInv /\ WriteHeaders => IInv'
<1> SUFFICES ASSUME IInv, WriteHeaders PROVE IInv'
  OBVIOUS
<1>1. /\ setting.kind = "head" /\ pc' = "idle"
      /\ answer' = [rows |-> <<>>, more |-> FALSE]
      /\ UNCHANGED <<setting, offset, left, page, pos, nexts, shown>>
  BY DEF WriteHeaders, Answers
<1>2. answer' \in [rows: Seq(Nat), more: BOOLEAN]
  BY <1>1
<1>3. answer' # Waiting
  BY <1>2, AnswersAssumption
<1>4. TypeOK'
  BY <1>1, <1>2 DEF IInv, TypeOK
<1>5. Cursor' /\ Waits' /\ (Agreed(setting)' => Answered' /\ Seen')
  BY <1>1, <1>3, SameResultSet DEF IInv, Cursor, Waits, Answered, Seen
<1> QED
  BY <1>4, <1>5 DEF IInv

LEMMA WriteValueIInv == IInv /\ WriteValue => IInv'
<1> SUFFICES ASSUME IInv, WriteValue PROVE IInv'
  OBVIOUS
<1>1. /\ setting.kind = "value" /\ pc' = "idle"
      /\ UNCHANGED <<setting, offset, left, page, shown>>
      /\ nexts' = nexts + 1
      /\ pos' = IF Capped THEN pos ELSE Moved(pos, 1)
      /\ \/ answer' = Refused
         \/ answer' = [rows |-> <<First + pos'>>, more |-> FALSE]
  BY DEF WriteValue, Answers, MovesNext
<1>2. pos' \in Nat /\ nexts' \in Nat /\ First + pos' \in Nat
  <2>1. pos \in Nat /\ nexts \in Nat /\ Size \in Nat /\ First \in Nat
    BY SizeType DEF IInv, TypeOK
  <2> QED
    BY <1>1, <2>1 DEF Moved, Least
<1>3. /\ answer' \in [rows: Seq(Nat), more: BOOLEAN] \cup {Refused}
      /\ answer' # Waiting
  <2>1. answer' \in [rows: Seq(Nat), more: BOOLEAN] \cup {Refused}
    <3> DEFINE row == First + pos'
    <3>1. row \in Nat
      BY <1>2
    <3> HIDE DEF row
    <3>2. <<row>> \in Seq(Nat)
      BY <3>1
    <3>3. \/ answer' = Refused
          \/ answer' = [rows |-> <<row>>, more |-> FALSE]
      BY <1>1 DEF row
    <3>4. \A rows \in Seq(Nat) :
            [rows |-> rows, more |-> FALSE] \in [rows: Seq(Nat), more: BOOLEAN]
      OBVIOUS
    <3> QED
      BY <3>2, <3>3, <3>4
  <2> QED
    BY <2>1, AnswersAssumption
<1>4. TypeOK'
  BY <1>1, <1>2, <1>3 DEF IInv, TypeOK
<1>5. Cursor' /\ Waits' /\ (Agreed(setting)' => Answered' /\ Seen')
  BY <1>1, <1>3, SameResultSet DEF IInv, Cursor, Waits, Answered, Seen
<1> QED
  BY <1>4, <1>5 DEF IInv

(* A client turns the page, from an answer with rows to a request. *)
LEMMA AsksIInv ==
    ASSUME IInv, NEW from \in Nat, Asks(from),
           from <= offset + ShownLimit(setting),
           offset <= from + ShownLimit(setting),
           from > offset => Len(answer.rows) = ShownLimit(setting)
    PROVE  IInv'
<1> DEFINE L == ShownLimit(setting)
           total == setting.total
<1>1. /\ pc = "idle" /\ setting.kind = "rows" /\ answer \notin {Waiting, Refused}
      /\ offset' = from /\ answer' = Waiting /\ pc' = "asked"
      /\ UNCHANGED <<setting, shown, pos, left, nexts, page>>
  BY DEF Asks
<1>2. offset \in Nat /\ total \in Nat /\ L \in Nat
  BY SizeType, LimitTypes DEF IInv, TypeOK
<1>3. TypeOK' /\ Cursor' /\ Waits' /\ Answered'
  <2>1. TypeOK'
    BY <1>1 DEF IInv, TypeOK
  <2> QED
    BY <1>1, <2>1 DEF Cursor, Waits, Answered
<1>4. Agreed(setting) /\ from > offset => offset + L <= total
  <2>1. Agreed(setting) /\ from > offset => L = Pages!Width(setting, offset)
    BY <1>1 DEF IInv, Answered
  <2> QED
    BY <1>2, <2>1, WidthType DEF IInv, Least
<1>5. ASSUME shown = {} PROVE Seen'
  BY <1>1, <1>5 DEF Seen
<1>6. ASSUME Agreed(setting), NEW a \in 1 .. total, NEW b \in 1 .. total,
             a <= b, shown = a .. b, a <= offset + 1, Least(offset + L, total) <= b, offset <= b
      PROVE  Seen'
  <2>1. from <= b
    BY <1>2, <1>4, <1>6 DEF Least
  <2>2. a <= from + L + 1
    BY <1>2, <1>6
  <2> QED
    BY <1>1, <1>6, <2>1, <2>2 DEF Seen
<1>7. Agreed(setting)' <=> Agreed(setting)
  BY <1>1
<1> QED
  BY <1>1, <1>3, <1>5, <1>6, <1>7 DEF IInv, Seen

LEMMA PreviousType ==
    ASSUME TypeOK
    PROVE  /\ PreviousOffset \in Nat /\ PreviousOffset <= offset
           /\ offset <= PreviousOffset + ShownLimit(setting)
<1>1. offset \in Nat /\ ShownLimit(setting) \in Nat
  BY LimitTypes DEF TypeOK
<1> QED
  BY <1>1 DEF PreviousOffset

-----------------------------------------------------------------------------
(* The inductive invariant. *)
THEOREM Invariance == Spec => []IInv
<1>1. IInv /\ [Next]_vars => IInv'
  <2> SUFFICES ASSUME IInv, [Next]_vars PROVE IInv'
    OBVIOUS
  <2>1. CASE Serve
    BY <2>1, ExecuteIInv, SkipIInv, WriteRowIInv, WriteFooterIInv, WriteHeadersIInv,
       WriteValueIInv DEF Serve
  <2>2. CASE NextPage
    <3>1. offset \in Nat /\ ShownLimit(setting) \in Nat
      BY LimitTypes DEF IInv, TypeOK
    <3>2. /\ Asks(offset + ShownLimit(setting))
          /\ Len(answer.rows) = ShownLimit(setting)
      BY <2>2 DEF NextPage, IsFull
    <3> QED
      BY <3>1, <3>2, AsksIInv
  <2>3. CASE PreviousPage
    <3>1. offset \in Nat /\ ShownLimit(setting) \in Nat
      BY LimitTypes DEF IInv, TypeOK
    <3>2. /\ Asks(PreviousOffset) /\ PreviousOffset \in Nat
          /\ PreviousOffset <= offset /\ offset <= PreviousOffset + ShownLimit(setting)
      BY <2>3, PreviousType DEF PreviousPage, IInv
    <3> QED
      BY <3>1, <3>2, AsksIInv
  <2>4. CASE UNCHANGED vars
    BY <2>4, SameResultSet
       DEF vars, IInv, TypeOK, Cursor, Waits, Answered, Seen, Moved
  <2> QED
    BY <2>1, <2>2, <2>3, <2>4 DEF Next
<1> QED
  BY <1>1, InitIInv, PTL DEF Spec

(* Every variable keeps to its type, whatever the page and the limits. *)
THEOREM TypeCorrect == Spec => []TypeOK
BY Invariance, PTL DEF IInv

(* What a client has seen after any number of pages, forth and back, has no *)
(* gap; without a next page it has seen the last row.                       *)
THEOREM NoRowSkipped == Spec => [](Agreed(setting) => NothingSkipped)
<1>1. IInv => (Agreed(setting) => NothingSkipped)
  <2> SUFFICES ASSUME IInv, Agreed(setting) PROVE NothingSkipped
    OBVIOUS
  <2> DEFINE L == ShownLimit(setting)
             total == setting.total
  <2>1. offset \in Nat /\ total \in Nat /\ L \in Nat
    BY SizeType, LimitTypes DEF IInv, TypeOK
  <2>2. \A p, r \in shown : p .. r \subseteq shown
    BY <2>1 DEF IInv, Seen
  <2>3. ASSUME pc = "idle", answer # Refused, setting.kind = "rows", ~IsFull(answer.rows),
               NEW p \in shown \cup {offset + 1}
        PROVE  p .. total \subseteq shown
    <3>1. offset + L > total
      <4>1. L # Pages!Width(setting, offset)
        BY <2>3 DEF IInv, Answered, IsFull
      <4> QED
        BY <2>1, <4>1, WidthType DEF IInv, Least
    <3>2. CASE shown = {}
      BY <2>1, <2>3, <3>1, <3>2 DEF IInv, Seen
    <3>3. ASSUME NEW a \in 1 .. total, NEW b \in 1 .. total, shown = a .. b,
                 a <= offset + 1, Least(offset + L, total) <= b
          PROVE  p .. total \subseteq shown
      BY <2>1, <2>3, <3>1, <3>3 DEF Least
    <3> QED
      BY <2>3, <3>2, <3>3 DEF IInv, Seen
  <2> QED
    BY <2>2, <2>3 DEF NothingSkipped
<1> QED
  BY <1>1, Invariance, PTL

-----------------------------------------------------------------------------
(* What the loop or the value of a request may rely on: a refusal for a     *)
(* driver that cannot scroll came before it.                                *)
LEMMA NotRefused ==
    ASSUME IInv, pc = "fetch"
    PROVE  ~(/\ ~setting.scrolls /\ setting.strategy = "RESULTSET_CONTROL"
             /\ offset > FetchMax)
BY FetchMaxAssumption DEF IInv, TypeOK, Cursor, Pushed

(* A value request reads one row, the first of its window, if there is one. *)
LEMMA ValueRead ==
    ASSUME IInv, Agreed(setting), pc = "fetch", setting.kind = "value", WriteValue
    PROVE  answer' = IF \/ Pages!Width(setting, offset) = 0
                        \/ setting.tellsLast /\ Pages!Width(setting, offset) > 1
                     THEN Refused
                     ELSE [rows |-> Pages!Rows(offset, 1), more |-> FALSE]
<1> DEFINE D == DocumentedLimit(setting)
           after == IF setting.total > offset THEN setting.total - offset ELSE 0
           W == Pages!Width(setting, offset)
<1>1. /\ setting \in Settings /\ setting \in Setting /\ offset \in Nat /\ setting.total \in Nat
      /\ page = <<>> /\ nexts = 0
      /\ pos = Moved(0, offset - First)
  <2>1. page = <<>> /\ nexts = Len(page) /\ pos = Moved(0, (offset - First) + Len(page))
    BY DEF IInv, Cursor
  <2>2. Len(page) = 0
    BY <2>1
  <2>3. setting \in Settings /\ setting \in Setting /\ offset \in Nat /\ setting.total \in Nat
        /\ First \in Nat
    BY SizeType, LimitTypes DEF IInv, TypeOK
  <2> QED
    BY <2>1, <2>2, <2>3
<1>2. /\ setting.asked \in Nat /\ setting.asked > 0 /\ setting.queryMax = None
      /\ setting.max \in Nat /\ setting.max > 0
      /\ setting.strategy = "RESULTSET_CONTROL" => ~setting.tellsLast
  BY <1>1, NoneAssumption DEF Agreed, Setting
<1>3. D = Least(setting.asked, setting.max) /\ D \in Nat /\ D > 0
  BY <1>2, NoneAssumption DEF DocumentedLimit, LeastGiven, Least
<1>4. W = Least(D, after) /\ W \in Nat
  BY <1>1, <1>3, PagesLimit DEF Pages!Width, Least
<1>5. PushedLimit(setting) = D /\ Cap(setting) = D
  BY <1>1, <1>2, <1>3, LimitsAreDocumented, NoneAssumption DEF Cap, Limit
<1>6. ~Capped
  BY <1>1, <1>3, <1>5 DEF Capped
<1>7. /\ HasNext <=> W > 0
      /\ HasNext => First + pos' = offset + 1
      /\ HasNext /\ setting.tellsLast => (pos' # Size <=> W > 1)
  <2>0. pos' = Moved(pos, 1)
    BY <1>6 DEF WriteValue, MovesNext
  <2>1. CASE Pushed
    <3>1. First = offset /\ Size = W
      BY <1>3, <1>4, <1>5, <2>1 DEF First, Size, Fetched, Least
    <3>2. pos = 0
      BY <1>1, <1>4, <3>1 DEF Moved, Least
    <3> QED
      BY <1>1, <1>4, <1>6, <2>0, <3>1, <3>2 DEF HasNext, Moved, Least
  <2>2. CASE ~Pushed
    <3>1. First = 0 /\ Size = setting.total
      BY <2>2, SizeType DEF IInv
    <3>2. pos = Least(offset, setting.total + 1)
      BY <1>1, <3>1 DEF Moved
    <3>3. ~setting.tellsLast
      BY <1>2, <1>3, <1>5, <2>2 DEF Pushed
    <3> QED
      BY <1>1, <1>3, <1>4, <1>6, <2>0, <3>1, <3>2, <3>3 DEF HasNext, Moved, Least
  <2> QED
    BY <2>1, <2>2
<1>8. Pages!Rows(offset, 1) = <<offset + 1>>
  BY <1>1 DEF Pages!Rows
<1>9. answer' = IF HasNext /\ (setting.tellsLast => pos' = Size)
                THEN [rows |-> <<First + pos'>>, more |-> FALSE]
                ELSE Refused
  BY DEF WriteValue, Answers
<1>10. CASE ~HasNext
  <2>1. W = 0
    BY <1>4, <1>7, <1>10
  <2>2. answer' = Refused
    BY <1>9, <1>10
  <2> QED
    BY <2>1, <2>2
<1>11. CASE HasNext
  <2>1. answer' = IF setting.tellsLast /\ W > 1 THEN Refused
                  ELSE [rows |-> <<offset + 1>>, more |-> FALSE]
    BY <1>7, <1>9, <1>11
  <2>2. W # 0
    BY <1>4, <1>7, <1>11
  <2> QED
    BY <1>8, <2>1, <2>2
<1> QED
  BY <1>10, <1>11

(* The setting is that of the page, chosen once. *)
LEMMA AgreedStays == Agreed(setting) /\ [Next]_vars => Agreed(setting)'
BY DEF Next, Serve, Execute, Skip, WriteRow, WriteFooter, WriteHeaders, WriteValue,
       Answers, NextPage, PreviousPage, Asks, vars

(* Whatever the strategy and the driver, if the limits of its setting agree *)
(* RowWindow implements ResultPages: an answer has exactly the rows of the  *)
(* documented window.                                                       *)
THEOREM PagesImplemented == Spec /\ Agreed(setting) => PagesAreWindows
<1>1. Init => Pages!Init
  BY DEF Init, Pages!Init
<1>2. IInv /\ Agreed(setting) /\ [Next]_vars => [Pages!Next]_<<setting, offset, answer>>
  <2> SUFFICES ASSUME IInv, Agreed(setting), Next, ~UNCHANGED <<setting, offset, answer>>
               PROVE  Pages!Next
    BY DEF vars
  <2>1. setting \in Settings
    BY DEF IInv, TypeOK
  <2>2. pc # "idle" => answer = Waiting
    BY DEF IInv, Waits
  <2>3. CASE Execute
    <3>1. /\ answer' = Refused /\ UNCHANGED <<setting, offset>> /\ pc = "asked"
          /\ ~Pushed /\ offset > FetchMax /\ ~setting.scrolls /\ offset # 0
      BY <2>3 DEF Execute
    <3>2. setting.strategy = "RESULTSET_CONTROL"
      BY <3>1, FetchMaxAssumption DEF Pushed, IInv, TypeOK
    <3> QED
      BY <2>2, <3>1, <3>2 DEF Pages!Next, Pages!Answer, Pages!IsRefused
  <2>4. CASE WriteFooter
    <3>1. /\ pc = "fetch" /\ setting.kind = "rows"
          /\ answer' = [rows |-> page, more |-> HasNext]
          /\ UNCHANGED <<setting, offset>>
      BY <2>4 DEF WriteFooter, Answers
    <3>2. /\ page = Pages!Rows(offset, Pages!Width(setting, offset))
          /\ HasNext <=> setting.total > offset + DocumentedLimit(setting)
      BY <2>4, <3>1, LoopEnds DEF WriteFooter
    <3>3. HasNext = (setting.total > offset + DocumentedLimit(setting))
      BY <3>2 DEF HasNext
    <3>4. answer' = Pages!Page(setting, offset)
      BY <2>1, <3>1, <3>2, <3>3, PagesLimit DEF Pages!Page
    <3> QED
      BY <2>2, <3>1, <3>4, NotRefused DEF Pages!Next, Pages!Answer, Pages!IsRefused
  <2>5. CASE WriteHeaders
    BY <2>2, <2>5, NotRefused
       DEF WriteHeaders, Answers, Pages!Next, Pages!Answer, Pages!IsRefused, Pages!Page
  <2>6. CASE WriteValue
    <3>1. pc = "fetch" /\ setting.kind = "value" /\ UNCHANGED <<setting, offset>>
      BY <2>6 DEF WriteValue, Answers
    <3> QED
      <4>1. answer' = IF Pages!IsRefused(setting, offset) THEN Refused
                      ELSE Pages!Page(setting, offset)
        BY <2>6, <3>1, NotRefused, ValueRead DEF Pages!IsRefused, Pages!Page
      <4> QED
        BY <2>2, <3>1, <4>1 DEF Pages!Next, Pages!Answer
  <2>7. CASE NextPage \/ PreviousPage
    <3>1. /\ answer \notin {Waiting, Refused} /\ setting.kind = "rows"
          /\ answer' = Waiting /\ UNCHANGED setting
      BY <2>7 DEF NextPage, PreviousPage, Asks
    <3>2. ShownLimit(setting) = Pages!DocumentedLimit(setting)
      BY <2>1, LimitsAreDocumented, PagesLimit DEF Agreed
    <3>3. CASE NextPage
      BY <3>1, <3>2, <3>3
         DEF NextPage, Asks, IsFull, Pages!Next, Pages!Turn, Pages!NextOffset
    <3>4. CASE PreviousPage
      BY <3>1, <3>2, <3>4
         DEF PreviousPage, PreviousOffset, Asks, Pages!Next, Pages!Turn, Pages!PreviousOffset
    <3> QED
      BY <2>7, <3>3, <3>4
  <2>8. CASE Skip \/ WriteRow
    BY <2>8 DEF Skip, WriteRow
  <2> QED
    BY <2>3, <2>4, <2>5, <2>6, <2>7, <2>8 DEF Next, Serve
<1> QED
  BY <1>1, <1>2, AgreedStays, Invariance, PTL DEF Spec, PagesAreWindows, Pages!Spec

-----------------------------------------------------------------------------
(* The promise of ResultPages, as an invariant: what is answered is the     *)
(* page of the offset that was asked for.                                   *)
AnswerIsPage ==
    answer # Waiting =>
        answer = IF Pages!IsRefused(setting, offset) THEN Refused
                 ELSE Pages!Page(setting, offset)

LEMMA PagesAnswer == Pages!Spec => []AnswerIsPage
<1>1. Pages!Init => AnswerIsPage
  BY DEF Pages!Init, AnswerIsPage
<1>2. AnswerIsPage /\ [Pages!Next]_<<setting, offset, answer>> => AnswerIsPage'
  BY DEF AnswerIsPage, Pages!Next, Pages!Answer, Pages!Turn
<1> QED
  BY <1>1, <1>2, PTL DEF Pages!Spec

(* Where the limits agree, the footer of a page tells whether rows follow:  *)
(* the run window_more needs settings that do not agree.                    *)
THEOREM FooterIsRight == Spec /\ Agreed(setting) => []MoreRowsNoticed
<1>1. IInv /\ Agreed(setting) /\ AnswerIsPage => MoreRowsNoticed
  <2> SUFFICES ASSUME IInv, Agreed(setting), AnswerIsPage,
                      pc = "idle", answer # Refused, setting.kind = "rows"
               PROVE  answer.more <=> setting.total > offset + Len(answer.rows)
    BY DEF MoreRowsNoticed
  <2>1. answer = Pages!Page(setting, offset)
    BY DEF IInv, Waits, AnswerIsPage
  <2>2. setting \in Settings /\ offset \in Nat /\ setting.total \in Nat
    BY SizeType DEF IInv, TypeOK
  <2>3. answer.more <=> setting.total > offset + DocumentedLimit(setting)
    BY <2>1, <2>2, PagesLimit DEF Pages!Page
  <2>4. /\ ShownLimit(setting) = DocumentedLimit(setting)
        /\ DocumentedLimit(setting) \in Nat
    BY <2>2, LimitsAreDocumented, LimitTypes DEF Agreed
  <2>5. Len(answer.rows)
          = Least(DocumentedLimit(setting),
                  IF setting.total > offset THEN setting.total - offset ELSE 0)
    BY <2>4, WidthType DEF IInv, Answered
  <2> QED
    BY <2>2, <2>3, <2>4, <2>5 DEF Least
<1> QED
  BY <1>1, AgreedStays, Invariance, PagesImplemented, PagesAnswer, PTL
     DEF Spec, PagesAreWindows

(* A value whose limit comes from the request and is applied where the last *)
(* row is known is refused only if its window has no row or several.        *)
THEOREM RefusalIsRight == Spec /\ Agreed(setting) => []ValueRefusedUnlessOne
<1>1. IInv /\ Agreed(setting) /\ AnswerIsPage => ValueRefusedUnlessOne
  <2> SUFFICES ASSUME IInv, Agreed(setting), AnswerIsPage, pc = "idle", answer = Refused,
                      setting.kind = "value", offset <= FetchMax
               PROVE  Pages!Width(setting, offset) # 1
    BY DEF ValueRefusedUnlessOne
  <2>1. setting \in Settings /\ offset \in Nat
    BY DEF IInv, TypeOK
  <2>2. CASE Pages!IsRefused(setting, offset)
    BY <2>1, <2>2, FetchMaxAssumption DEF Pages!IsRefused
  <2>3. CASE ~Pages!IsRefused(setting, offset)
    <3>1. Refused = Pages!Page(setting, offset)
      BY <2>3 DEF IInv, Waits, AnswerIsPage
    <3>2. Pages!Rows(offset, 1) \in Seq(Nat)
      <4> DEFINE row == offset + 1
      <4>1. Pages!Rows(offset, 1) = <<row>> /\ row \in Nat
        BY <2>1 DEF Pages!Rows
      <4> HIDE DEF row
      <4>2. <<row>> \in Seq(Nat)
        BY <4>1
      <4> QED
        BY <4>1, <4>2
    <3> QED
      BY <3>1, <3>2, AnswersAssumption DEF Pages!Page
  <2> QED
    BY <2>2, <2>3
<1> QED
  BY <1>1, AgreedStays, Invariance, PagesImplemented, PagesAnswer, PTL
     DEF Spec, PagesAreWindows
=============================================================================
