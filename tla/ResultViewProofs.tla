--------------------------- MODULE ResultViewProofs ---------------------------
(***************************************************************************)
(* Theorems about ResultView, for any relations, keys and values, and any  *)
(* number of calls in flight.                                              *)
(***************************************************************************)
EXTENDS ResultViewInvariant, FiniteSetTheorems, SequenceTheorems, TLAPS

(* ------------------------- tables and their rows ------------------------ *)

LEMMA SeqOfFunction ==
    ASSUME NEW S, NEW n \in Nat, NEW f \in [1 .. n -> S]
    PROVE  f \in Seq(S) /\ Len(f) = n /\ DOMAIN f = 1 .. n
<1>1. f \in Seq(S)
  BY SeqDef
<1>2. DOMAIN f = 1 .. n /\ DOMAIN f = 1 .. Len(f) /\ Len(f) \in Nat
  BY <1>1, LenProperties
<1> QED
  BY <1>1, <1>2

LEMMA KeysCount == Cardinality(Keys) \in Nat
BY KeysAreNumbers, FS_CardinalityType

LEMMA TableParts ==
    ASSUME NEW tab \in Table
    PROVE  /\ tab.rel \in Relations /\ tab.marks \in Orders /\ tab.lines \in Seq(Line)
           /\ Len(tab.lines) \in Nat /\ DOMAIN tab.lines = 1 .. Len(tab.lines)
           /\ \A i \in DOMAIN tab.lines : tab.lines[i] \in Line
           /\ \A i \in DOMAIN tab.lines :
                /\ tab.lines[i].key \in Keys /\ tab.lines[i].value \in Values
                /\ tab.lines[i].mark \in {"plain", "struck", "added"}
<1>1. tab.rel \in Relations /\ tab.marks \in Orders /\ tab.lines \in Seq(Line)
  BY DEF Table
<1>2. /\ Len(tab.lines) \in Nat /\ DOMAIN tab.lines = 1 .. Len(tab.lines)
      /\ \A i \in DOMAIN tab.lines : tab.lines[i] \in Line
  BY <1>1, LenProperties, ElementOfSeq
<1> QED
  BY <1>1, <1>2 DEF Line

LEMMA CallParts ==
    ASSUME TypeOK, NEW c \in InFlight
    PROVE  /\ c \in Calls /\ call[c] \in Call /\ call[c] # NoCall
           /\ call[c].op \in {"run", "sort", "insert", "update", "delete"}
           /\ call[c].rel \in Relations /\ call[c].order \in Orders
           /\ call[c].key \in Keys /\ call[c].newkey \in Keys
           /\ call[c].value \in Values /\ call[c].rownum \in Nat
           /\ call[c].served \in BOOLEAN /\ call[c].clean \in BOOLEAN
           /\ call[c].answer \in Seq(Line)
<1>1. c \in Calls /\ call[c] \in Call /\ call[c] # NoCall
  BY DEF TypeOK, InFlight
<1> QED
  BY <1>1 DEF Call

(* What a select lists: rows of the relation, each once, in order. *)
LEMMA RowsListed ==
    ASSUME TypeOK, NEW rel \in Relations, NEW ord \in Orders,
           NEW ks \in Listings(Present(rel), ord)
    PROVE  LET lines == Rows(rel, ks) IN
           /\ lines \in Seq(Line) /\ Len(lines) <= Cardinality(Keys)
           /\ InOrder(lines, ord) /\ Holds(lines, stored[rel])
<1> DEFINE n == Cardinality(Present(rel))
           row == stored[rel]
           lines == Rows(rel, ks)
<1>1. row \in [Keys -> Values \cup {NoValue}]
  BY DEF TypeOK
<1>2. Present(rel) \subseteq Keys /\ \A k \in Present(rel) : row[k] \in Values
  BY <1>1 DEF Present
<1>3. n \in Nat /\ n <= Cardinality(Keys)
  BY <1>2, KeysAreNumbers, FS_Subset, FS_CardinalityType
<1>4. /\ ks \in [1 .. n -> Present(rel)]
      /\ \A k \in Present(rel) : \E i \in 1 .. n : ks[i] = k
      /\ \A i, j \in 1 .. n : i < j => ks[i] # ks[j] /\ Before(ord, ks[i], ks[j])
  BY DEF Listings
<1>5. lines = [i \in 1 .. n |-> [key |-> ks[i], value |-> row[ks[i]], mark |-> "plain"]]
  BY <1>4 DEF Rows
<1> HIDE DEF lines, n, row
<1>6. \A i \in 1 .. n : /\ lines[i] \in Line /\ lines[i].key = ks[i]
                        /\ lines[i].value = row[ks[i]] /\ lines[i].mark = "plain"
  <2>1. ASSUME NEW i \in 1 .. n
        PROVE  /\ lines[i] \in Line /\ lines[i].key = ks[i]
               /\ lines[i].value = row[ks[i]] /\ lines[i].mark = "plain"
    <3>1. lines[i] = [key |-> ks[i], value |-> row[ks[i]], mark |-> "plain"]
      BY <1>5
    <3>2. ks[i] \in Keys /\ row[ks[i]] \in Values
      BY <1>2, <1>4
    <3> QED
      <4>1. lines[i] \in Line
        BY <1>3, <3>1, <3>2 DEF Line
      <4> QED
        BY <1>3, <3>1, <4>1
  <2> QED
    BY <2>1
<1>7. lines \in [1 .. n -> Line]
  BY <1>5, <1>6
<1>8. lines \in Seq(Line) /\ Len(lines) = n /\ DOMAIN lines = 1 .. n
  BY <1>3, <1>7, SeqOfFunction
<1>9. InOrder(lines, ord)
  <2>1. SUFFICES ASSUME NEW i \in 1 .. n, NEW j \in 1 .. n, i < j
                 PROVE  Before(ord, lines[i].key, lines[j].key)
    BY <1>8 DEF InOrder
  <2>2. Before(ord, ks[i], ks[j])
    BY <1>4, <2>1
  <2>3. lines[i].key = ks[i] /\ lines[j].key = ks[j]
    BY <1>6
  <2> QED
    BY <2>2, <2>3 DEF Before
<1>10. Holds(lines, row)
  <2>1. LiveOf(lines) = 1 .. n
    BY <1>6, <1>8 DEF LiveOf
  <2>2. \A k \in Keys : row[k] # NoValue => \E i \in LiveOf(lines) : lines[i].key = k
    <3>1. SUFFICES ASSUME NEW k \in Keys, row[k] # NoValue
                   PROVE  \E i \in 1 .. n : lines[i].key = k
      BY <2>1
    <3>2. k \in Present(rel)
      BY <3>1 DEF Present, row
    <3>3. PICK i \in 1 .. n : ks[i] = k
      BY <1>4, <3>2
    <3> QED
      BY <1>6, <3>3
  <2>3. \A i, j \in 1 .. n : i # j => ks[i] # ks[j]
    <3>1. \A i, j \in 1 .. n : i < j \/ j < i \/ i = j
      BY <1>3
    <3> QED
      BY <1>4, <3>1
  <2>4. \A i \in 1 .. n : row[lines[i].key] = lines[i].value
    BY <1>6
  <2>5. \A i, j \in 1 .. n : lines[i].key = lines[j].key => i = j
    BY <1>3, <1>6, <2>3
  <2> QED
    BY <2>1, <2>2, <2>4, <2>5 DEF Holds
<1> QED
  BY <1>3, <1>8, <1>9, <1>10 DEF lines, row

(* ------------------------------ the calls ------------------------------- *)

LEMMA BlankParts ==
    ASSUME TypeOK
    PROVE  /\ Blank \in Call
           /\ Blank.rel = selected /\ Blank.served = FALSE /\ Blank.clean = FALSE
<1>1. (CHOOSE k \in Keys : TRUE) \in Keys
  BY KeysAreNumbers
<1>2. (CHOOSE v \in Values : TRUE) \in Values
  BY ValuesAssumption
<1>3. <<>> \in Seq(Line)
  BY EmptySeq
<1>4. Blank \in Call
  BY <1>1, <1>2, <1>3 DEF Blank, Call, TypeOK
<1> QED
  BY <1>4 DEF Blank

(* A run is sent: the other calls are as they were. *)
LEMMA RunSent ==
    ASSUME TypeOK, NEW c \in Calls, NEW op \in {"run", "sort"}, NEW ord \in Orders,
           DoRun(c, op, ord)
    PROVE  /\ call' \in [Calls -> Call \cup {NoCall}]
           /\ c \notin InFlight /\ InFlight' = InFlight \cup {c}
           /\ Writes' = Writes /\ Inserts' = Inserts
           /\ \A d \in InFlight : call'[d] = call[d]
           /\ call'[c].served = FALSE /\ call'[c].op = op
           /\ call'[c].clean <=> Writes = {}
<1> DEFINE r == RunCall(op, ord)
<1>1. call[c] = NoCall /\ call' = [call EXCEPT ![c] = r]
  BY DEF DoRun, MaySend
<1>2. r \in Call /\ r.served = FALSE /\ r.op = op /\ (r.clean <=> Writes = {})
  <2> DEFINE alone == Writes = {}
  <2>1. r = [Blank EXCEPT !.op = op, !.order = ord, !.clean = alone]
    BY DEF RunCall
  <2>2. alone \in BOOLEAN
    OBVIOUS
  <2> HIDE DEF r, alone
  <2>3. r \in Call /\ r.served = FALSE /\ r.op = op /\ r.clean = alone
    BY <2>1, <2>2, BlankParts DEF Call
  <2> QED
    BY <2>3 DEF alone
<1>3. r # NoCall
  BY <1>2, SentinelsAssumption
<1> HIDE DEF r
<1>4. call \in [Calls -> Call \cup {NoCall}]
  BY DEF TypeOK
<1>5. call' \in [Calls -> Call \cup {NoCall}] /\ call'[c] = r
  BY <1>1, <1>2, <1>4
<1>6. \A d \in Calls : d # c => call'[d] = call[d]
  BY <1>1, <1>4
<1>7. c \notin InFlight /\ InFlight' = InFlight \cup {c}
  BY <1>1, <1>3, <1>5, <1>6 DEF InFlight
<1>8. \A d \in InFlight : call'[d] = call[d]
  BY <1>6, <1>7 DEF InFlight
<1>9. Writes' = Writes /\ Inserts' = Inserts
  BY <1>2, <1>5, <1>7, <1>8 DEF Writes, Inserts
<1> QED
  BY <1>2, <1>5, <1>7, <1>8, <1>9

(* A write is sent: the runs in flight are clean no more. *)
LEMMA WriteSent ==
    ASSUME TypeOK, NEW c \in Calls, NEW request \in Call,
           request.op \in {"insert", "update", "delete"}, DoWrite(c, request)
    PROVE  /\ call' \in [Calls -> Call \cup {NoCall}]
           /\ c \notin InFlight /\ InFlight' = InFlight \cup {c}
           /\ Writes' = Writes \cup {c}
           /\ Inserts' = IF request.op = "insert" THEN Inserts \cup {c} ELSE Inserts
           /\ call'[c] = request
           /\ \A d \in InFlight :
                /\ call'[d].op = call[d].op /\ call'[d].served = call[d].served
                /\ call'[d].order = call[d].order /\ call'[d].answer = call[d].answer
                /\ call'[d].clean = FALSE
<1>1. call[c] = NoCall
  BY DEF DoWrite, MaySend
<1>2. call' = [d \in Calls |-> IF d = c THEN request
                               ELSE IF call[d] = NoCall THEN NoCall
                               ELSE [call[d] EXCEPT !.clean = FALSE]]
  BY DEF DoWrite
<1>3. call \in [Calls -> Call \cup {NoCall}] /\ request # NoCall
  BY SentinelsAssumption DEF TypeOK
<1>4. c \notin InFlight /\ call'[c] = request
  BY <1>1, <1>2 DEF InFlight
<1>5. \A d \in InFlight : /\ d \in Calls /\ d # c /\ call[d] \in Call
                          /\ call'[d] = [call[d] EXCEPT !.clean = FALSE]
  BY <1>2, <1>3, <1>4 DEF InFlight
<1>6. ASSUME NEW d \in InFlight
      PROVE  /\ call'[d] \in Call
             /\ call'[d].op = call[d].op /\ call'[d].served = call[d].served
             /\ call'[d].order = call[d].order /\ call'[d].answer = call[d].answer
             /\ call'[d].clean = FALSE
  <2> DEFINE old == call[d]
             new == call'[d]
  <2>1. old \in Call /\ new = [old EXCEPT !.clean = FALSE]
    BY <1>5
  <2> HIDE DEF old, new
  <2>2. new \in Call
    BY <2>1 DEF Call
  <2>3. /\ new.op = old.op /\ new.served = old.served
        /\ new.order = old.order /\ new.answer = old.answer /\ new.clean = FALSE
    BY <2>1 DEF Call
  <2> QED
    BY <2>2, <2>3 DEF old, new
<1>7. \A d \in Calls \ (InFlight \cup {c}) : call'[d] = NoCall
  BY <1>2 DEF InFlight
<1>8. call' \in [Calls -> Call \cup {NoCall}]
  <2>1. \A d \in Calls : call'[d] \in Call \cup {NoCall}
    BY <1>4, <1>6, <1>7
  <2> QED
    BY <1>2, <2>1
<1>9. InFlight' = InFlight \cup {c}
  <2>1. \A d \in InFlight : call'[d] # NoCall
    BY <1>6, SentinelsAssumption
  <2> QED
    BY <1>3, <1>4, <1>7, <2>1 DEF InFlight
<1>10. Writes' = Writes \cup {c}
  BY <1>4, <1>6, <1>9 DEF Writes
<1>11. Inserts' = IF request.op = "insert" THEN Inserts \cup {c} ELSE Inserts
  BY <1>4, <1>6, <1>9 DEF Inserts
<1> QED
  BY <1>4, <1>6, <1>8, <1>9, <1>10, <1>11

(* A call is over: the other calls are as they were. *)
LEMMA CallDone ==
    ASSUME TypeOK, NEW c \in InFlight, Done(c)
    PROVE  /\ call' \in [Calls -> Call \cup {NoCall}]
           /\ InFlight' = InFlight \ {c} /\ Writes' = Writes \ {c}
           /\ Inserts' = Inserts \ {c}
           /\ \A d \in InFlight \ {c} : call'[d] = call[d]
<1>1. call \in [Calls -> Call \cup {NoCall}] /\ c \in Calls
  BY DEF TypeOK, InFlight
<1>2. call' = [call EXCEPT ![c] = NoCall]
  BY DEF Done
<1>3. call' \in [Calls -> Call \cup {NoCall}] /\ call'[c] = NoCall
  BY <1>1, <1>2
<1>4. \A d \in Calls \ {c} : call'[d] = call[d]
  BY <1>1, <1>2
<1>5. InFlight' = InFlight \ {c}
  BY <1>3, <1>4 DEF InFlight
<1>6. \A d \in InFlight \ {c} : call'[d] = call[d]
  BY <1>4 DEF InFlight
<1> QED
  BY <1>3, <1>5, <1>6 DEF Writes, Inserts

(* A call is served: the other calls, and what it asks, are as they were. *)
LEMMA CallServed ==
    ASSUME TypeOK, NEW c \in InFlight, NEW answer \in Seq(Line),
           call' = [call EXCEPT ![c].served = TRUE, ![c].answer = answer]
    PROVE  /\ call' \in [Calls -> Call \cup {NoCall}]
           /\ InFlight' = InFlight /\ Writes' = Writes /\ Inserts' = Inserts
           /\ \A d \in InFlight \ {c} : call'[d] = call[d]
           /\ call'[c].op = call[c].op /\ call'[c].rel = call[c].rel
           /\ call'[c].order = call[c].order /\ call'[c].key = call[c].key
           /\ call'[c].newkey = call[c].newkey /\ call'[c].value = call[c].value
           /\ call'[c].rownum = call[c].rownum /\ call'[c].clean = call[c].clean
           /\ call'[c].served = TRUE /\ call'[c].answer = answer
<1> DEFINE old == call[c]
           new == [old EXCEPT !.served = TRUE, !.answer = answer]
<1>1. call \in [Calls -> Call \cup {NoCall}] /\ c \in Calls /\ old \in Call
  BY CallParts DEF TypeOK
<1>2. call' = [call EXCEPT ![c] = new]
  BY <1>1
<1> HIDE DEF old
<1>3. new \in Call
  BY <1>1 DEF Call
<1>4. /\ new.op = old.op /\ new.rel = old.rel /\ new.order = old.order
      /\ new.key = old.key /\ new.newkey = old.newkey /\ new.value = old.value
      /\ new.rownum = old.rownum /\ new.clean = old.clean
      /\ new.served = TRUE /\ new.answer = answer
  BY <1>1 DEF Call
<1> HIDE DEF new
<1>5. new # NoCall /\ old # NoCall
  BY <1>1, <1>3, SentinelsAssumption
<1>6. call' \in [Calls -> Call \cup {NoCall}] /\ call'[c] = new
  BY <1>1, <1>2, <1>3
<1>7. \A d \in Calls \ {c} : call'[d] = call[d]
  BY <1>1, <1>2
<1>8. InFlight' = InFlight
  BY <1>1, <1>5, <1>6, <1>7 DEF InFlight, old
<1>9. \A d \in InFlight : call'[d].op = call[d].op
  BY <1>4, <1>6, <1>7 DEF InFlight, old
<1>10. Writes' = Writes /\ Inserts' = Inserts
  BY <1>8, <1>9 DEF Writes, Inserts
<1>11. \A d \in InFlight \ {c} : call'[d] = call[d]
  BY <1>7 DEF InFlight
<1> QED
  BY <1>4, <1>6, <1>8, <1>10, <1>11 DEF old

(* --------------------------- the table patched -------------------------- *)

(* The answer of an insert adds a line, those of an update and a delete     *)
(* change the one with the number rownum; the other lines stay.             *)
LEMMA InsertPatch ==
    ASSUME NEW c, content \in Table, call[c].op = "insert",
           call[c].newkey \in Keys, call[c].value \in Values
    PROVE  LET old == content.lines
               new == Patched(c).lines
               n == Len(old) + 1 IN
           /\ Patched(c) \in Table /\ Patched(c).rel = content.rel
           /\ Patched(c).marks = content.marks
           /\ Len(new) = n
           /\ new[n].key = call[c].newkey /\ new[n].value = call[c].value
           /\ new[n].mark = "added"
           /\ \A i \in 1 .. Len(old) : new[i] = old[i]
<1> DEFINE old == content.lines
           line == [key |-> call[c].newkey, value |-> call[c].value, mark |-> "added"]
<1>1. Patched(c) = [content EXCEPT !.lines = Append(old, line)]
  BY DEF Patched
<1>2. old \in Seq(Line) /\ line \in Line
  BY DEF Table, Line
<1>3. Append(old, line) \in Seq(Line)
  BY <1>2, AppendProperties
<1>4. /\ Patched(c) \in Table /\ Patched(c).rel = content.rel
      /\ Patched(c).marks = content.marks /\ Patched(c).lines = Append(old, line)
  BY <1>1, <1>3 DEF Table
<1>5. /\ Len(Append(old, line)) = Len(old) + 1
      /\ \A i \in 1 .. Len(old) : Append(old, line)[i] = old[i]
      /\ Append(old, line)[Len(old) + 1] = line
  BY <1>2, AppendProperties
<1> QED
  BY <1>4, <1>5

LEMMA LinePatch ==
    ASSUME NEW c, content \in Table, call[c].op \in {"update", "delete"},
           call[c].newkey \in Keys, call[c].value \in Values, call[c].rownum \in Nat
    PROVE  LET old == content.lines
               new == Patched(c).lines
               n == call[c].rownum IN
           /\ Patched(c) \in Table /\ Patched(c).rel = content.rel
           /\ Patched(c).marks = content.marks
           /\ Len(new) = Len(old)
           /\ \A i \in 1 .. Len(old) : i # n => new[i] = old[i]
           /\ call[c].op = "update" /\ n \in 1 .. Len(old) =>
                /\ new[n].key = call[c].newkey /\ new[n].value = call[c].value
                /\ new[n].mark = old[n].mark
           /\ call[c].op = "delete" /\ n \in 1 .. Len(old) =>
                /\ new[n].key = old[n].key /\ new[n].value = old[n].value
                /\ new[n].mark = "struck"
<1> DEFINE old == content.lines
           n == call[c].rownum
           struck == [old[n] EXCEPT !.mark = "struck"]
           changed == [old[n] EXCEPT !.key = call[c].newkey, !.value = call[c].value]
           line == IF call[c].op = "delete" THEN struck ELSE changed
           new == [i \in DOMAIN old |-> IF i # n THEN old[i] ELSE line]
<1>1. Patched(c) = [content EXCEPT !.lines = new]
  BY Zenon DEF Patched
<1>2. /\ old \in Seq(Line) /\ Len(old) \in Nat /\ DOMAIN old = 1 .. Len(old)
      /\ \A i \in 1 .. Len(old) : old[i] \in Line
  BY TableParts
<1>3. ASSUME n \in 1 .. Len(old)
      PROVE  /\ struck \in Line /\ changed \in Line
             /\ struck.key = old[n].key /\ struck.value = old[n].value
             /\ struck.mark = "struck"
             /\ changed.key = call[c].newkey /\ changed.value = call[c].value
             /\ changed.mark = old[n].mark
  <2> DEFINE was == old[n]
  <2>1. was \in Line
    BY <1>2, <1>3
  <2> HIDE DEF was
  <2>2. [was EXCEPT !.mark = "struck"] \in Line
    BY <2>1 DEF Line
  <2>3. [was EXCEPT !.key = call[c].newkey, !.value = call[c].value] \in Line
    BY <2>1 DEF Line
  <2> QED
    BY <2>1, <2>2, <2>3 DEF Line, was
<1>4. /\ \A i \in 1 .. Len(old) : i # n => new[i] = old[i]
      /\ n \in 1 .. Len(old) => new[n] = line
  BY <1>2
<1> HIDE DEF struck, changed
<1>5. new \in [1 .. Len(old) -> Line]
  BY <1>2, <1>3
<1> HIDE DEF new
<1>6. new \in Seq(Line) /\ Len(new) = Len(old)
  BY <1>2, <1>5, SeqOfFunction
<1>7. /\ Patched(c) \in Table /\ Patched(c).rel = content.rel
      /\ Patched(c).marks = content.marks /\ Patched(c).lines = new
  BY <1>1, <1>6 DEF Table
<1> QED
  BY <1>3, <1>4, <1>6, <1>7

(* A patch keeps the order of the lines that were not added. *)
LEMMA PatchInOrder ==
    ASSUME NEW c, content \in Table,
           call[c].op \in {"insert", "update", "delete"},
           call[c].newkey \in Keys, call[c].value \in Values, call[c].rownum \in Nat,
           Aimed(call[c]), InOrder(content.lines, content.marks)
    PROVE  InOrder(Patched(c).lines, content.marks)
<1> DEFINE old == content.lines
           new == Patched(c).lines
<1>1. /\ old \in Seq(Line) /\ Len(old) \in Nat /\ DOMAIN old = 1 .. Len(old)
  BY TableParts
<1>2. \A i, j \in {n \in 1 .. Len(old) : old[n].mark # "added"} :
         i < j => Before(content.marks, old[i].key, old[j].key)
  BY <1>1 DEF InOrder
<1>3. CASE call[c].op = "insert"
  <2>1. /\ Patched(c) \in Table /\ Len(new) = Len(old) + 1
        /\ new[Len(old) + 1].mark = "added"
        /\ \A i \in 1 .. Len(old) : new[i] = old[i]
    BY <1>3, InsertPatch
  <2>2. DOMAIN new = 1 .. Len(old) + 1
    BY <2>1, TableParts
  <2> HIDE DEF new, old
  <2>3. {n \in DOMAIN new : new[n].mark # "added"}
          = {n \in 1 .. Len(old) : old[n].mark # "added"}
    BY <1>1, <2>1, <2>2
  <2>4. \A i, j \in {n \in 1 .. Len(old) : old[n].mark # "added"} :
           i < j => Before(content.marks, new[i].key, new[j].key)
    BY <1>2, <2>1
  <2> QED
    BY <2>3, <2>4 DEF InOrder, new
<1>4. CASE call[c].op \in {"update", "delete"}
  <2>1. /\ Patched(c) \in Table /\ Len(new) = Len(old)
        /\ \A i \in 1 .. Len(old) : i # call[c].rownum => new[i] = old[i]
        /\ call[c].op = "update" /\ call[c].rownum \in 1 .. Len(old) =>
                /\ new[call[c].rownum].key = call[c].newkey
                /\ new[call[c].rownum].mark = old[call[c].rownum].mark
        /\ call[c].op = "delete" /\ call[c].rownum \in 1 .. Len(old) =>
                /\ new[call[c].rownum].key = old[call[c].rownum].key
    BY <1>4, LinePatch
  <2>2. /\ call[c].rownum \in 1 .. Len(old) /\ old[call[c].rownum].key = call[c].key
        /\ call[c].op = "update" => call[c].newkey = call[c].key
        /\ call[c].op = "delete" => old[call[c].rownum].mark = "plain"
    BY <1>4 DEF Aimed, HasLine, KeyAt
  <2>3. DOMAIN new = 1 .. Len(old)
    BY <2>1, TableParts
  <2> HIDE DEF new, old
  <2>4. \A i \in 1 .. Len(old) :
           /\ new[i].key = old[i].key
           /\ new[i].mark # "added" => old[i].mark # "added"
    BY <1>4, <2>1, <2>2
  <2> QED
    BY <1>2, <2>3, <2>4 DEF InOrder, new
<1> QED
  BY <1>3, <1>4

(* What a write does to the database. *)
LEMMA RowChanged ==
    ASSUME TypeOK, NEW c \in Writes, Changes(c)
    PROVE  LET r == call[c]
               row == stored[r.rel]
               new == stored'[r.rel] IN
           /\ stored' \in [Relations -> [Keys -> Values \cup {NoValue}]]
           /\ r.op = "insert" =>
                /\ row[r.newkey] = NoValue /\ new[r.newkey] = r.value
                /\ \A k \in Keys \ {r.newkey} : new[k] = row[k]
           /\ r.op = "update" /\ r.newkey = r.key =>
                /\ new[r.key] = r.value
                /\ \A k \in Keys \ {r.key} : new[k] = row[k]
           /\ r.op = "delete" =>
                /\ new[r.key] = NoValue
                /\ \A k \in Keys \ {r.key} : new[k] = row[k]
<1> DEFINE r == call[c]
<1>1. c \in InFlight /\ r.op \in {"insert", "update", "delete"}
  BY CallParts DEF Writes
<1>2. r.rel \in Relations /\ r.key \in Keys /\ r.newkey \in Keys /\ r.value \in Values
  BY <1>1, CallParts
<1>3. stored \in [Relations -> [Keys -> Values \cup {NoValue}]]
  BY DEF TypeOK
<1> HIDE DEF r
<1>4. CASE r.op = "insert"
  <2>1. /\ stored[r.rel][r.newkey] = NoValue
        /\ stored' = [stored EXCEPT ![r.rel][r.newkey] = r.value]
    BY <1>4 DEF Changes, r
  <2> QED
    BY <1>2, <1>3, <1>4, <2>1 DEF r
<1>5. CASE r.op = "update"
  <2>1. stored' = [stored EXCEPT ![r.rel][r.key] = NoValue, ![r.rel][r.newkey] = r.value]
    BY <1>5 DEF Changes, r
  <2> QED
    BY <1>2, <1>3, <1>5, <2>1 DEF r
<1>6. CASE r.op = "delete"
  <2>1. stored' = [stored EXCEPT ![r.rel][r.key] = NoValue]
    BY <1>6 DEF Changes, r
  <2> QED
    BY <1>2, <1>3, <1>6, <2>1 DEF r
<1> QED
  BY <1>1, <1>4, <1>5, <1>6 DEF r

(* The patch does to the table what the write has done to the database. *)
LEMMA PatchHolds ==
    ASSUME TypeOK, NEW c \in Writes, content \in Table, Changes(c), Aimed(call[c]),
           Holds(content.lines, stored[content.rel])
    PROVE  Holds(Patched(c).lines, stored'[content.rel])
<1> DEFINE r == call[c]
           old == content.lines
           new == Patched(c).lines
           was == stored[content.rel]
           now == stored'[content.rel]
           n == r.rownum
<1>1. c \in InFlight /\ r.op \in {"insert", "update", "delete"}
  BY CallParts DEF Writes
<1>2. /\ r.rel \in Relations /\ r.key \in Keys /\ r.newkey \in Keys
      /\ r.value \in Values /\ r.rownum \in Nat /\ r.rel = content.rel
  BY <1>1, CallParts DEF Aimed
<1>3. /\ Len(old) \in Nat /\ DOMAIN old = 1 .. Len(old)
      /\ \A i \in 1 .. Len(old) : old[i].key \in Keys /\ old[i].value \in Values
  BY TableParts
<1>4. LiveOf(old) = {i \in 1 .. Len(old) : old[i].mark # "struck"}
  BY <1>3 DEF LiveOf
<1>5. /\ \A i \in LiveOf(old) : was[old[i].key] = old[i].value
      /\ \A k \in Keys : was[k] # NoValue => \E i \in LiveOf(old) : old[i].key = k
      /\ \A i, j \in LiveOf(old) : old[i].key = old[j].key => i = j
  BY DEF Holds
<1>6. CASE r.op = "insert"
  <2>1. /\ Patched(c) \in Table /\ Len(new) = Len(old) + 1
        /\ new[Len(old) + 1].key = r.newkey /\ new[Len(old) + 1].value = r.value
        /\ new[Len(old) + 1].mark = "added"
        /\ \A i \in 1 .. Len(old) : new[i] = old[i]
    BY <1>2, <1>6, InsertPatch
  <2>2. DOMAIN new = 1 .. Len(old) + 1
    BY <2>1, TableParts
  <2>3. /\ was[r.newkey] = NoValue /\ now[r.newkey] = r.value
        /\ \A k \in Keys \ {r.newkey} : now[k] = was[k]
    BY <1>2, <1>6, RowChanged
  <2> HIDE DEF old, new, was, now, r
  <2>4. LiveOf(new) = LiveOf(old) \cup {Len(old) + 1}
    BY <1>3, <1>4, <2>1, <2>2 DEF LiveOf
  <2>5. \A i \in LiveOf(old) : /\ new[i] = old[i] /\ i # Len(old) + 1
                               /\ old[i].key \in Keys \ {r.newkey}
    BY <1>3, <1>4, <1>5, <2>1, <2>3, SentinelsAssumption
  <2>6. \A i \in LiveOf(new) : now[new[i].key] = new[i].value
    BY <1>5, <2>1, <2>3, <2>4, <2>5
  <2>7. \A k \in Keys : now[k] # NoValue => \E i \in LiveOf(new) : new[i].key = k
    BY <1>5, <2>1, <2>3, <2>4, <2>5
  <2>8. \A i, j \in LiveOf(new) : new[i].key = new[j].key => i = j
    BY <1>5, <2>1, <2>4, <2>5
  <2> QED
    BY <2>6, <2>7, <2>8 DEF Holds, new, now
<1>7. CASE r.op = "update"
  <2>1. n \in 1 .. Len(old) /\ old[n].key = r.key /\ old[n].mark # "struck" /\ r.newkey = r.key
    BY <1>7 DEF Aimed, HasLine, KeyAt
  <2>2. /\ Patched(c) \in Table /\ Len(new) = Len(old)
        /\ \A i \in 1 .. Len(old) : i # n => new[i] = old[i]
        /\ new[n].key = r.key /\ new[n].value = r.value /\ new[n].mark = old[n].mark
    BY <1>2, <1>7, <2>1, LinePatch
  <2>3. DOMAIN new = 1 .. Len(old)
    BY <2>2, TableParts
  <2>4. now[r.key] = r.value /\ \A k \in Keys \ {r.key} : now[k] = was[k]
    BY <1>2, <1>7, <2>1, RowChanged
  <2> HIDE DEF old, new, was, now, r, n
  <2>5. LiveOf(new) = LiveOf(old) /\ n \in LiveOf(old)
    BY <1>3, <1>4, <2>1, <2>2, <2>3 DEF LiveOf
  <2>6. \A i \in LiveOf(old) : /\ new[i].key = old[i].key /\ old[i].key \in Keys
                               /\ i # n => new[i].value = old[i].value
                               /\ i # n => old[i].key # r.key
    BY <1>3, <1>4, <1>5, <2>1, <2>2, <2>5
  <2>7. \A i \in LiveOf(new) : now[new[i].key] = new[i].value
    BY <1>5, <2>2, <2>4, <2>5, <2>6
  <2>8. \A k \in Keys : now[k] # NoValue => \E i \in LiveOf(new) : new[i].key = k
    BY <1>5, <2>1, <2>4, <2>5, <2>6
  <2>9. \A i, j \in LiveOf(new) : new[i].key = new[j].key => i = j
    BY <1>5, <2>5, <2>6
  <2> QED
    BY <2>7, <2>8, <2>9 DEF Holds, new, now
<1>8. CASE r.op = "delete"
  <2>1. n \in 1 .. Len(old) /\ old[n].key = r.key /\ old[n].mark # "struck"
    BY <1>8 DEF Aimed, HasLine, KeyAt
  <2>2. /\ Patched(c) \in Table /\ Len(new) = Len(old)
        /\ \A i \in 1 .. Len(old) : i # n => new[i] = old[i]
        /\ new[n].mark = "struck"
    BY <1>2, <1>8, <2>1, LinePatch
  <2>3. DOMAIN new = 1 .. Len(old)
    BY <2>2, TableParts
  <2>4. now[r.key] = NoValue /\ \A k \in Keys \ {r.key} : now[k] = was[k]
    BY <1>2, <1>8, RowChanged
  <2> HIDE DEF old, new, was, now, r, n
  <2>5. LiveOf(new) = LiveOf(old) \ {n} /\ n \in LiveOf(old)
    BY <1>3, <1>4, <2>1, <2>2, <2>3 DEF LiveOf
  <2>6. \A i \in LiveOf(new) : /\ new[i] = old[i] /\ i \in LiveOf(old)
                               /\ old[i].key \in Keys \ {r.key}
    BY <1>3, <1>4, <1>5, <2>1, <2>2, <2>5
  <2>7. \A i \in LiveOf(new) : now[new[i].key] = new[i].value
    BY <1>5, <2>4, <2>6
  <2>8. \A k \in Keys : now[k] # NoValue => \E i \in LiveOf(new) : new[i].key = k
    <3>1. SUFFICES ASSUME NEW k \in Keys, now[k] # NoValue
                   PROVE  \E i \in LiveOf(new) : new[i].key = k
      OBVIOUS
    <3>2. k # r.key /\ was[k] # NoValue
      BY <2>4, <3>1
    <3>3. PICK i \in LiveOf(old) : old[i].key = k
      BY <1>5, <3>2
    <3> QED
      BY <2>1, <2>5, <2>6, <3>2, <3>3
  <2>9. \A i, j \in LiveOf(new) : new[i].key = new[j].key => i = j
    BY <1>5, <2>6
  <2> QED
    BY <2>7, <2>8, <2>9 DEF Holds, new, now
<1> QED
  BY <1>1, <1>6, <1>7, <1>8

(* --------------------------- the clicks of the user --------------------- *)

(* Clicks that send nothing. *)
LEMMA DialogStep ==
    ASSUME IInv, UNCHANGED <<stored, content, dimmed, call, sent, sure>>,
           selected' \in Relations, order' \in Orders, dialog' \in Dialog \cup {Closed},
           content = NoTable => dialog' = Closed
    PROVE  IInv'
<1>1. TypeOK'
  BY DEF IInv, TypeOK
<1>2. InFlight' = InFlight /\ Writes' = Writes /\ Inserts' = Inserts
  BY DEF InFlight, Writes, Inserts
<1>3. Untouched' /\ CleanAlone' /\ Lengths' /\ DimmedMeansRunning'
  BY <1>2 DEF IInv, Untouched, CleanAlone, Lengths, DimmedMeansRunning
<1>4. Answers'
  BY <1>2 DEF IInv, Answers, Read, Reading, InOrder, Holds, LiveOf, Before
<1>5. Agrees'
  <2>1. \A c : Patched(c)' = Patched(c)
    BY DEF Patched
  <2>2. \A c : Aimed(call[c])' <=> Aimed(call[c])
    BY DEF Aimed, HasLine, KeyAt
  <2> QED
    BY <1>2, <2>1, <2>2 DEF IInv, Agrees, InOrder, Holds, LiveOf, Before
<1> QED
  BY <1>1, <1>3, <1>4, <1>5 DEF IInv

(* A run is sent. *)
LEMMA RunStep ==
    ASSUME IInv, NEW c \in Calls, NEW op \in {"run", "sort"}, NEW ord \in Orders,
           DoRun(c, op, ord), order' \in Orders,
           UNCHANGED <<stored, selected, content, dialog, sure>>
    PROVE  IInv'
<1> USE DEF IInv
<1>1. /\ call' \in [Calls -> Call \cup {NoCall}]
      /\ c \notin InFlight /\ InFlight' = InFlight \cup {c}
      /\ Writes' = Writes /\ Inserts' = Inserts
      /\ \A d \in InFlight : call'[d] = call[d]
      /\ call'[c].served = FALSE /\ call'[c].op = op
      /\ call'[c].clean <=> Writes = {}
  BY RunSent
<1>2. /\ sent \in Nat /\ sent' = sent + 1 /\ sent' \in 0 .. MaxCalls
      /\ dimmed' = (content # NoTable)
  BY MaxCallsAssumption DEF DoRun, MaySend, TypeOK
<1>3. TypeOK'
  <2>1. content' = NoTable \/ (content' \in Table /\ Len(content'.lines) <= Cardinality(Keys) + sent')
    BY <1>2, KeysCount, TableParts DEF TypeOK
  <2> QED
    BY <1>1, <1>2, <2>1 DEF TypeOK
<1>4. Untouched' /\ CleanAlone' /\ DimmedMeansRunning'
  BY <1>1 DEF Untouched, CleanAlone, DimmedMeansRunning, Writes
<1>5. Lengths'
  <2>1. Cardinality(Inserts) \in Nat
    BY FS_CardinalityType DEF Lengths
  <2>2. content # NoTable => Len(content.lines) \in Nat
    BY TableParts DEF TypeOK
  <2> QED
    BY <1>1, <1>2, <2>1, <2>2, KeysCount DEF Lengths
<1>6. Answers'
  BY <1>1 DEF Answers, Read, Reading, InOrder, Holds, LiveOf, Before
<1>7. Agrees'
  <2>1. ASSUME NEW d \in Writes
        PROVE  /\ Patched(d)' = Patched(d) /\ Aimed(call[d])' <=> Aimed(call[d])
               /\ call'[d].served = call[d].served
    <3>1. call'[d] = call[d]
      BY <1>1 DEF Writes
    <3> QED
      BY <3>1 DEF Patched, Aimed, HasLine, KeyAt
  <2> QED
    BY <1>1, <2>1 DEF Agrees, InOrder, Holds, LiveOf, Before
<1> QED
  BY <1>3, <1>4, <1>5, <1>6, <1>7

(* A write is sent.  It leaves the history sure only if it is alone and for *)
(* the line shown.                                                          *)
LEMMA WriteStep ==
    ASSUME IInv, NEW c \in Calls, NEW request \in Call,
           request.op \in {"insert", "update", "delete"}, request.served = FALSE,
           request.clean = FALSE, DoWrite(c, request), content # NoTable,
           dialog' \in {dialog, Closed}, sure' \in BOOLEAN,
           sure' => sure /\ InFlight = {} /\ Aimed(request),
           UNCHANGED <<stored, selected, order, content, dimmed>>
    PROVE  IInv'
<1> USE DEF IInv
<1>1. /\ call' \in [Calls -> Call \cup {NoCall}]
      /\ c \notin InFlight /\ InFlight' = InFlight \cup {c}
      /\ Writes' = Writes \cup {c}
      /\ Inserts' = IF request.op = "insert" THEN Inserts \cup {c} ELSE Inserts
      /\ call'[c] = request
      /\ \A d \in InFlight :
           /\ call'[d].op = call[d].op /\ call'[d].served = call[d].served
           /\ call'[d].order = call[d].order /\ call'[d].answer = call[d].answer
           /\ call'[d].clean = FALSE
  BY WriteSent
<1>2. sent \in Nat /\ sent' = sent + 1 /\ sent' \in 0 .. MaxCalls
  BY MaxCallsAssumption DEF DoWrite, MaySend, TypeOK
<1>3. content \in Table /\ Len(content.lines) \in Nat
  BY TableParts DEF TypeOK
<1>4. TypeOK'
  <2>1. Len(content.lines) <= Cardinality(Keys) + sent'
    BY <1>2, <1>3, KeysCount DEF TypeOK
  <2> QED
    BY <1>1, <1>2, <1>3, <2>1 DEF TypeOK
<1>5. Untouched' /\ CleanAlone'
  BY <1>1 DEF Untouched, CleanAlone
<1>6. Lengths'
  <2>1. IsFiniteSet(Inserts) /\ Cardinality(Inserts) \in Nat
    BY FS_CardinalityType DEF Lengths
  <2>2. IsFiniteSet(Inserts') /\ Cardinality(Inserts') <= Cardinality(Inserts) + 1
    <3>1. IsFiniteSet(Inserts \cup {c}) /\ Cardinality(Inserts \cup {c}) <= Cardinality(Inserts) + 1
      <4>1. /\ IsFiniteSet(Inserts \cup {c})
            /\ Cardinality(Inserts \cup {c})
                 = IF c \in Inserts THEN Cardinality(Inserts) ELSE Cardinality(Inserts) + 1
        BY <2>1, FS_AddElement
      <4> QED
        BY <2>1, <4>1
    <3>2. Cardinality(Inserts) <= Cardinality(Inserts) + 1
      BY <2>1
    <3>3. Inserts' = Inserts \cup {c} \/ Inserts' = Inserts
      BY <1>1
    <3> QED
      BY <2>1, <3>1, <3>2, <3>3
  <2>3. Cardinality(Inserts') \in Nat
    BY <2>2, FS_CardinalityType
  <2> QED
    BY <1>2, <1>3, <2>1, <2>2, <2>3, KeysCount DEF Lengths
<1>7. Answers'
  BY <1>1 DEF Answers, Read, Reading, InOrder, Before
<1>8. DimmedMeansRunning'
  BY <1>1 DEF DimmedMeansRunning, Writes
<1>9. Agrees'
  <2>1. SUFFICES ASSUME sure'
                 PROVE  /\ InOrder(content.lines, content.marks)
                        /\ Writes' = {c} /\ Aimed(request)
                        /\ Holds(content.lines, stored[content.rel])
    <3>1. Aimed(call[c])' <=> Aimed(request)
      BY <1>1 DEF Aimed, HasLine, KeyAt
    <3> QED
      BY <1>1, <2>1, <3>1 DEF Agrees, InOrder, Holds, LiveOf, Before
  <2>2. Writes = {} /\ Writes' = {c}
    BY <1>1, <2>1 DEF Writes
  <2> QED
    BY <2>1, <2>2 DEF Agrees
<1> QED
  BY <1>4, <1>5, <1>6, <1>7, <1>8, <1>9

(* ------------------------- the server and the answers ------------------- *)

(* A run reads the database. *)
LEMMA ReadStep ==
    ASSUME IInv, NEW c \in InFlight, ~call[c].served, Reads(c),
           UNCHANGED <<page, sent, sure>>
    PROVE  IInv'
<1> USE DEF IInv
<1> DEFINE r == call[c]
<1>1. /\ r.rel \in Relations /\ r.order \in Orders /\ c \in Calls
      /\ r.op \in {"run", "sort"} /\ stored' = stored
  BY CallParts DEF Reads
<1>2. PICK keys \in Listings(Present(r.rel), r.order) :
         call' = [call EXCEPT ![c].served = TRUE, ![c].answer = Rows(r.rel, keys)]
  BY DEF Reads
<1> DEFINE lines == Rows(r.rel, keys)
<1>3. /\ lines \in Seq(Line) /\ Len(lines) <= Cardinality(Keys)
      /\ InOrder(lines, r.order) /\ Holds(lines, stored[r.rel])
  BY <1>1, RowsListed
<1> HIDE DEF lines
<1>4. /\ call' \in [Calls -> Call \cup {NoCall}]
      /\ InFlight' = InFlight /\ Writes' = Writes /\ Inserts' = Inserts
      /\ \A d \in InFlight \ {c} : call'[d] = call[d]
      /\ call'[c].op = r.op /\ call'[c].rel = r.rel
      /\ call'[c].order = r.order /\ call'[c].clean = r.clean
      /\ call'[c].answer = lines
  BY <1>2, <1>3, CallServed DEF lines
<1>5. c \notin Writes
  BY <1>1 DEF Writes
<1>6. TypeOK'
  BY <1>1, <1>4 DEF TypeOK, page
<1>7. Untouched' /\ CleanAlone' /\ Lengths' /\ DimmedMeansRunning'
  BY <1>1, <1>4 DEF Untouched, CleanAlone, Lengths, DimmedMeansRunning, page
<1>8. Answers'
  <2>1. ASSUME NEW d \in InFlight, Reading(call'[d]), call'[d].served
        PROVE  /\ Len(call'[d].answer) <= Cardinality(Keys)
               /\ InOrder(call'[d].answer, call'[d].order)
               /\ call'[d].clean => Holds(call'[d].answer, stored[call'[d].rel])
    <3>1. CASE d = c
      BY <1>3, <1>4, <3>1 DEF InOrder, Before, Holds, LiveOf
    <3>2. CASE d # c
      BY <1>4, <2>1, <3>2 DEF Answers, Read, Reading
    <3> QED
      BY <3>1, <3>2
  <2> QED
    BY <1>1, <1>4, <2>1 DEF Answers, Read, Reading, InOrder, Before, Holds, LiveOf
<1>9. Agrees'
  <2>1. ASSUME NEW d \in Writes
        PROVE  /\ Patched(d)' = Patched(d) /\ Aimed(call[d])' <=> Aimed(call[d])
               /\ call'[d].served = call[d].served
    <3>1. call'[d] = call[d]
      BY <1>4, <1>5 DEF Writes
    <3> QED
      BY <3>1 DEF Patched, Aimed, HasLine, KeyAt, page
  <2> QED
    BY <1>1, <1>4, <2>1 DEF Agrees, InOrder, Holds, LiveOf, Before, page
<1> QED
  BY <1>6, <1>7, <1>8, <1>9

LEMMA ChangeServed ==
    ASSUME TypeOK, NEW c \in InFlight, Changes(c)
    PROVE  call' = [call EXCEPT ![c].served = TRUE, ![c].answer = call[c].answer]
<1> DEFINE old == call[c]
<1>1. call' = [call EXCEPT ![c].served = TRUE]
  BY DEF Changes
<1>2. old \in Call /\ c \in Calls
  BY CallParts
<1>3. [old EXCEPT !.served = TRUE] = [old EXCEPT !.served = TRUE, !.answer = old.answer]
  <2> HIDE DEF old
  <2> QED
    BY <1>2 DEF Call
<1> QED
  BY <1>1, <1>2, <1>3 DEF TypeOK

(* A write changes the database: no clean run is in flight, and while the   *)
(* history is sure the patch to come does the same to the table.            *)
LEMMA ChangeStep ==
    ASSUME IInv, NEW c \in InFlight, ~call[c].served, Changes(c),
           UNCHANGED <<page, sent, sure>>
    PROVE  IInv'
<1> USE DEF IInv
<1> DEFINE r == call[c]
<1>1. c \in Writes
  BY DEF Writes, Changes
<1>2. r \in Call /\ c \in Calls /\ r.answer \in Seq(Line)
  BY CallParts
<1>3. call' = [call EXCEPT ![c].served = TRUE, ![c].answer = r.answer]
  BY ChangeServed
<1>4. /\ call' \in [Calls -> Call \cup {NoCall}]
      /\ InFlight' = InFlight /\ Writes' = Writes /\ Inserts' = Inserts
      /\ \A d \in InFlight \ {c} : call'[d] = call[d]
      /\ call'[c].op = r.op /\ call'[c].rel = r.rel /\ call'[c].order = r.order
      /\ call'[c].key = r.key /\ call'[c].newkey = r.newkey /\ call'[c].value = r.value
      /\ call'[c].rownum = r.rownum /\ call'[c].clean = r.clean
      /\ call'[c].served = TRUE
  BY <1>2, <1>3, CallServed
<1>5. stored' \in [Relations -> [Keys -> Values \cup {NoValue}]]
  BY <1>1, RowChanged
<1>6. TypeOK'
  BY <1>4, <1>5 DEF TypeOK, page
<1>7. \A d \in InFlight : call'[d].clean = call[d].clean /\ call'[d].op = call[d].op
  BY <1>4
<1>8. Untouched' /\ CleanAlone' /\ Lengths' /\ DimmedMeansRunning'
  BY <1>4, <1>7 DEF Untouched, CleanAlone, Lengths, DimmedMeansRunning, page
<1>9. Answers'
  <2>1. \A d \in InFlight : ~call[d].clean
    BY <1>1 DEF CleanAlone
  <2>2. \A d \in InFlight : Reading(call[d]) => d # c
    BY <1>1 DEF Writes, Reading
  <2> QED
    BY <1>4, <1>7, <2>1, <2>2 DEF Answers, Read, Reading, InOrder, Before
<1>10. Agrees'
  <2>1. SUFFICES ASSUME content # NoTable, sure
                 PROVE  /\ InOrder(content.lines, content.marks)
                        /\ Writes = {c} /\ Aimed(r)
                        /\ Holds(Patched(c).lines, stored'[content.rel])
    <3>1. Patched(c)' = Patched(c)
      <4> DEFINE lines(q) ==
                   [i \in DOMAIN content.lines |->
                      IF i # q.rownum THEN content.lines[i]
                      ELSE IF q.op = "delete"
                           THEN [content.lines[i] EXCEPT !.mark = "struck"]
                           ELSE [content.lines[i] EXCEPT !.key = q.newkey, !.value = q.value]]
      <4>1. lines(call'[c]) = lines(r)
        BY <1>4
      <4>2. content' = content
        BY DEF page
      <4> QED
        BY <1>4, <4>1, <4>2 DEF Patched
    <3>2. Aimed(call[c])' <=> Aimed(r)
      BY <1>4 DEF Aimed, HasLine, KeyAt, page
    <3> QED
      BY <1>4, <2>1, <3>1, <3>2 DEF Agrees, InOrder, Holds, LiveOf, Before, page
  <2>2. /\ InOrder(content.lines, content.marks)
        /\ Writes = {c} /\ Aimed(r) /\ Holds(content.lines, stored[content.rel])
    BY <1>1, <2>1 DEF Agrees
  <2>3. content \in Table
    BY <2>1 DEF TypeOK
  <2> QED
    BY <1>1, <2>2, <2>3, PatchHolds
<1> QED
  BY <1>6, <1>8, <1>9, <1>10

(* The rows of a run replace the table. *)
LEMMA ShowRowsStep ==
    ASSUME IInv, NEW c \in InFlight, call[c].served, ShowRows(c), Done(c),
           UNCHANGED <<stored, selected, order, dialog, sent>>
    PROVE  IInv'
<1> USE DEF IInv
<1> DEFINE r == call[c]
<1>1. /\ r.rel \in Relations /\ r.order \in Orders /\ r.answer \in Seq(Line)
      /\ r.clean \in BOOLEAN
  BY CallParts
<1>2. /\ r.op \in {"run", "sort"} /\ dimmed' = FALSE /\ sure' = r.clean
      /\ content' = [rel |-> r.rel, marks |-> r.order, lines |-> r.answer]
  BY DEF ShowRows, Marks
<1> HIDE DEF r
<1>3. /\ content' \in Table /\ content' # NoTable /\ content'.rel = r.rel
      /\ content'.marks = r.order /\ content'.lines = r.answer
  BY <1>1, <1>2, SentinelsAssumption DEF Table
<1>4. /\ call' \in [Calls -> Call \cup {NoCall}]
      /\ InFlight' = InFlight \ {c} /\ Writes' = Writes \ {c}
      /\ Inserts' = Inserts \ {c}
      /\ \A d \in InFlight \ {c} : call'[d] = call[d]
  BY CallDone
<1>5. Writes' = Writes /\ Inserts' = Inserts
  BY <1>2, <1>4 DEF Writes, Inserts, r
<1>6. /\ Len(r.answer) <= Cardinality(Keys)
      /\ InOrder(r.answer, r.order)
      /\ r.clean => Holds(r.answer, stored[r.rel])
  BY <1>2 DEF Answers, Reading, Read, r
<1>7. Len(r.answer) \in Nat /\ sent \in Nat
  BY <1>1, LenProperties, MaxCallsAssumption DEF TypeOK
<1>8. TypeOK'
  <2>1. Len(r.answer) <= Cardinality(Keys) + sent
    BY <1>6, <1>7, KeysCount
  <2> QED
    BY <1>1, <1>2, <1>3, <1>4, <2>1 DEF TypeOK
<1>9. Untouched' /\ CleanAlone' /\ DimmedMeansRunning'
  BY <1>2, <1>3, <1>4, <1>5 DEF Untouched, CleanAlone, DimmedMeansRunning
<1>10. Lengths'
  <2>1. Cardinality(Inserts) \in Nat
    BY FS_CardinalityType DEF Lengths
  <2>2. Len(r.answer) + Cardinality(Inserts) <= Cardinality(Keys) + sent
    BY <1>6, <1>7, <2>1, KeysCount DEF Lengths
  <2> QED
    BY <1>3, <1>5, <2>2 DEF Lengths
<1>11. Answers'
  BY <1>4 DEF Answers, Read, Reading, InOrder, Holds, LiveOf, Before
<1>12. Agrees'
  <2>1. r.clean => Writes = {}
    BY DEF CleanAlone, r
  <2> QED
    BY <1>2, <1>3, <1>5, <1>6, <2>1 DEF Agrees, InOrder, Holds, LiveOf, Before
<1> QED
  BY <1>8, <1>9, <1>10, <1>11, <1>12

(* The answer of a write patches the table. *)
LEMMA ShowChangeStep ==
    ASSUME IInv, NEW c \in InFlight, call[c].served, ShowChange(c), Done(c),
           UNCHANGED <<stored, selected, order, dialog, sent>>
    PROVE  IInv'
<1> USE DEF IInv
<1> DEFINE r == call[c]
<1>1. /\ r.op \in {"insert", "update", "delete"} /\ r.newkey \in Keys
      /\ r.value \in Values /\ r.rownum \in Nat
      /\ content' = Patched(c) /\ UNCHANGED <<dimmed, sure>>
  BY CallParts DEF ShowChange
<1>2. c \in Writes
  BY <1>1 DEF Writes
<1>3. content # NoTable /\ content \in Table /\ Len(content.lines) \in Nat
  BY <1>2, TableParts DEF Untouched, TypeOK
<1>4. /\ Patched(c) \in Table /\ Patched(c).rel = content.rel
      /\ Patched(c).marks = content.marks
      /\ Len(Patched(c).lines)
           = IF r.op = "insert" THEN Len(content.lines) + 1 ELSE Len(content.lines)
  <2>1. CASE r.op = "insert"
    BY <1>1, <1>3, <2>1, InsertPatch
  <2>2. CASE r.op \in {"update", "delete"}
    BY <1>1, <1>3, <2>2, LinePatch
  <2> QED
    BY <1>1, <2>1, <2>2
<1>5. /\ call' \in [Calls -> Call \cup {NoCall}]
      /\ InFlight' = InFlight \ {c} /\ Writes' = Writes \ {c}
      /\ Inserts' = Inserts \ {c}
      /\ \A d \in InFlight \ {c} : call'[d] = call[d]
  BY CallDone
<1>6. sent \in Nat /\ Patched(c) # NoTable
  BY <1>4, MaxCallsAssumption, SentinelsAssumption DEF TypeOK
<1>7. /\ IsFiniteSet(Inserts') /\ Cardinality(Inserts) \in Nat
      /\ Cardinality(Inserts')
           = IF r.op = "insert" THEN Cardinality(Inserts) - 1 ELSE Cardinality(Inserts)
  <2>1. c \in Inserts <=> r.op = "insert"
    BY DEF Inserts
  <2>2. IsFiniteSet(Inserts)
    BY DEF Lengths
  <2> QED
    BY <1>5, <2>1, <2>2, FS_CardinalityType, FS_RemoveElement
<1>8. Len(content.lines) + Cardinality(Inserts) <= Cardinality(Keys) + sent
  BY <1>3 DEF Lengths
<1>9. Cardinality(Inserts') \in Nat
  BY <1>7, FS_CardinalityType
<1>10. Lengths'
  <2>1. Cardinality(Inserts') <= sent
    BY <1>6, <1>7 DEF Lengths
  <2>2. Len(Patched(c).lines) + Cardinality(Inserts') <= Cardinality(Keys) + sent
    BY <1>3, <1>4, <1>7, <1>8
  <2> QED
    BY <1>1, <1>7, <2>1, <2>2 DEF Lengths
<1>11. TypeOK'
  <2>1. Len(Patched(c).lines) \in Nat
    BY <1>3, <1>4
  <2>2. Len(Patched(c).lines) <= Cardinality(Keys) + sent
    BY <1>1, <1>6, <1>9, <1>10, <2>1, KeysCount DEF Lengths
  <2> QED
    BY <1>1, <1>4, <1>5, <2>2 DEF TypeOK
<1>12. Untouched' /\ CleanAlone'
  BY <1>1, <1>5, <1>6 DEF Untouched, CleanAlone
<1>13. DimmedMeansRunning'
  BY <1>1, <1>2, <1>5 DEF DimmedMeansRunning, Writes
<1>14. Answers'
  BY <1>5 DEF Answers, Read, Reading, InOrder, Holds, LiveOf, Before
<1>15. Agrees'
  <2>1. SUFFICES ASSUME sure
                 PROVE  /\ InOrder(Patched(c).lines, content.marks)
                        /\ Writes' = {}
                        /\ Holds(Patched(c).lines, stored[content.rel])
    BY <1>1, <1>4, <2>1 DEF Agrees, InOrder, Holds, LiveOf, Before
  <2>2. /\ InOrder(content.lines, content.marks) /\ Writes = {c} /\ Aimed(r)
        /\ Holds(Patched(c).lines, stored[content.rel])
    BY <1>2, <1>3, <2>1 DEF Agrees
  <2> QED
    BY <1>1, <1>3, <1>5, <2>2, PatchInOrder
<1> QED
  BY <1>10, <1>11, <1>12, <1>13, <1>14, <1>15

(* A call fails: a write that was served leaves the table behind, and the   *)
(* history is not sure any more.                                            *)
LEMMA FailStep ==
    ASSUME IInv, NEW c \in InFlight, Fail(c)
    PROVE  IInv'
<1> USE DEF IInv
<1>1. /\ dimmed' = (dimmed /\ call[c].op \notin {"run", "sort"})
      /\ order' = (IF call[c].op = "sort" THEN "none" ELSE order)
      /\ sure' = (sure /\ ~(c \in Writes /\ call[c].served))
      /\ Done(c) /\ UNCHANGED <<stored, selected, content, dialog, sent>>
  BY DEF Fail, Undimmed
<1>2. /\ call' \in [Calls -> Call \cup {NoCall}]
      /\ InFlight' = InFlight \ {c} /\ Writes' = Writes \ {c}
      /\ Inserts' = Inserts \ {c}
      /\ \A d \in InFlight \ {c} : call'[d] = call[d]
  BY <1>1, CallDone
<1>3. order' \in Orders
  BY <1>1 DEF TypeOK, Orders
<1>4. dimmed' \in BOOLEAN /\ sure' \in BOOLEAN
  BY <1>1
<1>5. TypeOK'
  BY <1>1, <1>2, <1>3, <1>4 DEF TypeOK
<1>6. Untouched' /\ CleanAlone'
  BY <1>1, <1>2 DEF Untouched, CleanAlone
<1>7. DimmedMeansRunning'
  BY <1>1, <1>2 DEF DimmedMeansRunning, Writes
<1>8. Lengths'
  <2>1. /\ IsFiniteSet(Inserts') /\ Cardinality(Inserts') <= Cardinality(Inserts)
        /\ Cardinality(Inserts) \in Nat /\ Cardinality(Inserts') \in Nat
    BY <1>2, FS_CardinalityType, FS_Subset DEF Lengths
  <2>2. content # NoTable => Len(content.lines) \in Nat
    BY TableParts DEF TypeOK
  <2>3. sent \in Nat
    BY MaxCallsAssumption DEF TypeOK
  <2> QED
    BY <1>1, <2>1, <2>2, <2>3, KeysCount DEF Lengths
<1>9. Answers'
  BY <1>1, <1>2 DEF Answers, Read, Reading, InOrder, Holds, LiveOf, Before
<1>10. Agrees'
  <2>1. ASSUME NEW d \in Writes \ {c}
        PROVE  /\ Patched(d)' = Patched(d) /\ Aimed(call[d])' <=> Aimed(call[d])
               /\ call'[d].served = call[d].served
    <3>1. call'[d] = call[d]
      BY <1>2, <2>1 DEF Writes
    <3> QED
      BY <1>1, <3>1 DEF Patched, Aimed, HasLine, KeyAt
  <2>2. CASE c \in Writes
    <3>1. ASSUME content # NoTable, sure'
          PROVE  /\ Writes' = {} /\ InOrder(content.lines, content.marks)
                 /\ Holds(content.lines, stored[content.rel])
      BY <1>1, <1>2, <2>2, <3>1 DEF Agrees
    <3> QED
      BY <1>1, <3>1 DEF Agrees, InOrder, Holds, LiveOf, Before
  <2>3. CASE c \notin Writes
    <3>1. Writes' = Writes /\ Writes \ {c} = Writes
      BY <1>2, <2>3
    <3>2. sure' = sure
      BY <1>1, <2>3 DEF TypeOK
    <3> QED
      BY <1>1, <2>1, <3>1, <3>2 DEF Agrees, InOrder, Holds, LiveOf, Before
  <2> QED
    BY <2>2, <2>3
<1> QED
  BY <1>5, <1>6, <1>7, <1>8, <1>9, <1>10

(* ------------------------------- the steps ------------------------------ *)

(* What the buttons that write send; a write is aimed if the relation       *)
(* selected, and the dialog's line, are still the ones shown.               *)
LEMMA UpdateSent ==
    ASSUME IInv, NEW c \in Calls, NEW v \in Values, NEW closes \in BOOLEAN,
           ConfirmUpdate(c, v, closes)
    PROVE  /\ content # NoTable
           /\ \E request \in Call :
                /\ request.op = "update" /\ ~request.served /\ ~request.clean
                /\ DoWrite(c, request)
                /\ /\ selected = content.rel /\ KeyAt(dialog.rownum) = dialog.key
                   /\ content.lines[dialog.rownum].mark # "struck"
                   => Aimed(request)
<1> DEFINE key == KeyAt(dialog.rownum)
           request == [Blank EXCEPT !.op = "update", !.key = key, !.newkey = dialog.key,
                                    !.value = v, !.rownum = dialog.rownum]
<1>1. dialog # Closed /\ HasLine(dialog.rownum) /\ DoWrite(c, request)
  BY DEF ConfirmUpdate
<1>2. dialog.rownum \in Nat /\ dialog.key \in Keys
  BY <1>1 DEF IInv, TypeOK, Dialog
<1>3. content # NoTable /\ key \in Keys
  BY <1>1, TableParts DEF HasLine, KeyAt, IInv, TypeOK
<1>4. Blank \in Call /\ Blank.rel = selected /\ Blank.served = FALSE /\ Blank.clean = FALSE
  BY BlankParts DEF IInv
<1> HIDE DEF key
<1>5. request \in Call
  BY <1>2, <1>3, <1>4 DEF Call
<1>6. /\ request.op = "update" /\ request.rel = selected /\ request.key = key
      /\ request.newkey = dialog.key /\ request.rownum = dialog.rownum
      /\ request.served = FALSE /\ request.clean = FALSE
  BY <1>4 DEF Call
<1> HIDE DEF request
<1>7. /\ selected = content.rel /\ key = dialog.key
      /\ content.lines[dialog.rownum].mark # "struck"
      => Aimed(request)
  BY <1>1, <1>6 DEF Aimed, key
<1> QED
  BY <1>1, <1>3, <1>5, <1>6, <1>7 DEF key

LEMMA InsertSent ==
    ASSUME IInv, NEW c \in Calls, NEW k \in Keys, NEW v \in Values, NEW closes \in BOOLEAN,
           ConfirmInsert(c, k, v, closes)
    PROVE  /\ content # NoTable
           /\ \E request \in Call :
                /\ request.op = "insert" /\ ~request.served /\ ~request.clean
                /\ DoWrite(c, request)
                /\ selected = content.rel => Aimed(request)
<1> DEFINE request == [Blank EXCEPT !.op = "insert", !.newkey = k, !.value = v]
<1>1. dialog # Closed /\ DoWrite(c, request)
  BY DEF ConfirmInsert
<1>2. content # NoTable
  BY <1>1 DEF IInv, Untouched
<1>3. Blank \in Call /\ Blank.rel = selected /\ Blank.served = FALSE /\ Blank.clean = FALSE
  BY BlankParts DEF IInv
<1>4. request \in Call
  BY <1>3 DEF Call
<1>5. /\ request.op = "insert" /\ request.rel = selected
      /\ request.served = FALSE /\ request.clean = FALSE
  BY <1>3 DEF Call
<1> HIDE DEF request
<1>6. selected = content.rel => Aimed(request)
  BY <1>5 DEF Aimed
<1> QED
  BY <1>1, <1>2, <1>4, <1>5, <1>6

LEMMA DeleteSent ==
    ASSUME IInv, NEW c \in Calls, NEW i \in 1 .. Cardinality(Keys), Delete(c, i)
    PROVE  /\ content # NoTable
           /\ \E request \in Call :
                /\ request.op = "delete" /\ ~request.served /\ ~request.clean
                /\ DoWrite(c, request)
                /\ selected = content.rel => Aimed(request)
<1> DEFINE key == KeyAt(i)
           request == [Blank EXCEPT !.op = "delete", !.key = key, !.rownum = i]
<1>1. HasLine(i) /\ content.lines[i].mark = "plain" /\ DoWrite(c, request)
  BY DEF Delete
<1>2. content # NoTable /\ key \in Keys /\ i \in Nat
  BY <1>1, KeysCount, TableParts DEF HasLine, KeyAt, IInv, TypeOK
<1>3. Blank \in Call /\ Blank.rel = selected /\ Blank.served = FALSE /\ Blank.clean = FALSE
  BY BlankParts DEF IInv
<1> HIDE DEF key
<1>4. request \in Call
  BY <1>2, <1>3 DEF Call
<1>5. /\ request.op = "delete" /\ request.rel = selected /\ request.key = key
      /\ request.rownum = i /\ request.served = FALSE /\ request.clean = FALSE
  BY <1>3 DEF Call
<1> HIDE DEF request
<1>6. selected = content.rel => Aimed(request)
  BY <1>1, <1>5 DEF Aimed, key
<1> QED
  BY <1>1, <1>2, <1>4, <1>5, <1>6

LEMMA UpdateStep ==
    ASSUME IInv, NEW c \in Calls, NEW v \in Values, NEW closes \in BOOLEAN,
           ConfirmUpdate(c, v, closes)
    PROVE  IInv'
<1> DEFINE aimed == /\ selected = content.rel /\ KeyAt(dialog.rownum) = dialog.key
                    /\ content.lines[dialog.rownum].mark # "struck"
<1>1. PICK request \in Call :
        /\ request.op = "update" /\ ~request.served /\ ~request.clean
        /\ DoWrite(c, request) /\ (aimed => Aimed(request))
  BY UpdateSent
<1>2. /\ sure' = (sure /\ InFlight = {} /\ aimed)
      /\ dialog' = (IF closes THEN Closed ELSE dialog)
      /\ UNCHANGED <<stored, selected, order, content, dimmed>>
  BY DEF ConfirmUpdate
<1>3. sure' \in BOOLEAN /\ dialog' \in {dialog, Closed} /\ content # NoTable
  BY <1>2, UpdateSent
<1>4. request.served = FALSE /\ request.clean = FALSE
  BY <1>1 DEF Call
<1>5. sure' => sure /\ InFlight = {} /\ Aimed(request)
  BY <1>1, <1>2
<1> QED
  BY <1>1, <1>2, <1>3, <1>4, <1>5, WriteStep

LEMMA InsertStep ==
    ASSUME IInv, NEW c \in Calls, NEW k \in Keys, NEW v \in Values, NEW closes \in BOOLEAN,
           ConfirmInsert(c, k, v, closes)
    PROVE  IInv'
<1>1. PICK request \in Call :
        /\ request.op = "insert" /\ ~request.served /\ ~request.clean
        /\ DoWrite(c, request) /\ (selected = content.rel => Aimed(request))
  BY InsertSent
<1>2. /\ sure' = (sure /\ InFlight = {} /\ selected = content.rel)
      /\ dialog' = (IF closes THEN Closed ELSE dialog)
      /\ UNCHANGED <<stored, selected, order, content, dimmed>>
  BY DEF ConfirmInsert
<1>3. sure' \in BOOLEAN /\ dialog' \in {dialog, Closed} /\ content # NoTable
  BY <1>2, InsertSent
<1>4. request.served = FALSE /\ request.clean = FALSE
  BY <1>1 DEF Call
<1>5. sure' => sure /\ InFlight = {} /\ Aimed(request)
  BY <1>1, <1>2
<1> QED
  BY <1>1, <1>2, <1>3, <1>4, <1>5, WriteStep

LEMMA DeleteStep ==
    ASSUME IInv, NEW c \in Calls, NEW i \in 1 .. Cardinality(Keys), Delete(c, i)
    PROVE  IInv'
<1>1. PICK request \in Call :
        /\ request.op = "delete" /\ ~request.served /\ ~request.clean
        /\ DoWrite(c, request) /\ (selected = content.rel => Aimed(request))
  BY DeleteSent
<1>2. /\ sure' = (sure /\ InFlight = {} /\ selected = content.rel)
      /\ UNCHANGED <<stored, selected, order, content, dimmed, dialog>>
  BY DEF Delete, page
<1>3. sure' \in BOOLEAN /\ content # NoTable
  BY <1>2, DeleteSent
<1>4. request.served = FALSE /\ request.clean = FALSE
  BY <1>1 DEF Call
<1>5. sure' => sure /\ InFlight = {} /\ Aimed(request)
  BY <1>1, <1>2
<1> QED
  BY <1>1, <1>2, <1>3, <1>4, <1>5, WriteStep

LEMMA UserStep ==
    ASSUME IInv, User
    PROVE  IInv'
<1>1. ASSUME NEW rel \in Relations, Select(rel)
      PROVE  IInv'
  <2>1. /\ UNCHANGED <<stored, content, dimmed, call, sent, sure, dialog>>
        /\ selected' = rel /\ order' = "none"
    BY <1>1 DEF Select
  <2>2. dialog \in Dialog \cup {Closed} /\ (content = NoTable => dialog = Closed)
    BY DEF IInv, TypeOK, Untouched
  <2> QED
    BY <2>1, <2>2, DialogStep DEF Orders
<1>2. ASSUME NEW i \in 1 .. Cardinality(Keys) + MaxCalls, OpenUpdate(i)
      PROVE  IInv'
  <2>1. /\ UNCHANGED <<stored, selected, order, content, dimmed, call, sent, sure>>
        /\ HasLine(i)
        /\ dialog' = [op |-> "update", rownum |-> i, rel |-> content.rel, key |-> KeyAt(i)]
    BY <1>2 DEF OpenUpdate
  <2>2. content \in Table /\ content # NoTable /\ i \in 1 .. Len(content.lines)
    BY <2>1 DEF HasLine, IInv, TypeOK
  <2>3. i \in Nat /\ content.rel \in Relations /\ KeyAt(i) \in Keys
    BY <2>2, KeysCount, MaxCallsAssumption, TableParts DEF KeyAt
  <2>4. dialog' \in Dialog
    BY <2>1, <2>3 DEF Dialog
  <2>5. selected \in Relations /\ order \in Orders
    BY DEF IInv, TypeOK
  <2> QED
    BY <2>1, <2>2, <2>4, <2>5, DialogStep
<1>3. ASSUME OpenInsert
      PROVE  IInv'
  <2>1. /\ UNCHANGED <<stored, selected, order, content, dimmed, call, sent, sure>>
        /\ content # NoTable
        /\ dialog' = [op |-> "insert", rownum |-> 0, rel |-> content.rel,
                      key |-> CHOOSE k \in Keys : TRUE]
    BY <1>3 DEF OpenInsert
  <2>2. content.rel \in Relations /\ (CHOOSE k \in Keys : TRUE) \in Keys
    BY <2>1, KeysAreNumbers, TableParts DEF IInv, TypeOK
  <2>3. dialog' \in Dialog
    BY <2>1, <2>2 DEF Dialog
  <2>4. selected \in Relations /\ order \in Orders
    BY DEF IInv, TypeOK
  <2> QED
    BY <2>1, <2>3, <2>4, DialogStep
<1>4. ASSUME CloseDialogs
      PROVE  IInv'
  <2>1. /\ UNCHANGED <<stored, selected, order, content, dimmed, call, sent, sure>>
        /\ dialog' = Closed
    BY <1>4 DEF CloseDialogs
  <2>2. selected \in Relations /\ order \in Orders
    BY DEF IInv, TypeOK
  <2> QED
    BY <2>1, <2>2, DialogStep
<1>5. ASSUME NEW c \in Calls, Go(c)
      PROVE  IInv'
  <2>1. DoRun(c, "run", order) /\ UNCHANGED <<stored, selected, order, content, dialog, sure>>
    BY <1>5 DEF Go
  <2>2. order \in Orders
    BY DEF IInv, TypeOK
  <2> QED
    BY <2>1, <2>2, RunStep
<1>6. ASSUME NEW c \in Calls, NEW ord \in Orders, Sort(c, ord)
      PROVE  IInv'
  <2>1. /\ order' = ord /\ UNCHANGED <<stored, selected, content, dialog, sure>>
        /\ DoRun(c, IF ord = "none" THEN "run" ELSE "sort", ord)
    BY <1>6 DEF Sort
  <2>2. CASE ord = "none"
    BY <2>1, <2>2, RunStep
  <2>3. CASE ord # "none"
    BY <2>1, <2>3, RunStep
  <2> QED
    BY <2>2, <2>3
<1> QED
  BY <1>1, <1>2, <1>3, <1>4, <1>5, <1>6, DeleteStep, UpdateStep, InsertStep DEF User

LEMMA NetworkStep ==
    ASSUME IInv, NEW c \in Calls, Network(c)
    PROVE  IInv'
<1>1. CASE Serve(c)
  <2>1. /\ c \in InFlight /\ ~call[c].served /\ (Reads(c) \/ Changes(c))
        /\ UNCHANGED <<page, sent, sure>>
    BY <1>1 DEF Serve, InFlight
  <2> QED
    BY <2>1, ReadStep, ChangeStep
<1>2. CASE Answer(c)
  <2>1. /\ c \in InFlight /\ call[c].served /\ (ShowRows(c) \/ ShowChange(c)) /\ Done(c)
        /\ UNCHANGED <<stored, selected, order, dialog, sent>>
    BY <1>2 DEF Answer, InFlight
  <2> QED
    BY <2>1, ShowRowsStep, ShowChangeStep
<1>3. CASE Fail(c)
  <2>1. c \in InFlight
    BY <1>3 DEF Fail, InFlight
  <2> QED
    BY <1>3, <2>1, FailStep
<1> QED
  BY <1>1, <1>2, <1>3 DEF Network

LEMMA Initial == Init => IInv
<1> SUFFICES ASSUME Init PROVE IInv
  OBVIOUS
<1>1. InFlight = {} /\ Writes = {} /\ Inserts = {}
  BY DEF Init, InFlight, Writes, Inserts
<1>2. TypeOK
  <2>1. stored \in [Relations -> [Keys -> Values \cup {NoValue}]]
    BY DatabasesAssumption DEF Init
  <2>2. call \in [Calls -> Call \cup {NoCall}]
    BY DEF Init
  <2>3. sent \in 0 .. MaxCalls
    BY MaxCallsAssumption DEF Init
  <2> QED
    BY <2>1, <2>2, <2>3 DEF Init, TypeOK, Orders
<1>3. Untouched /\ CleanAlone /\ Answers /\ Agrees /\ DimmedMeansRunning
  BY <1>1 DEF Init, Untouched, CleanAlone, Answers, Agrees, DimmedMeansRunning
<1>4. Lengths
  BY <1>1, FS_EmptySet DEF Init, Lengths
<1> QED
  BY <1>2, <1>3, <1>4 DEF IInv

LEMMA Inductive == IInv /\ [Next]_vars => IInv'
<1> SUFFICES ASSUME IInv, [Next]_vars PROVE IInv'
  OBVIOUS
<1>1. CASE UNCHANGED vars
  <2>1. UNCHANGED <<stored, selected, order, content, dimmed, dialog, call, sent, sure>>
    BY <1>1 DEF vars, page
  <2>2. /\ selected \in Relations /\ order \in Orders /\ dialog \in Dialog \cup {Closed}
        /\ content = NoTable => dialog = Closed
    BY DEF IInv, TypeOK, Untouched
  <2> QED
    BY <2>1, <2>2, DialogStep
<1> QED
  BY <1>1, UserStep, NetworkStep DEF Next

(* ------------------------------ the theorems ---------------------------- *)

(* The inductive invariant holds of every behaviour. *)
THEOREM Invariance == Spec => []IInv
BY Initial, Inductive, PTL DEF Spec

(* The table never grows beyond the rows of a relation and a line for each  *)
(* insert, and every call, dialog and table is one of those that the page   *)
(* makes.                                                                   *)
THEOREM TypeCorrect == Spec => []TypeOK
<1>1. IInv => TypeOK
  BY DEF IInv
<1> QED
  BY <1>1, Invariance, PTL

(* Whatever becomes of the runs, a table that is dimmed has one in flight   *)
(* that will show it clearly again.                                         *)
THEOREM DimmedRuns == Spec => []DimmedMeansRunning
<1>1. IInv => DimmedMeansRunning
  BY DEF IInv
<1> QED
  BY <1>1, Invariance, PTL

(* The rows shown are sorted as the header tells: its buttons are made from *)
(* the order that the run had, and a patch keeps the keys of the lines.     *)
THEOREM RowsAreSorted == Spec => []MarksFollowRows
<1>1. IInv => MarksFollowRows
  BY DEF IInv, Agrees, InOrder, MarksFollowRows, KeyAt, Before
<1> QED
  BY <1>1, Invariance, PTL

(* The table shown, patched by the answers of the writes, is what the       *)
(* database holds when no call is in flight.                                *)
THEOREM TableIsCurrent == Spec => []ShownIsStored
<1>1. ASSUME IInv, content # NoTable, InFlight = {}, sure
      PROVE  /\ {<<content.lines[i].key, content.lines[i].value>> : i \in Live} =
                   {<<k, stored[content.rel][k]>> : k \in Present(content.rel)}
             /\ Cardinality(Live) = Cardinality(Present(content.rel))
  <2> DEFINE lines == content.lines
             row == stored[content.rel]
             f == [i \in Live |-> lines[i].key]
  <2>1. Writes = {} /\ content \in Table
    BY <1>1 DEF Writes, IInv, TypeOK
  <2>2. Holds(lines, row)
    BY <1>1, <2>1 DEF IInv, Agrees
  <2>3. /\ \A i \in Live : row[lines[i].key] = lines[i].value
        /\ \A k \in Keys : row[k] # NoValue => \E i \in Live : lines[i].key = k
        /\ \A i, j \in Live : lines[i].key = lines[j].key => i = j
    BY <2>2 DEF Holds, LiveOf, Live
  <2>4. /\ Len(lines) \in Nat /\ Live \subseteq 1 .. Len(lines)
        /\ \A i \in Live : lines[i].key \in Keys /\ lines[i].value \in Values
    BY <2>1, TableParts DEF Live
  <2>5. Present(content.rel) = {k \in Keys : row[k] # NoValue}
    BY DEF Present
  <2> HIDE DEF lines, row
  <2>6. /\ \A i \in Live : lines[i].key \in Present(content.rel)
        /\ \A k \in Present(content.rel) : \E i \in Live : lines[i].key = k
    BY <2>3, <2>4, <2>5, SentinelsAssumption
  <2>7. {<<lines[i].key, lines[i].value>> : i \in Live}
          = {<<k, row[k]>> : k \in Present(content.rel)}
    BY <2>3, <2>6
  <2>8. IsFiniteSet(Live)
    <3>1. IsFiniteSet(1 .. Len(lines))
      BY <2>4, FS_Interval
    <3> QED
      BY <2>4, <3>1, FS_Subset
  <2>9. f \in Bijection(Live, Present(content.rel))
    <3>1. f \in [Live -> Present(content.rel)] /\ \A i \in Live : f[i] = lines[i].key
      BY <2>6
    <3> HIDE DEF f
    <3>2. IsInjective(f)
      BY <2>3, <3>1 DEF IsInjective
    <3>3. \A k \in Present(content.rel) : \E i \in Live : f[i] = k
      BY <2>6, <3>1
    <3> QED
      BY <3>1, <3>2, <3>3 DEF Bijection, Injection, Surjection
  <2>10. Cardinality(Present(content.rel)) = Cardinality(Live)
    BY <2>8, <2>9, FS_Bijection DEF ExistsBijection
  <2> QED
    BY <2>7, <2>10 DEF lines, row
<1>2. IInv => ShownIsStored
  BY <1>1 DEF ShownIsStored
<1> QED
  BY <1>2, Invariance, PTL
(* ------------------------- users who are patient ------------------------ *)

(* Clicks that send nothing change the dialog at most. *)
LEMMA PatientClick ==
    ASSUME IInv, Untroubled, Patient, UNCHANGED <<content, call, sure>>,
           dialog' \in {dialog, Closed} \/ InFlight = {}, LineOpen'
    PROVE  Untroubled'
<1>1. InFlight' = InFlight
  BY DEF InFlight
<1>2. \A c \in InFlight : /\ Reading(call[c]) => call[c].clean
                          /\ call[c].op \in {"run", "sort", "delete"} => dialog' = Closed
  BY DEF Untroubled
<1> QED
  BY <1>1, <1>2 DEF Untroubled, Reading, LineOpen

LEMMA PatientRun ==
    ASSUME IInv, Untroubled, Patient, NEW c \in Calls, NEW op \in {"run", "sort"},
           NEW ord \in Orders, DoRun(c, op, ord), UNCHANGED <<content, dialog, sure>>
    PROVE  Untroubled'
<1>1. /\ c \notin InFlight /\ InFlight' = InFlight \cup {c}
      /\ call'[c].op = op /\ (call'[c].clean <=> Writes = {})
  BY RunSent DEF IInv
<1>2. sent' = sent + 1 /\ sent \in Nat
  BY MaxCallsAssumption DEF DoRun, MaySend, IInv, TypeOK
<1>3. InFlight = {}
  BY <1>2 DEF Patient
<1>4. Writes = {} /\ call[c] = NoCall /\ call'[c] # NoCall
  BY <1>1, <1>3 DEF Writes, InFlight
<1>5. dialog = Closed
  BY <1>1, <1>4 DEF Patient
<1> QED
  BY <1>1, <1>3, <1>4, <1>5 DEF Untroubled, LineOpen, Reading

(* A write is sent alone, for the line shown. *)
LEMMA PatientWrite ==
    ASSUME IInv, Untroubled, Patient, NEW c \in Calls, NEW request \in Call,
           request.op \in {"insert", "update", "delete"}, DoWrite(c, request)
    PROVE  /\ InFlight = {} /\ InFlight' = {c} /\ call'[c] = request
           /\ selected = content.rel
           /\ request.op = "delete" => dialog = Closed
<1>1. /\ c \notin InFlight /\ InFlight' = InFlight \cup {c} /\ call'[c] = request
  BY WriteSent DEF IInv
<1>2. sent' = sent + 1 /\ sent \in Nat
  BY MaxCallsAssumption DEF DoWrite, MaySend, IInv, TypeOK
<1>3. InFlight = {}
  BY <1>2 DEF Patient
<1>4. call[c] = NoCall /\ call'[c] # NoCall /\ ~Reading(call'[c])
  BY <1>1, SentinelsAssumption DEF InFlight, Reading
<1>5. selected = content.rel /\ (request.op = "delete" => dialog = Closed)
  BY <1>1, <1>4 DEF Patient
<1> QED
  BY <1>1, <1>3, <1>5

LEMMA PatientUser ==
    ASSUME IInv, Untroubled, Patient, User
    PROVE  Untroubled'
<1> USE DEF Untroubled
<1>1. ASSUME NEW rel \in Relations, Select(rel)
      PROVE  Untroubled'
  <2>1. UNCHANGED <<content, call, sure, dialog>>
    BY <1>1 DEF Select
  <2> QED
    BY <2>1, PatientClick DEF LineOpen, HasLine, KeyAt
<1>2. ASSUME NEW i \in 1 .. Cardinality(Keys) + MaxCalls, OpenUpdate(i)
      PROVE  Untroubled'
  <2>1. /\ UNCHANGED <<content, call, sure>> /\ HasLine(i)
        /\ dialog' = [op |-> "update", rownum |-> i, rel |-> content.rel, key |-> KeyAt(i)]
    BY <1>2 DEF OpenUpdate
  <2>2. CASE dialog' = dialog
    BY <2>1, <2>2, PatientClick DEF LineOpen, HasLine, KeyAt
  <2>3. CASE dialog' # dialog
    <3>1. InFlight = {}
      BY <2>3 DEF Patient
    <3>2. dialog' \in Dialog \cup {Closed}
      BY <1>2, UserStep DEF User, IInv, TypeOK
    <3>3. dialog' # Closed => content.lines[i].mark # "struck"
      BY <2>1, <2>3, <3>2 DEF Patient
    <3>4. LineOpen'
      BY <2>1, <3>3 DEF LineOpen, HasLine, KeyAt
    <3> QED
      BY <2>1, <3>1, <3>4, PatientClick
  <2> QED
    BY <2>2, <2>3
<1>3. ASSUME OpenInsert
      PROVE  Untroubled'
  <2>1. UNCHANGED <<content, call, sure>> /\ dialog'.op = "insert"
    BY <1>3 DEF OpenInsert
  <2>2. dialog' = dialog \/ InFlight = {}
    BY DEF Patient
  <2> QED
    BY <2>1, <2>2, PatientClick DEF LineOpen
<1>4. ASSUME CloseDialogs
      PROVE  Untroubled'
  <2>1. UNCHANGED <<content, call, sure>> /\ dialog' = Closed
    BY <1>4 DEF CloseDialogs
  <2> QED
    BY <2>1, PatientClick DEF LineOpen
<1>5. ASSUME NEW c \in Calls, Go(c)
      PROVE  Untroubled'
  <2>1. DoRun(c, "run", order) /\ UNCHANGED <<content, dialog, sure>>
    BY <1>5 DEF Go
  <2>2. order \in Orders
    BY DEF IInv, TypeOK
  <2> QED
    BY <2>1, <2>2, PatientRun
<1>6. ASSUME NEW c \in Calls, NEW ord \in Orders, Sort(c, ord)
      PROVE  Untroubled'
  <2>1. /\ UNCHANGED <<content, dialog, sure>>
        /\ DoRun(c, IF ord = "none" THEN "run" ELSE "sort", ord)
    BY <1>6 DEF Sort
  <2>2. CASE ord = "none"
    BY <2>1, <2>2, PatientRun
  <2>3. CASE ord # "none"
    BY <2>1, <2>3, PatientRun
  <2> QED
    BY <2>2, <2>3
<1>7. ASSUME NEW c \in Calls, NEW i \in 1 .. Cardinality(Keys), Delete(c, i)
      PROVE  Untroubled'
  <2>1. PICK request \in Call : request.op = "delete" /\ DoWrite(c, request)
    BY <1>7, DeleteSent
  <2>2. /\ InFlight = {} /\ InFlight' = {c} /\ call'[c] = request
        /\ selected = content.rel /\ dialog = Closed
    BY <2>1, PatientWrite
  <2>3. /\ sure' = (sure /\ InFlight = {} /\ selected = content.rel)
        /\ UNCHANGED <<content, dialog>>
    BY <1>7 DEF Delete, page
  <2> QED
    BY <2>1, <2>2, <2>3 DEF LineOpen, Reading
<1>8. ASSUME NEW c \in Calls, NEW v \in Values, NEW closes \in BOOLEAN,
             ConfirmUpdate(c, v, closes)
      PROVE  Untroubled'
  <2>1. PICK request \in Call : request.op = "update" /\ DoWrite(c, request)
    BY <1>8, UpdateSent
  <2>2. /\ InFlight = {} /\ InFlight' = {c} /\ call'[c] = request
        /\ selected = content.rel
    BY <2>1, PatientWrite
  <2>3. /\ dialog # Closed /\ dialog.op = "update"
        /\ sure' = (/\ sure /\ InFlight = {}
                    /\ selected = content.rel /\ KeyAt(dialog.rownum) = dialog.key
                    /\ content.lines[dialog.rownum].mark # "struck")
        /\ dialog' \in {dialog, Closed} /\ content' = content
    BY <1>8 DEF ConfirmUpdate
  <2> QED
    BY <2>1, <2>2, <2>3 DEF LineOpen, Reading, HasLine, KeyAt
<1>9. ASSUME NEW c \in Calls, NEW k \in Keys, NEW v \in Values, NEW closes \in BOOLEAN,
             ConfirmInsert(c, k, v, closes)
      PROVE  Untroubled'
  <2>1. PICK request \in Call : request.op = "insert" /\ DoWrite(c, request)
    BY <1>9, InsertSent
  <2>2. /\ InFlight = {} /\ InFlight' = {c} /\ call'[c] = request
        /\ selected = content.rel
    BY <2>1, PatientWrite
  <2>3. /\ dialog # Closed /\ dialog.op = "insert"
        /\ sure' = (sure /\ InFlight = {} /\ selected = content.rel)
        /\ dialog' \in {dialog, Closed} /\ content' = content
    BY <1>9 DEF ConfirmInsert
  <2> QED
    BY <2>1, <2>2, <2>3 DEF LineOpen, Reading, HasLine, KeyAt
<1> QED
  BY <1>1, <1>2, <1>3, <1>4, <1>5, <1>6, <1>7, <1>8, <1>9 DEF User

LEMMA PatientServe ==
    ASSUME IInv, Untroubled, NEW c \in InFlight, Reads(c) \/ Changes(c),
           UNCHANGED <<page, sent, sure>>
    PROVE  Untroubled'
<1>1. \E answer \in Seq(Line) :
         call' = [call EXCEPT ![c].served = TRUE, ![c].answer = answer]
  <2>1. CASE Reads(c)
    <3>1. PICK keys \in Listings(Present(call[c].rel), call[c].order) :
             call' = [call EXCEPT ![c].served = TRUE, ![c].answer = Rows(call[c].rel, keys)]
      BY <2>1 DEF Reads
    <3>2. Rows(call[c].rel, keys) \in Seq(Line)
      BY CallParts, RowsListed DEF IInv
    <3> QED
      BY <3>1, <3>2
  <2>2. CASE Changes(c)
    BY <2>2, ChangeServed, CallParts DEF IInv
  <2> QED
    BY <2>1, <2>2
<1>2. /\ InFlight' = InFlight /\ call'[c].op = call[c].op /\ call'[c].clean = call[c].clean
      /\ \A d \in InFlight \ {c} : call'[d] = call[d]
  BY <1>1, CallServed DEF IInv
<1>3. \A d \in InFlight : call'[d].op = call[d].op /\ call'[d].clean = call[d].clean
  BY <1>2
<1> QED
  BY <1>2, <1>3 DEF Untroubled, LineOpen, Reading, HasLine, KeyAt, page

(* The answer shown leaves no call in flight, and the dialog's line keeps   *)
(* its key: an update is for that key, an insert only adds a line.          *)
LEMMA PatientAnswer ==
    ASSUME IInv, Untroubled, NEW c \in InFlight, call[c].served,
           ShowRows(c) \/ ShowChange(c), Done(c), dialog' = dialog
    PROVE  Untroubled'
<1>1. InFlight = {c} /\ InFlight' = {}
  BY CallDone DEF IInv, Untroubled
<1>2. CASE ShowRows(c)
  <2>1. sure' = call[c].clean /\ call[c].clean /\ dialog = Closed
    BY <1>2 DEF ShowRows, Untroubled, Reading
  <2> QED
    BY <1>1, <2>1 DEF Untroubled, LineOpen
<1>3. CASE ShowChange(c)
  <2>1. /\ call[c].op \in {"insert", "update", "delete"} /\ call[c].newkey \in Keys
        /\ call[c].value \in Values /\ call[c].rownum \in Nat
        /\ content' = Patched(c) /\ sure' = sure
    BY <1>3, CallParts DEF ShowChange, IInv
  <2>2. c \in Writes
    BY <2>1 DEF Writes
  <2>3. content # NoTable /\ content \in Table
    BY <2>2 DEF IInv, Untouched, TypeOK
  <2>4. Aimed(call[c])
    BY <2>2, <2>3 DEF IInv, Agrees, Untroubled
  <2>5. SUFFICES ASSUME dialog # Closed, dialog.op = "update"
                 PROVE  /\ HasLine(dialog.rownum)' /\ KeyAt(dialog.rownum)' = dialog.key
                        /\ content'.lines[dialog.rownum].mark # "struck"
    BY <1>1, <2>1, <2>5 DEF Untroubled, LineOpen
  <2> DEFINE old == content.lines
             new == Patched(c).lines
             n == dialog.rownum
  <2>6. n \in 1 .. Len(old) /\ old[n].key = dialog.key /\ old[n].mark # "struck"
    BY <2>5 DEF Untroubled, LineOpen, HasLine, KeyAt
  <2>7. call[c].op # "delete"
    BY <2>5 DEF Untroubled
  <2>8. Patched(c) \in Table /\ n \in 1 .. Len(new) /\ new[n].key = old[n].key
        /\ new[n].mark = old[n].mark
    <3>1. CASE call[c].op = "insert"
      <4>1. /\ Patched(c) \in Table /\ Len(new) = Len(old) + 1
            /\ \A i \in 1 .. Len(old) : new[i] = old[i]
        BY <2>1, <2>3, <3>1, InsertPatch
      <4>2. Len(old) \in Nat
        BY <2>3, TableParts
      <4> HIDE DEF old, new, n
      <4> QED
        BY <2>6, <4>1, <4>2
    <3>2. CASE call[c].op = "update"
      <4>1. /\ Patched(c) \in Table /\ Len(new) = Len(old)
            /\ \A i \in 1 .. Len(old) : i # call[c].rownum => new[i] = old[i]
            /\ call[c].rownum \in 1 .. Len(old) =>
                 /\ new[call[c].rownum].key = call[c].newkey
                 /\ new[call[c].rownum].mark = old[call[c].rownum].mark
        BY <2>1, <2>3, <3>2, LinePatch
      <4>2. call[c].newkey = call[c].key /\ old[call[c].rownum].key = call[c].key
        BY <2>4, <3>2 DEF Aimed, KeyAt
      <4> HIDE DEF old, new, n
      <4> QED
        BY <2>6, <4>1, <4>2
    <3> QED
      BY <2>1, <2>7, <3>1, <3>2
  <2>9. content' # NoTable /\ content'.lines = new
    BY <2>1, <2>8, SentinelsAssumption
  <2> QED
    BY <2>6, <2>8, <2>9 DEF HasLine, KeyAt
<1> QED
  BY <1>2, <1>3

LEMMA PatientFail ==
    ASSUME IInv, Untroubled, Patient, NEW c \in InFlight, Fail(c)
    PROVE  Untroubled'
<1>1. /\ sure' = (sure /\ ~(c \in Writes /\ call[c].served))
      /\ Done(c) /\ UNCHANGED <<content, dialog>>
  BY DEF Fail
<1>2. InFlight' = {}
  BY <1>1, CallDone DEF IInv, Untroubled
<1>3. ~(c \in Writes /\ call[c].served)
  BY DEF Patient
<1> QED
  BY <1>1, <1>2, <1>3 DEF Untroubled, LineOpen, HasLine, KeyAt

LEMMA PatientStep == IInv /\ Untroubled /\ [Next]_vars /\ [Patient]_vars => Untroubled'
<1> SUFFICES ASSUME IInv, Untroubled, [Next]_vars, [Patient]_vars
             PROVE  Untroubled'
  OBVIOUS
<1>1. CASE UNCHANGED vars
  <2>1. UNCHANGED <<content, dialog, call, sure>>
    BY <1>1 DEF vars, page
  <2>2. InFlight' = InFlight
    BY <2>1 DEF InFlight
  <2> QED
    BY <2>1, <2>2 DEF Untroubled, LineOpen, Reading, HasLine, KeyAt
<1>2. ASSUME NEW c \in Calls, Network(c), Patient
      PROVE  Untroubled'
  <2>1. CASE Serve(c)
    BY <2>1, PatientServe DEF Serve, InFlight
  <2>2. CASE Answer(c)
    BY <2>2, PatientAnswer DEF Answer, InFlight
  <2>3. CASE Fail(c)
    <3>1. c \in InFlight
      BY <2>3 DEF Fail, InFlight
    <3> QED
      BY <1>2, <2>3, <3>1, PatientFail
  <2> QED
    BY <1>2, <2>1, <2>2, <2>3 DEF Network
<1> QED
  BY <1>1, <1>2, PatientUser DEF Next

(* A user who waits for each answer, edits only what is selected, opens no  *)
(* line that was deleted and closes the dialog before loading or deleting   *)
(* never parts table and database, unless the answer of a write is lost:    *)
(* then ShownIsStored and MarksFollowRows except nothing.                   *)
THEOREM PatienceSuffices == Spec /\ [][Patient]_vars => []sure
<1>1. Init => Untroubled
  BY DEF Init, Untroubled, LineOpen, InFlight
<1>2. Untroubled => sure
  BY DEF Untroubled
<1> QED
  BY <1>1, <1>2, PatientStep, Invariance, PTL DEF Spec
=============================================================================
