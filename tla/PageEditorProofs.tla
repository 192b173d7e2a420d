-------------------------- MODULE PageEditorProofs --------------------------
(***************************************************************************)
(* Theorems about PageEditor, for any number of tabs and calls.            *)
(***************************************************************************)
EXTENDS PageEditorInvariant, FiniteSetTheorems, TLAPS

(* RowStore extends FiniteSets; its instance has a Cardinality of its own. *)
LEMMA StoreCardinality ==
    ASSUME NEW S
    PROVE  Store!Cardinality(S) = Cardinality(S)
BY DEF Store!Cardinality, Cardinality

(* The row that an accepted call leaves. *)
RowOf(k) == [group |-> k.text, visible |-> TRUE, version |-> k.version]

LEMMA RowOfType ==
    ASSUME NEW k \in Call
    PROVE  RowOf(k) \in Row /\ RowOf(k) # NoRow
<1>1. k.text \in Groups /\ k.version \in Versions /\ TRUE \in BOOLEAN
  BY DEF Call
<1>2. RowOf(k) \in Row
  BY <1>1 DEF RowOf, Row
<1> QED
  BY <1>2, RowSentinelsAssumption

(* What RowStore promises of a call on the object. *)
LEMMA Applied ==
    ASSUME TypeOK, NEW k \in Call, k.op # "load", Store!Apply(RequestOf(k))
    PROVE  /\ table' \in [Keys -> Row \cup {NoRow}]
           /\ k.op = "insert" => table[Object] = NoRow
           /\ k.op = "update" => /\ table[Object] # NoRow
                                 /\ table[Object].version \in {k.lock, Null}
           /\ table'[Object] = IF k.op = "delete" THEN NoRow ELSE RowOf(k)
<1> DEFINE r == RequestOf(k)
<1>1. /\ r.op = k.op /\ r.select = {Object} /\ r.min = 1 /\ r.max = 1
      /\ r.lock = k.lock /\ r.group = k.text /\ r.version = k.version
      /\ r.visible = TRUE
  BY DEF RequestOf
<1>2. PICK K \in SUBSET Store!Selected(r) :
        /\ Store!Cardinality(K) >= r.min
        /\ table' = [o \in Keys |->
                       IF o \in K THEN Store!NewRow(r, table[o]) ELSE table[o]]
  BY DEF Store!Apply
<1>3. K # {}
  <2>1. Cardinality({}) = 0
    BY FS_EmptySet
  <2> QED
    BY <1>1, <1>2, <2>1, StoreCardinality
<1>4. K = {Object} /\ Object \in Store!Selected(r)
  BY <1>1, <1>2, <1>3 DEF Store!Selected
<1>5. /\ k.op = "insert" => table[Object] = NoRow
      /\ k.op = "update" => /\ table[Object] # NoRow
                            /\ table[Object].version \in {k.lock, Null}
  BY <1>1, <1>4, EditedRelationAssumption DEF Store!Selected, Store!AsRead
<1>6. \A o \in {Object} :
        Store!NewRow(r, table[o]) = IF k.op = "delete" THEN NoRow ELSE RowOf(k)
  <2>1. k.text # Keep /\ TRUE # Keep /\ k.version # Keep
    BY RowSentinelsAssumption DEF Call
  <2> QED
    BY <1>1, <2>1 DEF Store!NewRow, Store!Supplied, RowOf
<1>7. table' = [o \in Keys |-> IF o = Object
                                THEN IF k.op = "delete" THEN NoRow ELSE RowOf(k)
                                ELSE table[o]]
  BY <1>2, <1>4, <1>6
<1> QED
  BY <1>5, <1>7, RowOfType, ObjectAssumption DEF TypeOK

(* What becomes of a call. *)
LEMMA CallTypes ==
    /\ Load \in Call
    /\ \A k \in Call : /\ [k EXCEPT !.heard = FALSE] \in Call
                       /\ \A n \in Nat : [k EXCEPT !.served = TRUE, !.result = n] \in Call
<1>1. Load \in Call
  <2>1. "load" \in Ops /\ 1 \in Versions /\ Blank \in Groups /\ 0 \in Nat
    BY EditedVersionsAssumption, ObjectAssumption DEF Ops
  <2> QED
    BY <2>1 DEF Load, Call
<1>2. ASSUME NEW k \in Call
      PROVE  [k EXCEPT !.heard = FALSE] \in Call
  BY DEF Call
<1>3. ASSUME NEW k \in Call, NEW n \in Nat
      PROVE  [k EXCEPT !.served = TRUE, !.result = n] \in Call
  BY DEF Call
<1> QED
  BY <1>1, <1>2, <1>3

(* The version that a save gives is above that of the row it replaces.      *)
LEMMA NextIsAbove ==
    ASSUME NEW v \in Versions \cup {Null}
    PROVE  /\ NextVersion(v) \in Nat \ {0}
           /\ v # Null => NextVersion(v) > v /\ v \in Nat
BY EditedVersionsAssumption, RowSentinelsAssumption DEF NextVersion

LEMMA SentCall ==
    ASSUME TypeOK, NEW t \in Tabs, NEW c \in Connections,
           NEW op \in {"insert", "update", "delete"}, Sends(t, c, op)
    PROVE  NewCall(t, op) \in Call
<1>1. /\ op \in Ops /\ text[t] \in Groups /\ lock[t] \in Versions \cup {Null}
      /\ basis[t] \in Nat /\ NextVersion(lock[t]) \in Versions
  BY EditedVersionsAssumption DEF TypeOK, Sends, NextVersion, Ops
<1> QED
  BY <1>1 DEF NewCall, Call

-----------------------------------------------------------------------------
LEMMA InitIInv == Init => IInv
<1> SUFFICES ASSUME Init PROVE IInv
  OBVIOUS
<1>1. table \in [Keys -> Row \cup {NoRow}]
  BY EditedVersionsAssumption, ObjectAssumption DEF Init, Row
<1>2. TypeOK
  BY <1>1, ObjectAssumption, MaxCallsAssumption DEF Init, TypeOK
<1>3. Logged
  BY <1>1, ObjectAssumption DEF Init, Logged, Ascending
<1>4. Forms /\ CallsKnown
  BY DEF Init, Forms, BasedOn, CallsKnown
<1>5. TextsSent /\ ClosesOnlyStored /\ BusyMeansSaving
  BY DEF Init, TextsSent, Outdated, Saving, Waits, ClosesOnlyStored, StoredText,
         BusyMeansSaving
<1> QED
  BY <1>2, <1>3, <1>4, <1>5 DEF IInv

(* A step leaves the row as it is, or is a call that the server accepts. *)
LEMMA Stores ==
    ASSUME [Next]_vars,
           ~ \E t \in Tabs, c \in Connections :
               call[t][c] # NoCall /\ ~call[t][c].served /\ Writes(t, c)
    PROVE  table' = table /\ log' = log
BY DEF Next, User, Network, Edit, Save, Remove, Open, Serve, Reads, Answer, Fail,
       Vanish, store, vars

(* The contents that the object had stay on record. *)
LEMMA LogGrows ==
    ASSUME IInv, [Next]_vars
    PROVE  /\ log' \in Seq(Row \cup {NoRow})
           /\ Len(log') \in Nat /\ Len(log') >= Len(log)
           /\ \A i \in 1 .. Len(log) : i \in 1 .. Len(log') /\ log'[i] = log[i]
<1>1. ASSUME NEW t \in Tabs, NEW c \in Connections,
             call[t][c] # NoCall, Writes(t, c)
      PROVE  log' = Append(log, table'[Object]) /\ table'[Object] \in Row \cup {NoRow}
  <2>1. call[t][c] \in Call /\ call[t][c].op # "load"
    BY <1>1 DEF IInv, TypeOK, Writes
  <2>2. table' \in [Keys -> Row \cup {NoRow}]
    BY <1>1, <2>1, Applied DEF IInv, Writes
  <2> QED
    BY <1>1, <2>2, ObjectAssumption DEF Writes
<1>2. log \in Seq(Row \cup {NoRow})
  BY DEF IInv, TypeOK
<1>3. CASE log' = log
  BY <1>2, <1>3
<1>4. ASSUME NEW row \in Row \cup {NoRow}, log' = Append(log, row)
      PROVE  /\ log' \in Seq(Row \cup {NoRow})
             /\ Len(log') \in Nat /\ Len(log') >= Len(log)
             /\ \A i \in 1 .. Len(log) : i \in 1 .. Len(log') /\ log'[i] = log[i]
  BY <1>2, <1>4
<1> QED
  BY <1>1, <1>3, <1>4, Stores

LEMMA TypeStep ==
    ASSUME IInv, [Next]_vars
    PROVE  TypeOK'
<1> USE DEF IInv
<1>0. CASE UNCHANGED vars
  BY <1>0 DEF TypeOK, vars, store, form
<1>l. log' \in Seq(Row \cup {NoRow})
  BY LogGrows
<1>1. ASSUME NEW t \in Tabs, NEW x \in Groups, Edit(t, x)
      PROVE  TypeOK'
  BY <1>1 DEF TypeOK, Edit, Shows, Outdated, store
<1>2. ASSUME NEW t \in Tabs, NEW c \in Connections, Save(t, c) \/ Remove(t, c)
      PROVE  TypeOK'
  <2>1. PICK op \in {"insert", "update", "delete"} : Sends(t, c, op)
    BY <1>2 DEF Save, Remove
  <2>3. NewCall(t, op) \in Call
    BY <2>1, SentCall
  <2> QED
    <3>1. call' \in [Tabs -> [Connections -> Call \cup {NoCall}]]
      BY <2>1, <2>3 DEF TypeOK, Sends
    <3>2. sent' \in 0 .. MaxCalls
      BY <2>1, MaxCallsAssumption DEF TypeOK, Sends
    <3>3. busy' \in [Tabs -> BOOLEAN]
      BY <1>2 DEF TypeOK, Save, Remove, form
    <3> QED
      BY <1>2, <3>1, <3>2, <3>3 DEF TypeOK, Save, Remove, store, form
<1>3. ASSUME NEW t \in Tabs, NEW c \in Connections, NEW named \in BOOLEAN,
             Open(t, c, named)
      PROVE  TypeOK'
  <2>1. Abandoned(t) \in [Connections -> Call \cup {NoCall}]
    <3>1. ASSUME NEW d \in Connections
          PROVE  Abandoned(t)[d] \in Call \cup {NoCall}
      <4>1. call[t][d] \in Call \cup {NoCall}
        BY DEF TypeOK
      <4> QED
        BY <4>1, CallTypes DEF Abandoned
    <3> QED
      BY <3>1 DEF Abandoned
  <2>2. [Abandoned(t) EXCEPT ![c] = Load] \in [Connections -> Call \cup {NoCall}]
    BY <2>1, CallTypes
  <2>3. call' \in [Tabs -> [Connections -> Call \cup {NoCall}]]
    BY <1>3, <2>1, <2>2 DEF TypeOK, Open
  <2>4. sent' \in 0 .. MaxCalls
    BY <1>3, MaxCallsAssumption DEF TypeOK, Open
  <2> QED
    BY <1>3, <2>3, <2>4, ObjectAssumption DEF TypeOK, Open, store
<1>4. ASSUME NEW t \in Tabs, NEW c \in Connections, Serve(t, c)
      PROVE  TypeOK'
  <2>1. table' \in [Keys -> Row \cup {NoRow}]
    BY <1>4, Applied DEF TypeOK, Serve, Reads, Writes
  <2>2. PICK n \in Nat : Served(t, c, n)
    BY <1>4 DEF TypeOK, Serve, Reads, Writes
  <2>3. call' \in [Tabs -> [Connections -> Call \cup {NoCall}]]
    <3>1. call[t][c] \in Call
      BY <1>4 DEF TypeOK, Serve
    <3>2. [call[t][c] EXCEPT !.served = TRUE, !.result = n] \in Call
      BY <2>2, <3>1, CallTypes
    <3> QED
      BY <2>2, <3>2 DEF TypeOK, Served
  <2> QED
    BY <1>4, <1>l, <2>1, <2>3 DEF TypeOK, Serve, form
<1>5. ASSUME NEW t \in Tabs, NEW c \in Connections, Answer(t, c)
      PROVE  TypeOK'
  <2>1. call[t][c] \in Call /\ call[t][c].served
    BY <1>5 DEF TypeOK, Answer, Waits
  <2>2. call[t][c].op = "load" => log[call[t][c].result] \in Row
    BY <1>5, <2>1 DEF TypeOK, CallsKnown, Known, Answer, Waits
  <2>3. busy' \in [Tabs -> BOOLEAN]
    BY <1>5 DEF TypeOK, Answer, ShowsButton
  <2>4. call' \in [Tabs -> [Connections -> Call \cup {NoCall}]]
    BY <1>5 DEF TypeOK, Answer, Settle
  <2>5. /\ text' \in [Tabs -> Groups] /\ lock' \in [Tabs -> Versions \cup {Null}]
        /\ saved' \in [Tabs -> BOOLEAN] /\ altered' \in [Tabs -> BOOLEAN]
        /\ basis' \in [Tabs -> Nat] /\ overtaken' \in [Tabs -> BOOLEAN]
    BY <1>5, <2>1, <2>2
    DEF TypeOK, Answer, Loaded, Saved, Removed, Shows, Outdated, Call, Row
  <2> QED
    BY <1>5, <2>3, <2>4, <2>5 DEF TypeOK, Answer, store
<1>6. ASSUME NEW t \in Tabs, NEW c \in Connections, Fail(t, c)
      PROVE  TypeOK'
  <2>1. call' \in [Tabs -> [Connections -> Call \cup {NoCall}]]
    <3>1. call[t][c] \in Call
      BY <1>6 DEF TypeOK, Fail, Waits
    <3>2. [call[t][c] EXCEPT !.heard = FALSE] \in Call
      BY <3>1, CallTypes
    <3> QED
      BY <1>6, <3>2 DEF TypeOK, Fail, Unheard
  <2>2. busy' \in [Tabs -> BOOLEAN]
    BY <1>6 DEF TypeOK, Fail, ShowsButton
  <2> QED
    BY <1>6, <2>1, <2>2 DEF TypeOK, Fail, store
<1>7. ASSUME NEW t \in Tabs, NEW c \in Connections, Vanish(t, c)
      PROVE  TypeOK'
  BY <1>7 DEF TypeOK, Vanish, Settle, store, form
<1> QED
  BY <1>0, <1>1, <1>2, <1>3, <1>4, <1>5, <1>6, <1>7 DEF Next, User, Network

(* Between two removals the versions of the row ascend: an update is above  *)
(* the row that it replaces.                                                *)
LEMMA LoggedStep ==
    ASSUME IInv, [Next]_vars
    PROVE  Logged'
<1>1. CASE table' = table /\ log' = log
  BY <1>1 DEF IInv, Logged, Ascending
<1>2. ASSUME NEW t \in Tabs, NEW c \in Connections,
             call[t][c] # NoCall, Writes(t, c)
      PROVE  Logged'
  <2> DEFINE k == call[t][c]
             n == Len(log)
             new == table'[Object]
  <2>1. k \in Call /\ k.op # "load" /\ k.version = NextVersion(k.lock)
    BY <1>2 DEF IInv, TypeOK, Writes, CallsKnown, Known
  <2>2. /\ new \in Row \cup {NoRow}
        /\ k.op = "insert" => log[n] = NoRow
        /\ k.op = "update" => log[n] # NoRow /\ log[n].version \in {k.lock, Null}
        /\ new = IF k.op = "delete" THEN NoRow ELSE RowOf(k)
    BY <1>2, <2>1, Applied, ObjectAssumption DEF IInv, Writes, Logged
  <2>3. /\ log \in Seq(Row \cup {NoRow}) /\ n \in Nat /\ n >= 1
        /\ log' = Append(log, new)
    BY <1>2 DEF IInv, TypeOK, Logged, Writes
  <2>4. /\ Len(log') = n + 1 /\ log'[n + 1] = new
        /\ \A i \in 1 .. n : log'[i] = log[i]
    BY <2>2, <2>3
  <2>5. k.op = "update" => Number(log[n]) < Number(new)
    <3>1. Number(RowOf(k)) = k.version /\ k.lock \in Versions \cup {Null}
      BY <2>1, RowSentinelsAssumption DEF Call, Number, RowOf
    <3>2. k.version \in Nat \ {0} /\ (k.lock # Null => k.version > k.lock /\ k.lock \in Nat)
      BY <2>1, <3>1, NextIsAbove
    <3> QED
      BY <2>2, <3>1, <3>2 DEF Number
  <2>6. \A i \in 1 .. n : log[i] # NoRow => Number(log[i]) \in Nat
    <3>1. \A row \in Row : Number(row) \in Nat
      BY EditedVersionsAssumption DEF Number, Row
    <3>2. \A i \in 1 .. n : log[i] \in Row \cup {NoRow}
      BY <2>3
    <3> QED
      BY <3>1, <3>2
  <2>7. ASSUME NEW i \in 1 .. n + 1, NEW j \in 1 .. n + 1, i < j,
               \A m \in i .. j : log'[m] # NoRow
        PROVE  Number(log'[i]) < Number(log'[j])
    <3>1. CASE j <= n
      <4>1. i \in 1 .. n /\ j \in 1 .. n /\ \A m \in i .. j : log[m] # NoRow
        BY <2>3, <2>4, <2>7, <3>1
      <4>2. Number(log[i]) < Number(log[j])
        BY <2>7, <4>1 DEF IInv, Logged, Ascending
      <4> QED
        BY <2>4, <4>1, <4>2
    <3>2. CASE j = n + 1
      <4>1. i \in 1 .. n /\ n \in 1 .. n
        BY <2>3, <2>7, <3>2
      <4>2. \A m \in i .. n : log[m] # NoRow
        BY <2>3, <2>4, <2>7, <3>2
      <4>3. log[n] # NoRow /\ log[i] # NoRow /\ new # NoRow
        BY <2>3, <2>4, <2>7, <3>2, <4>1, <4>2
      <4>4. k.op = "update"
        BY <2>1, <2>2, <4>3 DEF Call, Ops
      <4>5. i = n \/ Number(log[i]) < Number(log[n])
        BY <2>3, <4>1, <4>2 DEF IInv, Logged, Ascending
      <4>6. Number(new) \in Nat
        BY <2>2, <4>3, EditedVersionsAssumption DEF Number, Row
      <4>7. Number(log[i]) < Number(new)
        BY <2>5, <2>6, <4>1, <4>3, <4>4, <4>5, <4>6
      <4> QED
        BY <2>4, <3>2, <4>1, <4>7
    <3> QED
      BY <2>3, <2>7, <3>1, <3>2
  <2>8. Len(log') >= 1 /\ log'[Len(log')] = table'[Object]
    BY <2>3, <2>4
  <2>9. Ascending'
    BY <2>4, <2>7 DEF Ascending, Number
  <2> QED
    BY <2>8, <2>9 DEF Logged
<1> QED
  BY <1>1, <1>2, Stores

(* What a form or a call is based on stays on record. *)
LEMMA BasisStays ==
    ASSUME NEW h, NEW g,
           \A i \in 1 .. Len(h) : i \in 1 .. Len(g) /\ g[i] = h[i]
    PROVE  /\ \A b, l : BasedOn(h, b, l) => BasedOn(g, b, l)
           /\ \A k : Known(h, k) => Known(g, k)
<1>1. \A b, l : BasedOn(h, b, l) => BasedOn(g, b, l)
  BY DEF BasedOn
<1> QED
  BY <1>1 DEF Known

LEMMA Unanswered ==
    ASSUME NEW h, NEW k \in Call, Known(h, k)
    PROVE  Known(h, [k EXCEPT !.heard = FALSE])
BY DEF Known, Call

LEMMA FormsStep ==
    ASSUME IInv, [Next]_vars
    PROVE  Forms'
<1>1. ASSUME NEW t \in Tabs,
             \/ basis'[t] = basis[t] /\ lock'[t] = lock[t]
             \/ BasedOn(log', basis'[t], lock'[t])
      PROVE  BasedOn(log', basis'[t], lock'[t])
  BY <1>1, LogGrows, BasisStays DEF IInv, Forms
<1>2. CASE basis' = basis /\ lock' = lock
  BY <1>1, <1>2 DEF Forms
<1>3. ASSUME NEW t \in Tabs, NEW c \in Connections, NEW named \in BOOLEAN,
             Open(t, c, named)
      PROVE  Forms'
  <2>1. BasedOn(log', basis'[t], lock'[t])
    BY <1>3 DEF Open, IInv, TypeOK, BasedOn
  <2>2. \A u \in Tabs \ {t} : basis'[u] = basis[u] /\ lock'[u] = lock[u]
    BY <1>3 DEF Open, IInv, TypeOK
  <2> QED
    BY <1>1, <2>1, <2>2 DEF Forms
<1>4. ASSUME NEW t \in Tabs, NEW c \in Connections, Answer(t, c)
      PROVE  Forms'
  <2> DEFINE k == call[t][c]
  <2>1. k \in Call /\ k.served /\ Known(log, k)
    BY <1>4 DEF Answer, Waits, IInv, TypeOK, CallsKnown
  <2>2. log \in Seq(Row \cup {NoRow}) /\ log' = log
    BY <1>4 DEF Answer, store, IInv, TypeOK
  <2>3. CASE Removed(t, c)
    BY <1>1, <2>3 DEF Removed, Forms
  <2>4. CASE Loaded(t, c) \/ Saved(t, c)
    <3>1. k.result \in 1 .. Len(log) /\ log[k.result] # NoRow
      BY <2>1, <2>4 DEF Known, Loaded, Saved
    <3>2. basis'[t] = k.result /\ lock'[t] = log[k.result].version
      BY <2>1, <2>4 DEF Known, Loaded, Saved, IInv, TypeOK
    <3>3. BasedOn(log', basis'[t], lock'[t])
      BY <2>2, <3>1, <3>2 DEF BasedOn
    <3>4. \A u \in Tabs \ {t} : basis'[u] = basis[u] /\ lock'[u] = lock[u]
      BY <2>4 DEF Loaded, Saved, IInv, TypeOK
    <3> QED
      BY <1>1, <3>3, <3>4 DEF Forms
  <2> QED
    BY <1>4, <2>3, <2>4 DEF Answer
<1> QED
  BY <1>2, <1>3, <1>4
  DEF Next, User, Network, Edit, Save, Remove, Serve, Fail, Vanish, Shows, form, vars

LEMMA CallsStep ==
    ASSUME IInv, [Next]_vars
    PROVE  CallsKnown'
<1>1. \A k : Known(log, k) => Known(log', k)
  BY LogGrows, BasisStays
<1>2. SUFFICES ASSUME NEW u \in Tabs, NEW d \in Connections, call'[u][d] # NoCall
               PROVE  Known(log', call'[u][d])
  BY DEF CallsKnown
<1>3. CASE call'[u][d] = call[u][d]
  BY <1>1, <1>2, <1>3 DEF IInv, CallsKnown
<1>4. CASE call[u][d] # NoCall /\ call'[u][d] = [call[u][d] EXCEPT !.heard = FALSE]
  <2>1. call[u][d] \in Call /\ Known(log', call[u][d])
    BY <1>1, <1>4 DEF IInv, TypeOK, CallsKnown
  <2> QED
    BY <1>4, <2>1, Unanswered
<1>5. ASSUME NEW t \in Tabs, NEW c \in Connections, Save(t, c) \/ Remove(t, c)
      PROVE  Known(log', call'[u][d])
  <2>1. PICK op \in {"insert", "update", "delete"} : Sends(t, c, op)
    BY <1>5 DEF Save, Remove
  <2>2. CASE u = t /\ d = c
    <3>1. call'[u][d] = NewCall(t, op)
      BY <2>1, <2>2 DEF Sends, IInv, TypeOK
    <3>2. Known(log, NewCall(t, op))
      BY DEF NewCall, Known, IInv, Forms
    <3> QED
      BY <1>1, <3>1, <3>2
  <2>3. CASE ~(u = t /\ d = c)
    <3>1. call'[u][d] = call[u][d]
      BY <2>1, <2>3 DEF Sends, IInv, TypeOK
    <3> QED
      BY <1>3, <3>1
  <2> QED
    BY <2>2, <2>3
<1>6. ASSUME NEW t \in Tabs, NEW c \in Connections, NEW named \in BOOLEAN,
             Open(t, c, named)
      PROVE  Known(log', call'[u][d])
  <2>1. CASE u # t
    <3>1. call'[u] = call[u]
      BY <1>6, <2>1 DEF Open, IInv, TypeOK
    <3> QED
      BY <1>3, <3>1
  <2>2. CASE u = t /\ call'[u][d] = Load
    BY <2>2 DEF Load, Known, BasedOn
  <2>3. CASE u = t /\ call'[u][d] # Load
    <3>1. call'[u][d] = Abandoned(t)[d]
      <4>1. \/ call'[u] = Abandoned(t)
            \/ call'[u] = [Abandoned(t) EXCEPT ![c] = Load]
        BY <1>6, <2>3 DEF Open, IInv, TypeOK
      <4> QED
        BY <2>3, <4>1 DEF Abandoned
    <3> QED
      BY <1>2, <1>4, <2>3, <3>1 DEF Abandoned
  <2> QED
    BY <2>1, <2>2, <2>3
<1>7. ASSUME NEW t \in Tabs, NEW c \in Connections, Serve(t, c)
      PROVE  Known(log', call'[u][d])
  <2> DEFINE k == call[t][c]
  <2>1. k \in Call /\ Known(log, k) /\ Known(log', k)
    BY <1>1, <1>7 DEF Serve, IInv, TypeOK, CallsKnown
  <2>2. PICK n \in Nat :
          /\ Served(t, c, n)
          /\ k.op # "delete" => n \in 1 .. Len(log') /\ log'[n] # NoRow
          /\ k.op \in {"insert", "update"} =>
                log'[n].version = k.version /\ log'[n].group = k.text
    <3>1. log \in Seq(Row \cup {NoRow}) /\ Len(log) \in Nat /\ Len(log) >= 1
          /\ log[Len(log)] = table[Object]
      BY DEF IInv, TypeOK, Logged
    <3>2. CASE Reads(t, c)
      BY <3>1, <3>2 DEF Reads
    <3>3. CASE Writes(t, c)
      <4>1. k.op # "load" /\ log' = Append(log, table'[Object]) /\ Served(t, c, Len(log) + 1)
        BY <3>3 DEF Writes
      <4>2. /\ table'[Object] \in Row \cup {NoRow}
            /\ table'[Object] = IF k.op = "delete" THEN NoRow ELSE RowOf(k)
        BY <2>1, <3>3, Applied, ObjectAssumption DEF Writes, IInv
      <4>3. Len(log') = Len(log) + 1 /\ log'[Len(log) + 1] = table'[Object]
        BY <3>1, <4>1, <4>2
      <4>4. k.op # "delete" => /\ table'[Object] # NoRow
                               /\ table'[Object].version = k.version
                               /\ table'[Object].group = k.text
        BY <2>1, <4>2, RowOfType DEF RowOf
      <4> QED
        BY <3>1, <4>1, <4>3, <4>4
    <3> QED
      BY <1>7, <3>2, <3>3 DEF Serve
  <2>3. CASE u = t /\ d = c
    <3>1. call'[u][d] = [k EXCEPT !.served = TRUE, !.result = n]
      BY <1>2, <2>2, <2>3 DEF Served, IInv, TypeOK
    <3> QED
      BY <2>1, <2>2, <3>1 DEF Known, Call
  <2>4. CASE ~(u = t /\ d = c)
    <3>1. call'[u][d] = call[u][d]
      BY <2>2, <2>4 DEF Served, IInv, TypeOK
    <3> QED
      BY <1>3, <3>1
  <2> QED
    BY <2>3, <2>4
<1>8. ASSUME NEW t \in Tabs, NEW c \in Connections,
             Answer(t, c) \/ Fail(t, c) \/ Vanish(t, c)
      PROVE  Known(log', call'[u][d])
  <2>1. call[t][c] # NoCall
    BY <1>8 DEF Answer, Fail, Vanish, Waits
  <2>2. \/ call'[u][d] = call[u][d]
        \/ call'[u][d] = NoCall
        \/ call[u][d] # NoCall /\ call'[u][d] = [call[u][d] EXCEPT !.heard = FALSE]
    <3>1. call \in [Tabs -> [Connections -> Call \cup {NoCall}]]
      BY DEF IInv, TypeOK
    <3>2. CASE Settle(t, c)
      BY <3>1, <3>2 DEF Settle
    <3>3. CASE Unheard(t, c)
      <4>1. CASE u = t /\ d = c
        BY <2>1, <3>1, <3>3, <4>1 DEF Unheard
      <4>2. CASE ~(u = t /\ d = c)
        BY <3>1, <3>3, <4>2 DEF Unheard
      <4> QED
        BY <4>1, <4>2
    <3> QED
      BY <1>8, <3>2, <3>3 DEF Answer, Fail, Vanish
  <2> QED
    BY <1>2, <1>3, <1>4, <2>2
<1>9. CASE call' = call
  BY <1>3, <1>9
<1> QED
  BY <1>5, <1>6, <1>7, <1>8, <1>9 DEF Next, User, Network, Edit, vars

(* The calls of a tab that still wait, and what they were sent with, are    *)
(* old ones, unless the tab sends one.                                      *)
LEMMA SavesStay ==
    ASSUME IInv, [Next]_vars, NEW u \in Tabs, NEW d \in Connections,
           call'[u][d] # NoCall, call'[u][d].heard, call'[u][d].op \in {"insert", "update"}
    PROVE  \/ /\ d \in Saving(u)
              /\ call'[u][d].text = call[u][d].text
           \/ \E op \in {"insert", "update"} :
                 Sends(u, d, op) /\ call'[u][d] = NewCall(u, op) /\ text' = text
                 /\ overtaken' = overtaken
<1>1. call \in [Tabs -> [Connections -> Call \cup {NoCall}]]
  BY DEF IInv, TypeOK
<1>2. ASSUME call'[u][d] = call[u][d]
      PROVE  d \in Saving(u) /\ call'[u][d].text = call[u][d].text
  BY <1>2 DEF Saving, Waits
<1>3. ASSUME NEW t \in Tabs, NEW c \in Connections, NEW op \in Ops, Sends(t, c, op),
             text' = text, overtaken' = overtaken, ~(u = t /\ d = c)
      PROVE  d \in Saving(u) /\ call'[u][d].text = call[u][d].text
  BY <1>1, <1>2, <1>3 DEF Sends
<1>4. ASSUME NEW op \in {"insert", "update", "delete"}, Sends(u, d, op), text' = text,
             overtaken' = overtaken
      PROVE  \E o \in {"insert", "update"} :
                 Sends(u, d, o) /\ call'[u][d] = NewCall(u, o) /\ text' = text
                 /\ overtaken' = overtaken
  <2>1. call'[u][d] = NewCall(u, op)
    BY <1>1, <1>4 DEF Sends
  <2>2. op \in {"insert", "update"}
    BY <2>1 DEF NewCall
  <2> QED
    BY <1>4, <2>1, <2>2
<1>5. ASSUME NEW t \in Tabs, NEW c \in Connections, Save(t, c) \/ Remove(t, c)
      PROVE  \E op \in {"insert", "update", "delete"} : Sends(t, c, op)
  BY <1>5 DEF Save, Remove
<1>6. ASSUME NEW t \in Tabs, NEW c \in Connections, NEW named \in BOOLEAN,
             Open(t, c, named)
      PROVE  call'[u][d] = call[u][d]
  <2>1. CASE u # t
    <3>1. call'[u] = call[u]
      BY <1>1, <1>6, <2>1 DEF Open
    <3> QED
      BY <3>1
  <2>2. CASE u = t
    <3>1. call'[u][d] \in {Load, Abandoned(t)[d]}
      <4>1. \/ call'[u] = Abandoned(t)
            \/ call'[u] = [Abandoned(t) EXCEPT ![c] = Load]
        BY <1>1, <1>6, <2>2 DEF Open
      <4> QED
        BY <4>1 DEF Abandoned
    <3>2. call'[u][d] # Load
      BY DEF Load
    <3>3. call'[u][d] = [call[u][d] EXCEPT !.heard = FALSE] /\ call[u][d] # NoCall
      BY <2>2, <3>1, <3>2 DEF Abandoned
    <3>4. call[u][d] \in Call
      BY <1>1, <3>3
    <3>5. ~call'[u][d].heard
      BY <3>3, <3>4 DEF Call
    <3> QED
      BY <3>5
  <2> QED
    BY <2>1, <2>2
<1>7. ASSUME NEW t \in Tabs, NEW c \in Connections, Serve(t, c)
      PROVE  d \in Saving(u) /\ call'[u][d].text = call[u][d].text
  <2>1. PICK n : Served(t, c, n)
    BY <1>7 DEF Serve, Reads, Writes
  <2>2. CASE u = t /\ d = c
    <3>1. call[u][d] \in Call
      BY <1>1, <1>7, <2>2 DEF Serve
    <3>2. call'[u][d] = IF call[u][d].heard
                        THEN [call[u][d] EXCEPT !.served = TRUE, !.result = n] ELSE NoCall
      BY <1>1, <2>1, <2>2 DEF Served
    <3>3. /\ call[u][d].heard
          /\ call'[u][d] = [call[u][d] EXCEPT !.served = TRUE, !.result = n]
      BY <3>2
    <3>4. /\ call'[u][d].op = call[u][d].op
          /\ call'[u][d].text = call[u][d].text
      BY <3>1, <3>3 DEF Call
    <3> QED
      BY <1>7, <2>2, <3>3, <3>4 DEF Saving, Waits, Serve
  <2>3. CASE ~(u = t /\ d = c)
    <3>1. call'[u][d] = call[u][d]
      BY <1>1, <2>1, <2>3 DEF Served
    <3> QED
      BY <1>2, <3>1
  <2> QED
    BY <2>2, <2>3
<1>8. ASSUME NEW t \in Tabs, NEW c \in Connections, Settle(t, c) \/ Unheard(t, c),
             call[t][c] # NoCall
      PROVE  call'[u][d] = call[u][d]
  <2>1. CASE u = t /\ d = c
    <3>1. call[u][d] \in Call
      BY <1>1, <1>8, <2>1
    <3>2. call'[u][d] \in {NoCall, [call[u][d] EXCEPT !.heard = FALSE]}
      BY <1>1, <1>8, <2>1 DEF Settle, Unheard
    <3>3. ~[call[u][d] EXCEPT !.heard = FALSE].heard
      BY <3>1 DEF Call
    <3> QED
      BY <3>2, <3>3
  <2>2. CASE ~(u = t /\ d = c)
    BY <1>1, <1>8, <2>2 DEF Settle, Unheard
  <2> QED
    BY <2>1, <2>2
<1>9. CASE call' = call
  BY <1>2, <1>9
<1>10. ASSUME NEW t \in Tabs, NEW c \in Connections, Answer(t, c) \/ Fail(t, c) \/ Vanish(t, c)
       PROVE  (Settle(t, c) \/ Unheard(t, c)) /\ call[t][c] # NoCall
  BY <1>10 DEF Answer, Fail, Vanish, Waits
<1>11. ASSUME NEW t \in Tabs, NEW c \in Connections, Save(t, c) \/ Remove(t, c)
       PROVE  text' = text /\ overtaken' = overtaken
  BY <1>11 DEF Save, Remove, form
<1>12. ASSUME NEW t \in Tabs, NEW c \in Connections, Save(t, c) \/ Remove(t, c)
       PROVE  \/ d \in Saving(u) /\ call'[u][d].text = call[u][d].text
              \/ \E o \in {"insert", "update"} :
                    Sends(u, d, o) /\ call'[u][d] = NewCall(u, o) /\ text' = text
                    /\ overtaken' = overtaken
  <2>1. PICK op \in {"insert", "update", "delete"} : Sends(t, c, op)
    BY <1>5, <1>12
  <2>2. CASE u = t /\ d = c
    BY <1>4, <1>11, <1>12, <2>1, <2>2
  <2>3. CASE ~(u = t /\ d = c)
    <3>1. op \in Ops
      BY DEF Ops
    <3> QED
      BY <1>3, <1>11, <1>12, <2>1, <2>3, <3>1
  <2> QED
    BY <2>2, <2>3
<1> QED
  BY <1>2, <1>6, <1>7, <1>8, <1>9, <1>10, <1>12 DEF Next, User, Network, Edit, vars

LEMMA TextsStep ==
    ASSUME IInv, [Next]_vars
    PROVE  TextsSent'
<1> SUFFICES ASSUME NEW u \in Tabs, ~overtaken'[u], NEW d \in Connections,
                    call'[u][d] # NoCall, call'[u][d].heard,
                    call'[u][d].op \in {"insert", "update"}
             PROVE  call'[u][d].text = text'[u]
  BY DEF TextsSent, Outdated, Saving, Waits
<1>1. CASE \E op \in {"insert", "update"} :
             Sends(u, d, op) /\ call'[u][d] = NewCall(u, op) /\ text' = text
             /\ overtaken' = overtaken
  BY <1>1 DEF NewCall
<1>2. CASE d \in Saving(u) /\ call'[u][d].text = call[u][d].text
  <2>1. \/ overtaken'[u] = overtaken[u] /\ text'[u] = text[u]
       \/ ~Outdated(u, text'[u])
    <3>1. ASSUME NEW t \in Tabs, NEW x, NEW flag, Shows(t, x, flag)
          PROVE  \/ overtaken'[u] = overtaken[u] /\ text'[u] = text[u]
                 \/ ~Outdated(u, text'[u])
      <4>1. text' = [text EXCEPT ![t] = x]
            /\ overtaken' = [overtaken EXCEPT ![t] = Outdated(t, x)]
        BY <3>1 DEF Shows
      <4>2. CASE u = t
        BY <4>1, <4>2 DEF IInv, TypeOK
      <4>3. CASE u # t
        BY <4>1, <4>3 DEF IInv, TypeOK
      <4> QED
        BY <4>2, <4>3
    <3>2. ASSUME NEW t \in Tabs, NEW c \in Connections, NEW named \in BOOLEAN,
                 Open(t, c, named)
          PROVE  \/ overtaken'[u] = overtaken[u] /\ text'[u] = text[u]
                 \/ d \notin Saving(u) \/ u = t
      BY <3>2 DEF Open, IInv, TypeOK
    <3>3. ASSUME NEW t \in Tabs, NEW c \in Connections, Saved(t, c)
          PROVE  \/ overtaken'[u] = overtaken[u] /\ text'[u] = text[u]
                 \/ ~Outdated(u, text'[u])
      <4>1. text' = text /\ overtaken' = [overtaken EXCEPT ![t] = Outdated(t, text[t])]
        BY <3>3 DEF Saved
      <4>2. CASE u = t
        BY <4>1, <4>2 DEF IInv, TypeOK
      <4>3. CASE u # t
        BY <4>1, <4>3 DEF IInv, TypeOK
      <4> QED
        BY <4>2, <4>3
    <3>4. ASSUME NEW t \in Tabs, NEW c \in Connections, NEW named \in BOOLEAN,
                 Open(t, c, named), u = t
          PROVE  FALSE
      <4>1. call'[u][d] \in {Load, Abandoned(t)[d]}
        <5>1. \/ call'[u] = Abandoned(t)
              \/ call'[u] = [Abandoned(t) EXCEPT ![c] = Load]
          BY <3>4 DEF Open, IInv, TypeOK
        <5> QED
          BY <5>1 DEF Abandoned
      <4>2. call'[u][d] # Load
        BY DEF Load
      <4>3. call[u][d] # NoCall /\ call'[u][d] = [call[u][d] EXCEPT !.heard = FALSE]
        BY <3>4, <4>1, <4>2 DEF Abandoned
      <4>4. call[u][d] \in Call
        BY <4>3 DEF IInv, TypeOK
      <4> QED
        BY <4>3, <4>4 DEF Call
    <3>5. ASSUME text' = text, overtaken' = overtaken
          PROVE  \/ overtaken'[u] = overtaken[u] /\ text'[u] = text[u]
                 \/ ~Outdated(u, text'[u])
      BY <3>5
    <3>6. ASSUME NEW t \in Tabs, NEW x \in Groups, Edit(t, x)
          PROVE  Shows(t, x, TRUE)
      BY <3>6 DEF Edit
    <3>7. ASSUME NEW t \in Tabs, NEW c \in Connections, Answer(t, c)
          PROVE  \/ overtaken'[u] = overtaken[u] /\ text'[u] = text[u]
                 \/ ~Outdated(u, text'[u])
      <4>1. CASE Loaded(t, c)
        BY <3>1, <4>1 DEF Loaded
      <4>2. CASE Removed(t, c)
        BY <3>5, <4>2 DEF Removed
      <4> QED
        BY <3>3, <3>7, <4>1, <4>2 DEF Answer
    <3>8. ASSUME NEW t \in Tabs, NEW c \in Connections,
                 Save(t, c) \/ Remove(t, c) \/ Serve(t, c) \/ Fail(t, c) \/ Vanish(t, c)
          PROVE  text' = text /\ overtaken' = overtaken
      BY <3>8 DEF Save, Remove, Serve, Fail, Vanish, form
    <3>9. CASE UNCHANGED vars
      BY <3>5, <3>9 DEF vars, form
    <3> QED
      BY <1>2, <3>1, <3>2, <3>4, <3>5, <3>6, <3>7, <3>8, <3>9 DEF Next, User, Network
  <2>2. ~Outdated(u, text[u]) \/ overtaken[u]
    BY DEF IInv, TextsSent
  <2> QED
    BY <1>2, <2>1, <2>2 DEF Outdated
<1> QED
  BY <1>1, <1>2, SavesStay

LEMMA BusyStep ==
    ASSUME IInv, [Next]_vars
    PROVE  BusyMeansSaving'
<1>1. call \in [Tabs -> [Connections -> Call \cup {NoCall}]] /\ busy \in [Tabs -> BOOLEAN]
  BY DEF IInv, TypeOK
<1> SUFFICES ASSUME NEW u \in Tabs, busy'[u]
             PROVE  \E d \in Connections : call'[u][d] # NoCall /\ call'[u][d].heard
                                           /\ call'[u][d].op \in {"insert", "update"}
  BY DEF BusyMeansSaving, Saving, Waits
<1>2. busy[u] => \E d \in Connections : call[u][d] # NoCall /\ call[u][d].heard
                                          /\ call[u][d].op \in {"insert", "update"}
  BY DEF IInv, BusyMeansSaving, Saving, Waits
<1>3. ASSUME busy[u], call'[u] = call[u]
      PROVE  \E d \in Connections : call'[u][d] # NoCall /\ call'[u][d].heard
                                    /\ call'[u][d].op \in {"insert", "update"}
  BY <1>2, <1>3
<1>4. ASSUME NEW t \in Tabs, NEW c \in Connections, Save(t, c)
      PROVE  \E d \in Connections : call'[u][d] # NoCall /\ call'[u][d].heard
                                    /\ call'[u][d].op \in {"insert", "update"}
  <2>1. PICK op \in {"insert", "update"} : Sends(t, c, op)
    BY <1>4 DEF Save
  <2>2. CASE u = t
    <3>1. call'[u][c] = NewCall(t, op)
      BY <1>1, <2>1, <2>2 DEF Sends
    <3>2. NewCall(t, op).heard /\ NewCall(t, op).op = op /\ NewCall(t, op) # NoCall
      <4>1. NewCall(t, op).heard /\ NewCall(t, op).op = op
        BY DEF NewCall
      <4>3. NewCall(t, op) \in Call
        BY <2>1, SentCall DEF IInv
      <4> QED
        BY <4>1, <4>3, NoCallAssumption
    <3> QED
      BY <3>1, <3>2
  <2>3. CASE u # t
    <3>1. call'[u] = call[u] /\ busy'[u] = busy[u]
      BY <1>1, <1>4, <2>1, <2>3 DEF Sends, Save
    <3> QED
      BY <1>3, <3>1
  <2> QED
    BY <2>2, <2>3
<1>5. ASSUME NEW t \in Tabs, NEW c \in Connections, Remove(t, c)
      PROVE  \E d \in Connections : call'[u][d] # NoCall /\ call'[u][d].heard
                                    /\ call'[u][d].op \in {"insert", "update"}
  <2>1. busy[u] /\ Sends(t, c, "delete")
    BY <1>5 DEF Remove, form
  <2>2. \A d \in Connections : call[u][d] # NoCall => call'[u][d] = call[u][d]
    BY <1>1, <2>1 DEF Sends
  <2> QED
    BY <1>2, <2>1, <2>2
<1>6. ASSUME NEW t \in Tabs, NEW c \in Connections, NEW named \in BOOLEAN,
             Open(t, c, named)
      PROVE  \E d \in Connections : call'[u][d] # NoCall /\ call'[u][d].heard
                                    /\ call'[u][d].op \in {"insert", "update"}
  <2>1. u # t /\ busy[u] /\ call'[u] = call[u]
    BY <1>1, <1>6 DEF Open
  <2> QED
    BY <1>3, <2>1
<1>7. ASSUME NEW t \in Tabs, NEW c \in Connections, Serve(t, c)
      PROVE  \E d \in Connections : call'[u][d] # NoCall /\ call'[u][d].heard
                                    /\ call'[u][d].op \in {"insert", "update"}
  <2>1. busy[u] /\ call[t][c] \in Call
    BY <1>1, <1>7 DEF Serve, form
  <2>2. PICK n \in Nat : Served(t, c, n)
    BY <1>7 DEF IInv, TypeOK, Serve, Reads, Writes
  <2>3. PICK d \in Connections : call[u][d] # NoCall /\ call[u][d].heard
                                 /\ call[u][d].op \in {"insert", "update"}
    BY <1>2, <2>1
  <2>4. CASE u = t /\ d = c
    <3>1. call'[u][d] = [call[u][d] EXCEPT !.served = TRUE, !.result = n]
      BY <1>1, <2>2, <2>3, <2>4 DEF Served
    <3>2. call'[u][d].heard /\ call'[u][d].op = call[u][d].op
      BY <2>1, <2>3, <2>4, <3>1 DEF Call
    <3>3. call'[u][d] # NoCall
      <4>1. [call[u][d] EXCEPT !.served = TRUE, !.result = n] \in Call
        BY <2>1, <2>4, CallTypes
      <4> QED
        BY <3>1, <4>1, NoCallAssumption
    <3> QED
      BY <2>3, <3>2, <3>3
  <2>5. CASE ~(u = t /\ d = c)
    <3>1. call'[u][d] = call[u][d]
      BY <1>1, <2>2, <2>5 DEF Served
    <3> QED
      BY <2>3, <3>1
  <2> QED
    BY <2>4, <2>5
<1>8. ASSUME NEW t \in Tabs, NEW c \in Connections, Answer(t, c) \/ Fail(t, c)
      PROVE  \E d \in Connections : call'[u][d] # NoCall /\ call'[u][d].heard
                                    /\ call'[u][d].op \in {"insert", "update"}
  <2>1. ShowsButton(t, c) /\ (Settle(t, c) \/ Unheard(t, c))
    BY <1>8 DEF Answer, Fail
  <2>2. busy[u] /\ (u = t => call[t][c].op \notin {"insert", "update"})
    BY <1>1, <2>1 DEF ShowsButton
  <2>3. PICK d \in Connections : call[u][d] # NoCall /\ call[u][d].heard
                                 /\ call[u][d].op \in {"insert", "update"}
    BY <1>2, <2>2
  <2>4. ~(u = t /\ d = c)
    BY <2>2, <2>3
  <2>5. call'[u][d] = call[u][d]
    BY <1>1, <2>1, <2>4 DEF Settle, Unheard
  <2> QED
    BY <2>3, <2>5
<1>9. ASSUME NEW t \in Tabs, NEW c \in Connections, Vanish(t, c)
      PROVE  \E d \in Connections : call'[u][d] # NoCall /\ call'[u][d].heard
                                    /\ call'[u][d].op \in {"insert", "update"}
  <2>1. busy[u] /\ Settle(t, c) /\ ~call[t][c].heard
    BY <1>9 DEF Vanish, form
  <2>2. \A d \in Connections :
          call[u][d] # NoCall /\ call[u][d].heard => call'[u][d] = call[u][d]
    BY <1>1, <2>1 DEF Settle
  <2> QED
    BY <1>2, <2>1, <2>2
<1>10. CASE busy' = busy /\ call' = call
  BY <1>3, <1>10
<1> QED
  BY <1>4, <1>5, <1>6, <1>7, <1>8, <1>9, <1>10
  DEF Next, User, Network, Edit, Shows, form, vars

(* A tab without a mark shows the content that its form is based on. *)
LEMMA ClosesStep ==
    ASSUME IInv, [Next]_vars
    PROVE  ClosesOnlyStored'
<1> SUFFICES ASSUME NEW u \in Tabs, ~altered'[u], ~overtaken'[u]
             PROVE  text'[u] = IF basis'[u] = 0 THEN Blank ELSE log'[basis'[u]].group
  BY DEF ClosesOnlyStored, StoredText
<1>1. ASSUME altered'[u] = altered[u], overtaken'[u] = overtaken[u],
             text'[u] = text[u], basis'[u] = basis[u]
      PROVE  text'[u] = IF basis'[u] = 0 THEN Blank ELSE log'[basis'[u]].group
  <2>1. text[u] = IF basis[u] = 0 THEN Blank ELSE log[basis[u]].group
    BY <1>1 DEF IInv, ClosesOnlyStored, StoredText
  <2>2. basis[u] # 0 => log'[basis[u]] = log[basis[u]]
    BY LogGrows DEF IInv, Forms, BasedOn
  <2> QED
    BY <1>1, <2>1, <2>2
<1>2. ASSUME NEW t \in Tabs, NEW x \in Groups, Edit(t, x)
      PROVE  text'[u] = IF basis'[u] = 0 THEN Blank ELSE log'[basis'[u]].group
  <2>1. /\ text' = [text EXCEPT ![t] = x] /\ altered' = [altered EXCEPT ![t] = TRUE]
        /\ overtaken' = [overtaken EXCEPT ![t] = Outdated(t, x)] /\ basis' = basis
    BY <1>2 DEF Edit, Shows
  <2>2. u # t
    BY <2>1 DEF IInv, TypeOK
  <2> QED
    BY <1>1, <2>1, <2>2 DEF IInv, TypeOK
<1>3. ASSUME NEW t \in Tabs, NEW c \in Connections, NEW named \in BOOLEAN,
             Open(t, c, named)
      PROVE  text'[u] = IF basis'[u] = 0 THEN Blank ELSE log'[basis'[u]].group
  <2>1. CASE u = t
    BY <1>3, <2>1 DEF Open, IInv, TypeOK
  <2>2. CASE u # t
    BY <1>1, <1>3, <2>2 DEF Open, IInv, TypeOK
  <2> QED
    BY <2>1, <2>2
<1>4. ASSUME NEW t \in Tabs, NEW c \in Connections, Answer(t, c)
      PROVE  text'[u] = IF basis'[u] = 0 THEN Blank ELSE log'[basis'[u]].group
  <2> DEFINE k == call[t][c]
  <2>1. k \in Call /\ k.served /\ Known(log, k) /\ log' = log
    BY <1>4 DEF Answer, Waits, IInv, TypeOK, CallsKnown, store
  <2>2. CASE Loaded(t, c)
    <3>1. k.result \in 1 .. Len(log)
      BY <2>1, <2>2 DEF Loaded, Known
    <3>2. /\ text' = [text EXCEPT ![t] = log[k.result].group]
          /\ altered' = [altered EXCEPT ![t] = FALSE]
          /\ overtaken' = [overtaken EXCEPT ![t] = Outdated(t, log[k.result].group)]
          /\ basis' = [basis EXCEPT ![t] = k.result]
      BY <2>2 DEF Loaded, Shows
    <3>3. CASE u = t
      BY <2>1, <3>1, <3>2, <3>3 DEF IInv, TypeOK
    <3>4. CASE u # t
      BY <1>1, <3>2, <3>4 DEF IInv, TypeOK
    <3> QED
      BY <3>3, <3>4
  <2>3. CASE Saved(t, c)
    <3>1. k.result \in 1 .. Len(log) /\ log[k.result].group = k.text
      BY <2>1, <2>3 DEF Saved, Known
    <3>2. /\ text' = text
          /\ altered' = [altered EXCEPT ![t] = FALSE]
          /\ overtaken' = [overtaken EXCEPT ![t] = Outdated(t, text[t])]
          /\ basis' = [basis EXCEPT ![t] = k.result]
      BY <2>3 DEF Saved
    <3>3. CASE u = t
      <4>1. ~Outdated(t, text[t])
        BY <3>2, <3>3 DEF IInv, TypeOK
      <4>2. k.text = text[t]
        BY <1>4, <2>3, <4>1 DEF Answer, Saved, Outdated, Saving
      <4>3. basis'[u] = k.result
        BY <3>2, <3>3 DEF IInv, TypeOK
      <4> QED
        BY <2>1, <3>1, <3>2, <3>3, <4>2, <4>3
    <3>4. CASE u # t
      BY <1>1, <3>2, <3>4 DEF IInv, TypeOK
    <3> QED
      BY <3>3, <3>4
  <2>4. CASE Removed(t, c)
    BY <1>1, <2>4 DEF Removed
  <2> QED
    BY <1>4, <2>2, <2>3, <2>4 DEF Answer
<1>5. CASE UNCHANGED <<text, altered, overtaken, basis>>
  BY <1>1, <1>5
<1>6. ASSUME NEW t \in Tabs, NEW c \in Connections,
             Save(t, c) \/ Remove(t, c) \/ Serve(t, c) \/ Fail(t, c) \/ Vanish(t, c)
      PROVE  UNCHANGED <<text, altered, overtaken, basis>>
  BY <1>6 DEF Save, Remove, Serve, Fail, Vanish, form
<1>7. CASE UNCHANGED vars
  BY <1>5, <1>7 DEF vars, form
<1> QED
  BY <1>2, <1>3, <1>4, <1>5, <1>6, <1>7 DEF Next, User, Network

-----------------------------------------------------------------------------
(* The invariant of PageEditor. *)
THEOREM Invariance == Spec => []IInv
<1>1. Init => IInv
  BY InitIInv
<1>2. IInv /\ [Next]_vars => IInv'
  BY TypeStep, LoggedStep, FormsStep, CallsStep, TextsStep, ClosesStep, BusyStep DEF IInv
<1> QED
  BY <1>1, <1>2, PTL DEF Spec

(* Forms, calls and the log hold values of their types, whatever is lost or *)
(* late.                                                                    *)
THEOREM TypeCorrect == Spec => []TypeOK
<1>1. IInv => TypeOK
  BY DEF IInv
<1> QED
  BY <1>1, Invariance, PTL

(* A tab that closes without a warning (confirmExit) loses no text, save    *)
(* one that was typed while a save was in flight.                           *)
THEOREM NoTextLost == Spec => []ClosesOnlyStored
<1>1. IInv => ClosesOnlyStored
  BY DEF IInv
<1> QED
  BY <1>1, Invariance, PTL

(* The button is never left showing a save that is over. *)
THEOREM ButtonReleased == Spec => []BusyMeansSaving
<1>1. IInv => BusyMeansSaving
  BY DEF IInv
<1> QED
  BY <1>1, Invariance, PTL

(* No update overwrites what its tab has not read, but for rows without a   *)
(* version and rows removed and created again.                              *)
LEMMA OverwriteStep ==
    ASSUME IInv, [Next]_vars
    PROVE  OverwritesWhatItRead
<1> SUFFICES ASSUME NEW u \in Tabs, NEW d \in Connections, Commits(u, d),
                    call[u][d].op = "update"
             PROVE  \/ call[u][d].basis = Len(log)
                    \/ table[Object].version = Null
                    \/ RemovedSince(call[u][d].basis)
  BY DEF OverwritesWhatItRead
<1>1. PICK t \in Tabs, c \in Connections :
        call[t][c] # NoCall /\ ~call[t][c].served /\ Writes(t, c)
  BY Stores DEF Commits
<1>2. u = t /\ d = c
  BY <1>1 DEF Commits, Writes, Served, IInv, TypeOK
<1> DEFINE k == call[u][d]
           n == Len(log)
<1>3. k \in Call /\ k.op = "update" /\ BasedOn(log, k.basis, k.lock)
  BY <1>1, <1>2 DEF IInv, TypeOK, CallsKnown, Known
<1>4. table[Object] # NoRow /\ table[Object].version \in {k.lock, Null}
  BY <1>1, <1>2, <1>3, Applied DEF Writes, IInv
<1>5. /\ log \in Seq(Row \cup {NoRow}) /\ n \in Nat /\ n >= 1
      /\ log[n] = table[Object] /\ Ascending
  BY DEF IInv, TypeOK, Logged
<1>6. SUFFICES ASSUME table[Object].version # Null, k.basis # n,
                      \A i \in k.basis .. n : i > 0 => log[i] # NoRow
               PROVE  FALSE
  BY DEF RemovedSince
<1>7. k.lock # Null /\ table[Object].version = k.lock
  BY <1>4, <1>6
<1>8. k.basis \in 1 .. n /\ log[k.basis].version = k.lock
  BY <1>3, <1>7 DEF BasedOn
<1>9. k.basis < n /\ n \in 1 .. n
  BY <1>5, <1>6, <1>8
<1>10. Number(log[k.basis]) < Number(log[n])
  BY <1>5, <1>6, <1>8, <1>9 DEF Ascending
<1>11. Number(log[k.basis]) = k.lock /\ Number(log[n]) = k.lock
  BY <1>5, <1>7, <1>8 DEF Number
<1>12. k.lock \in Nat
  BY <1>3, <1>7, EditedVersionsAssumption DEF Call
<1> QED
  BY <1>10, <1>11, <1>12

(* No edit of another user is overwritten unseen, whatever calls are late,  *)
(* lost or sent twice (the optimistic lock of the editors).                 *)
THEOREM EditsAreRead == Spec => NoBlindOverwrite
<1>1. IInv /\ [Next]_vars => [OverwritesWhatItRead]_vars
  BY OverwriteStep
<1> QED
  BY <1>1, Invariance, PTL DEF Spec, NoBlindOverwrite
=============================================================================
