------------------------- MODULE TransactionsProofs -------------------------
(***************************************************************************)
(* Theorems about Transactions, for any number of requests and connections *)
(* and any mixture of request kinds.                                       *)
(***************************************************************************)
EXTENDS TransactionsInvariant, FiniteSetTheorems, SequenceTheorems, TLAPS

(* ---------------------------- the operators ----------------------------- *)

LEMMA RequestType ==
    ASSUME TypeOK, NEW q \in Calls
    PROVE  /\ Op(q) \in {"select", "selectAny", "sql", "execute", "diff", "diff2q", "info"}
           /\ req[q].rows \in BOOLEAN
<1>1. req[q] \in Request
  BY DEF TypeOK
<1> QED
  BY <1>1 DEF Request, Op

LEMMA Kinds ==
    ASSUME TypeOK, NEW q \in Calls
    PROVE  /\ Borrows(q) \in {1, 2}
           /\ Statements(q) \in {1, 2}
           /\ Statements(q) = 2 <=> Op(q) \in {"diff", "diff2q"}
           /\ Borrows(q) = 2 <=> Op(q) = "diff2q"
           /\ Promises(q) => Op(q) \in {"sql", "execute", "diff"}
           /\ Op(q) \in {"execute", "diff"} => Promises(q)
           /\ Updates(q) => Op(q) = "sql" /\ Promises(q)
BY DEF Borrows, Statements, Promises, Updates

LEMMA Fixed ==
    ASSUME req' = req, NEW q \in Calls
    PROVE  /\ Op(q)' = Op(q)
           /\ Borrows(q)' = Borrows(q)
           /\ Statements(q)' = Statements(q)
           /\ (Updates(q)' <=> Updates(q))
           /\ (Promises(q)' <=> Promises(q))
           /\ Own(q)' = Own(q)
           /\ dbms' = dbms => (Implicit(q)' <=> Implicit(q))
<1>1. Op(q)' = Op(q)
  BY DEF Op
<1>2. Statements(q)' = Statements(q)
  BY <1>1 DEF Statements
<1> QED
  BY <1>1, <1>2 DEF Borrows, Updates, Promises, Own, Implicit

LEMMA MineIs ==
    ASSUME TypeOK, NEW q \in Calls
    PROVE  /\ Mine(q) \subseteq Connections
           /\ \A i \in 1 .. Len(held[q]) : held[q][i] \in Mine(q)
           /\ Len(held[q]) = 1 => Mine(q) = {held[q][1]}
           /\ held[q] = <<>> => Mine(q) = {}
<1>1. held[q] \in Seq(Connections) /\ DOMAIN held[q] = 1 .. Len(held[q])
  <2>1. held[q] \in Seq(Connections)
    BY DEF TypeOK
  <2> QED
    BY <2>1
<1>2. Len(held[q]) = 1 => Mine(q) = {held[q][1]}
  BY <1>1 DEF Mine
<1> QED
  BY <1>1, <1>2 DEF Mine

LEMMA AppendIs ==
    ASSUME NEW S, NEW s \in Seq(S), NEW c \in S
    PROVE  /\ Append(s, c) \in Seq(S)
           /\ Len(Append(s, c)) = Len(s) + 1 /\ Len(s) \in Nat
           /\ {Append(s, c)[i] : i \in DOMAIN Append(s, c)} = {s[i] : i \in DOMAIN s} \cup {c}
<1> DEFINE t == Append(s, c)
<1>1. /\ t \in Seq(S) /\ Len(t) = Len(s) + 1 /\ Len(s) \in Nat
      /\ \A i \in 1 .. Len(s) : t[i] = s[i]
      /\ t[Len(s) + 1] = c
  BY AppendProperties, LenProperties
<1>2. DOMAIN s = 1 .. Len(s) /\ DOMAIN t = 1 .. (Len(s) + 1)
  BY <1>1, LenProperties
<1> HIDE DEF t
<1>3. {t[i] : i \in DOMAIN t} = {s[i] : i \in DOMAIN s} \cup {c}
  BY <1>1, <1>2
<1> QED
  BY <1>1, <1>3 DEF t

(* ---------------------- what a handler leaves alone --------------------- *)

Same(r) ==
    /\ pc'[r] = pc[r] /\ held'[r] = held[r] /\ ran'[r] = ran[r]
    /\ (r \in flushed' <=> r \in flushed) /\ end'[r] = end[r]

(* The effects of a step of q on the other requests: it may run statements  *)
(* on its own connections, undo their transactions or commit them.          *)
Effects(q) ==
    /\ req' = req /\ dbms' = dbms
    /\ \A r \in Calls \ {q} : Same(r)
    /\ \A c \in Connections \ Mine(q) : open'[c] = open[c]
    /\ \A r \in Calls \ {q}, i \in {1, 2} :
          /\ \A c \in Connections : <<r, i>> \in open'[c] => <<r, i>> \in open[c]
          /\ <<r, i>> \in db' => \/ <<r, i>> \in db
                                 \/ \E c \in Mine(q) : <<r, i>> \in open[c]
    /\ db \subseteq db'

LEMMA Others ==
    ASSUME IInv, NEW q \in Calls, Effects(q), NEW r \in Calls, r # q
    PROVE  CallInv(r)' /\ Mine(r)' = Mine(r)
<1>1. Same(r) /\ req' = req /\ dbms' = dbms
  BY DEF Effects
<1>2. Mine(r)' = Mine(r)
  BY <1>1 DEF Same, Mine
<1>3. /\ Op(r)' = Op(r) /\ Borrows(r)' = Borrows(r) /\ Statements(r)' = Statements(r)
      /\ (Updates(r)' <=> Updates(r)) /\ (Promises(r)' <=> Promises(r)) /\ Own(r)' = Own(r)
  BY <1>1, Fixed
<1>4. /\ Undecided(r)' = Undecided(r) /\ LeftToClose(r)' = LeftToClose(r)
      /\ Applied(r)' = Applied(r) /\ (Implicit(r)' <=> Implicit(r))
  BY <1>1, <1>3, Fixed DEF Undecided, LeftToClose, Applied, Same
<1>5. CallInv(r)
  BY DEF IInv
<1>6. Control(r)'
  BY <1>1, <1>3, <1>5 DEF CallInv, Control, Same
<1>7. Pending(r)'
  <2> SUFFICES ASSUME Promises(r), pc[r] \in {"run", "write", "commit"}
               PROVE  \A i \in 1 .. ran[r] : <<r, i>> \in open'[held[r][1]] \cup db'
    BY <1>1, <1>3 DEF Pending, Same
  <2>1. held[r][1] \in Mine(r) /\ held[r][1] \in Connections
    <3>1. Len(held[r]) = Borrows(r)
      BY <1>5 DEF CallInv, Control
    <3>2. 1 \in 1 .. Len(held[r])
      BY <3>1, Kinds DEF IInv
    <3> QED
      BY <3>2, MineIs DEF IInv
  <2>2. held[r][1] \notin Mine(q)
    BY <2>1 DEF IInv, Borrowed
  <2>3. open'[held[r][1]] = open[held[r][1]]
    BY <2>1, <2>2 DEF Effects
  <2> QED
    BY <1>5, <2>3 DEF CallInv, Pending, Effects
<1>8. Stored(r)'
  BY <1>3, <1>4, <1>5 DEF CallInv, Stored, Effects
<1>9. OpenOrigin(r)'
  BY <1>1, <1>2, <1>3, <1>4, <1>5 DEF CallInv, OpenOrigin, Same, Effects
<1>10. DbOrigin(r)'
  <2> SUFFICES ASSUME NEW i \in {1, 2}, <<r, i>> \in db'
               PROVE  \/ <<r, i>> \in db
                      \/ pc[r] = "done" /\ LeftToClose(r)
    BY <1>1, <1>3, <1>4, <1>5 DEF CallInv, DbOrigin, Same
  <2>1. CASE <<r, i>> \in db
    BY <2>1
  <2>2. ASSUME NEW c \in Mine(q), <<r, i>> \in open[c]
        PROVE  pc[r] = "done" /\ LeftToClose(r)
    <3>1. c \in Connections /\ c \notin Mine(r)
      BY MineIs DEF IInv, Borrowed
    <3> QED
      BY <1>5, <2>2, <3>1 DEF CallInv, OpenOrigin
  <2> QED
    BY <2>1, <2>2 DEF Effects
<1> QED
  BY <1>2, <1>6, <1>7, <1>8, <1>9, <1>10 DEF CallInv

LEMMA Combined ==
    ASSUME IInv, NEW q \in Calls, Effects(q), TypeOK', Borrowed', CallInv(q)'
    PROVE  IInv'
<1>1. \A r \in Calls : CallInv(r)'
  BY Others
<1> QED
  BY <1>1 DEF IInv

(* Most steps leave the connections with their borrowers. *)
LEMMA NothingMoved ==
    ASSUME IInv, NEW q \in Calls, Effects(q), TypeOK', held' = held, pool' = pool,
           CallInv(q)'
    PROVE  IInv'
<1>1. \A r \in Calls : Mine(r)' = Mine(r)
  BY DEF Mine
<1>2. Borrowed'
  BY <1>1 DEF IInv, Borrowed
<1> QED
  BY <1>2, Combined

(* The operators of q itself, after a step that keeps its connections. *)
LEMMA Kept ==
    ASSUME IInv, NEW q \in Calls, req' = req, held' = held
    PROVE  /\ Mine(q)' = Mine(q) /\ Op(q)' = Op(q) /\ Borrows(q)' = Borrows(q)
           /\ Statements(q)' = Statements(q) /\ (Updates(q)' <=> Updates(q))
           /\ (Promises(q)' <=> Promises(q)) /\ Own(q)' = Own(q)
           /\ dbms' = dbms => (Implicit(q)' <=> Implicit(q))
BY Fixed DEF Mine

(* ------------------------- the initial states --------------------------- *)

LEMMA InitInv == Init => IInv
<1> SUFFICES ASSUME Init
             PROVE  IInv
  OBVIOUS
<1>1. TypeOK
  <2>1. held \in [Calls -> Seq(Connections)]
    <3>1. <<>> \in Seq(Connections)
      OBVIOUS
    <3> QED
      BY <3>1 DEF Init
  <2>2. dbms \in Database /\ req \in [Calls -> Request]
    BY RequestsAssumption, DatabasesAssumption DEF Init
  <2>3. open \in [Connections -> SUBSET Changes] /\ db \subseteq Changes
    BY DEF Init
  <2>4. pc \in [Calls -> {"borrow", "run", "write", "commit", "answer", "close",
                          "hooks", "done"}]
    BY DEF Init
  <2>5. end \in [Calls -> {"", "ok", "sql", "request", "server"}]
    BY DEF Init
  <2>6. flushed \subseteq Calls
    BY DEF Init
  <2>8. ran \in [Calls -> 0 .. 2]
    <3>1. 0 \in 0 .. 2
      OBVIOUS
    <3> QED
      BY <3>1 DEF Init
  <2>7. pool \subseteq Connections
    BY DEF Init
  <2> QED
    BY <2>1, <2>2, <2>3, <2>4, <2>5, <2>6, <2>7, <2>8 DEF TypeOK
<1>2. \A q \in Calls : held[q] = <<>> /\ Mine(q) = {}
  BY <1>1, MineIs DEF Init
<1>3. Borrowed
  BY <1>2 DEF Borrowed
<1>4. ASSUME NEW q \in Calls
      PROVE  Control(q)
  <2>1. pc[q] = "borrow" /\ ran[q] = 0 /\ end[q] = "" /\ q \notin flushed
    BY DEF Init
  <2>2. Len(held[q]) = 0
    BY <1>2
  <2>3. Borrows(q) > 0
    BY <1>1, Kinds
  <2> QED
    BY <2>1, <2>2, <2>3 DEF Control
<1>5. \A q \in Calls : Pending(q) /\ Stored(q) /\ OpenOrigin(q) /\ DbOrigin(q)
  BY DEF Init, Pending, Stored, Applied, OpenOrigin, DbOrigin
<1> QED
  BY <1>1, <1>3, <1>4, <1>5 DEF IInv, CallInv

(* ------------------------------- the steps ------------------------------ *)

LEMMA BorrowStep ==
    ASSUME IInv, NEW q \in Calls, Borrow(q)
    PROVE  IInv'
<1>1. PICK c \in pool :
        /\ pool' = pool \ {c}
        /\ held' = [held EXCEPT ![q] = Append(@, c)]
  BY DEF Borrow
<1>2. /\ pc[q] = "borrow" /\ ran[q] = 0 /\ Len(held[q]) < Borrows(q) /\ end[q] = ""
      /\ (Updates(q) => q \notin flushed)
  BY DEF Borrow, IInv, CallInv, Control
<1>13. c \in Connections
  BY DEF IInv, TypeOK
<1>3. /\ held[q] \in Seq(Connections) /\ held'[q] \in Seq(Connections)
      /\ Len(held'[q]) = Len(held[q]) + 1 /\ Len(held[q]) \in Nat
      /\ Mine(q)' = Mine(q) \cup {c}
  <2>1. held \in [Calls -> Seq(Connections)]
    BY DEF IInv, TypeOK
  <2>2. held[q] \in Seq(Connections) /\ held'[q] = Append(held[q], c)
    BY <1>1, <2>1
  <2> DEFINE was == held[q]
             now == Append(was, c)
  <2>3. was \in Seq(Connections) /\ c \in Connections
    BY <1>13, <2>2
  <2> HIDE DEF was
  <2>4. {now[i] : i \in DOMAIN now} = {was[i] : i \in DOMAIN was} \cup {c}
    BY <2>3, AppendIs
  <2>5. now \in Seq(Connections) /\ Len(now) = Len(was) + 1 /\ Len(was) \in Nat
    BY <2>3, AppendIs
  <2>6. held'[q] = now
    BY <2>2 DEF was
  <2> HIDE DEF now
  <2> QED
    BY <2>2, <2>4, <2>5, <2>6 DEF Mine, was
<1>4. /\ pc' = [pc EXCEPT ![q] = IF Len(held[q]) + 1 = Borrows(q) THEN "run" ELSE "borrow"]
      /\ req' = req /\ dbms' = dbms /\ ran' = ran /\ flushed' = flushed
      /\ end' = end /\ open' = open /\ db' = db
  BY DEF Borrow, Goes
<1>5. TypeOK'
  <2>1. held' \in [Calls -> Seq(Connections)]
    BY <1>1, <1>3 DEF IInv, TypeOK
  <2>2. pc' \in [Calls -> {"borrow", "run", "write", "commit", "answer", "close",
                           "hooks", "done"}]
    BY <1>4 DEF IInv, TypeOK
  <2>3. pool' \subseteq Connections
    BY <1>1 DEF IInv, TypeOK
  <2> QED
    BY <1>4, <2>1, <2>2, <2>3 DEF IInv, TypeOK
<1>6. Effects(q)
  BY <1>1, <1>4 DEF Effects, Same, IInv, TypeOK
<1>8. Borrowed'
  BY <1>1, <1>3, <1>6, Others DEF IInv, Borrowed
<1>9. pc'[q] \in {"run", "borrow"} /\ (pc'[q] = "run" <=> Len(held'[q]) = Borrows(q))
  BY <1>3, <1>4 DEF IInv, TypeOK
<1>10. Control(q)'
  <2>1. Borrows(q)' = Borrows(q) /\ Borrows(q) \in {1, 2}
    BY <1>4, Fixed, Kinds DEF IInv
  <2>2. Len(held'[q]) \in Nat /\ Len(held'[q]) <= Borrows(q)
    <3>1. Len(held[q]) < Borrows(q)
      BY <1>2
    <3> QED
      BY <1>3, <2>1, <3>1
  <2>3. pc'[q] = "borrow" => Len(held'[q]) < Borrows(q)
    BY <1>9, <2>1, <2>2
  <2> QED
    <3>1. Updates(q)' => q \notin flushed'
      BY <1>2, <1>4, Fixed
    <3>2. ran'[q] = 0 /\ end'[q] = ""
      BY <1>2, <1>4
    <3>3. 0 < Statements(q)'
      <4>1. Statements(q)' = Statements(q) /\ Statements(q) \in {1, 2}
        BY <1>4, Fixed, Kinds DEF IInv
      <4> QED
        BY <4>1
    <3> QED
      BY <1>9, <2>1, <2>3, <3>1, <3>2, <3>3 DEF Control
<1>11. Pending(q)' /\ Stored(q)' /\ OpenOrigin(q)' /\ DbOrigin(q)'
  <2>1. CallInv(q)
    BY DEF IInv
  <2>2. Pending(q)'
    <3>1. ran'[q] = 0
      BY <1>2, <1>4
    <3> QED
      BY <3>1 DEF Pending
  <2>3. Stored(q)'
    BY <1>2, <1>4, <1>9, <2>1, Fixed DEF CallInv, Stored, Applied
  <2>4. OpenOrigin(q)'
    BY <1>2, <1>4, <2>1, Fixed DEF CallInv, OpenOrigin
  <2>5. DbOrigin(q)'
    BY <1>2, <1>4, <2>1, Fixed DEF CallInv, DbOrigin
  <2> QED
    BY <2>2, <2>3, <2>4, <2>5
<1> QED
  BY <1>5, <1>6, <1>8, <1>10, <1>11, Combined DEF CallInv

(* A handler that is over has nothing to keep to but its flushed answer. *)
LEMMA OverControl ==
    ASSUME IInv, NEW q \in Calls, req' = req, Updates(q) => q \notin flushed',
           pc'[q] \in {"close", "done"}
    PROVE  Control(q)'
BY Fixed DEF Control

(* An update is not answered before it is committed. *)
LEMMA NotFlushed ==
    ASSUME IInv, NEW q \in Calls, flushed' = flushed
    PROVE  Updates(q) => q \notin flushed'
BY DEF IInv, CallInv, Control

(* A handler ends and leaves its transactions to close(). *)
LEMMA Ended ==
    ASSUME IInv, NEW q \in Calls, NEW how \in {"ok", "sql", "request", "server"},
           pc' = [pc EXCEPT ![q] = "close"], end' = [end EXCEPT ![q] = how],
           UNCHANGED <<dbms, req, held, ran, flushed, pool, open, db>>,
           \/ pc[q] = "borrow" /\ (how = "ok" => ~Promises(q))
           \/ pc[q] = "write" /\ how # "sql" /\ (how = "ok" => ~Promises(q))
           \/ pc[q] = "answer" /\ how = "ok"
    PROVE  IInv'
<1>1. CallInv(q) /\ end[q] = ""
  BY DEF IInv, CallInv, Control
<1>2. pc'[q] = "close" /\ end'[q] = how
  BY DEF IInv, TypeOK
<1>3. TypeOK'
  BY DEF IInv, TypeOK
<1>4. Effects(q)
  BY DEF Effects, Same, IInv, TypeOK
<1>5. Control(q)'
  BY <1>2, OverControl, NotFlushed
<1>6. Pending(q)'
  BY <1>2 DEF Pending
<1>7. Stored(q)'
  BY <1>1, <1>2, Kept DEF CallInv, Stored, Applied
<1>8. OpenOrigin(q)'
  <2> SUFFICES ASSUME NEW c \in Connections, NEW i \in {1, 2}, <<q, i>> \in open[c]
               PROVE  Op(q)' # "info" /\ c \in Mine(q)' /\ Undecided(q)'
    BY <1>2 DEF OpenOrigin
  <2>1. Op(q) # "info" /\ c \in Mine(q) /\ pc[q] = "write"
    BY <1>1 DEF CallInv, OpenOrigin
  <2> QED
    BY <1>2, <2>1, Kept DEF Undecided
<1>9. DbOrigin(q)'
  <2> SUFFICES ASSUME NEW i \in {1, 2}, <<q, i>> \in db
               PROVE  (Promises(q)' /\ end'[q] = "ok") \/ Implicit(q)'
    BY <1>2 DEF DbOrigin
  <2>1. (Promises(q) /\ pc[q] = "answer") \/ Implicit(q)
    BY <1>1 DEF CallInv, DbOrigin
  <2> QED
    BY <1>2, <2>1, Kept
<1> QED
  BY <1>3, <1>4, <1>5, <1>6, <1>7, <1>8, <1>9, NothingMoved DEF CallInv

LEMMA BorrowFailsStep ==
    ASSUME IInv, NEW q \in Calls, BorrowFails(q)
    PROVE  IInv'
<1> DEFINE how == IF Op(q) = "info" THEN "ok" ELSE IF Op(q) = "selectAny" THEN "server"
                  ELSE "sql"
<1>1. how = "ok" => ~Promises(q)
  BY Kinds DEF IInv
<1>2. /\ how \in {"ok", "sql", "request", "server"}
      /\ pc[q] = "borrow"
      /\ pc' = [pc EXCEPT ![q] = "close"] /\ end' = [end EXCEPT ![q] = how]
      /\ UNCHANGED <<dbms, req, held, ran, flushed, pool, open, db>>
  BY DEF BorrowFails, Ends, Goes
<1> HIDE DEF how
<1> QED
  BY <1>1, <1>2, Ended

LEMMA WriteFailsStep ==
    ASSUME IInv, NEW q \in Calls, WriteFails(q)
    PROVE  IInv'
<1>1. PICK how \in {"request", "server"} : Ends(q, how)
  BY DEF WriteFails
<1> QED
  BY <1>1, Ended DEF WriteFails, Ends, Goes

LEMMA AnswerStep ==
    ASSUME IInv, NEW q \in Calls, Answer(q)
    PROVE  IInv'
BY Ended DEF Answer, Ends, Goes

LEMMA WriteStep ==
    ASSUME IInv, NEW q \in Calls, Write(q)
    PROVE  IInv'
<1>1. /\ pc[q] = "write" /\ CallInv(q) /\ end[q] = ""
      /\ UNCHANGED <<dbms, req, held, ran, flushed, pool, open, db>>
  BY DEF Write, IInv, CallInv, Control
<1>2. CASE Op(q) # "execute"
  <2>1. ~Promises(q)
    BY <1>1, <1>2 DEF CallInv, Control, Promises
  <2> QED
    BY <1>1, <1>2, <2>1, Ended DEF Write, Ends, Goes
<1>3. CASE Op(q) = "execute"
  <2>1. pc' = [pc EXCEPT ![q] = "commit"] /\ end' = end
    BY <1>1, <1>3 DEF Write, Goes
  <2>2. pc'[q] = "commit" /\ Promises(q)
    BY <1>3, <2>1, Kinds DEF IInv, TypeOK
  <2>3. TypeOK'
    BY <1>1, <2>1 DEF IInv, TypeOK
  <2>4. Effects(q)
    BY <1>1, <2>1 DEF Effects, Same, IInv, TypeOK
  <2>5. Control(q)'
    BY <1>1, <2>1, <2>2, Kept DEF CallInv, Control
  <2>6. Pending(q)'
    BY <1>1, <2>2, Kept DEF CallInv, Pending
  <2>7. Stored(q)'
    BY <1>1, <1>3, <2>1, <2>2, Kept DEF CallInv, Stored, Applied
  <2>8. OpenOrigin(q)'
    BY <1>1, <2>2, Kept DEF CallInv, OpenOrigin
  <2>9. DbOrigin(q)'
    BY <1>1, Kept DEF CallInv, DbOrigin
  <2> QED
    BY <1>1, <2>3, <2>4, <2>5, <2>6, <2>7, <2>8, <2>9, NothingMoved DEF CallInv
<1> QED
  BY <1>2, <1>3

LEMMA InfoFailsStep ==
    ASSUME IInv, NEW q \in Calls, InfoFails(q)
    PROVE  IInv'
<1>1. /\ pc[q] = "run" /\ Op(q) = "info" /\ CallInv(q)
      /\ pc' = [pc EXCEPT ![q] = "done"] /\ end' = [end EXCEPT ![q] = "ok"]
      /\ UNCHANGED <<dbms, req, held, ran, flushed, pool, open, db>>
  BY DEF InfoFails, Goes, IInv
<1>2. pc'[q] = "done" /\ ~Promises(q)
  BY <1>1, Kinds DEF IInv, TypeOK
<1>3. TypeOK'
  BY <1>1 DEF IInv, TypeOK
<1>4. Effects(q)
  BY <1>1 DEF Effects, Same, IInv, TypeOK
<1>5. Control(q)'
  BY <1>1, <1>2, OverControl, NotFlushed
<1>6. Pending(q)' /\ Stored(q)'
  BY <1>1, <1>2, Kept DEF Pending, Stored
<1>7. OpenOrigin(q)'
  BY <1>1 DEF CallInv, OpenOrigin
<1>8. DbOrigin(q)'
  BY <1>1, Kept DEF CallInv, DbOrigin
<1> QED
  BY <1>1, <1>3, <1>4, <1>5, <1>6, <1>7, <1>8, NothingMoved DEF CallInv

LEMMA FlushStep ==
    ASSUME IInv, NEW q \in Calls, Flush(q)
    PROVE  IInv'
<1>1. /\ pc[q] = "write" \/ (pc[q] = "answer" /\ Op(q) = "diff")
      /\ flushed' = flushed \cup {q}
      /\ CallInv(q)
      /\ UNCHANGED <<dbms, req, pc, held, ran, end, pool, open, db>>
  BY DEF Flush, IInv
<1>2. ~Updates(q)
  BY <1>1, Kinds DEF IInv, CallInv, Control
<1>3. TypeOK'
  BY <1>1 DEF IInv, TypeOK
<1>4. Effects(q)
  BY <1>1 DEF Effects, Same
<1>5. Control(q)'
  BY <1>1, <1>2, Kept DEF CallInv, Control
<1>6. Pending(q)'
  BY <1>1, Kept DEF CallInv, Pending
<1>7. Stored(q)'
  <2>1. Applied(q)' => Applied(q)
    BY <1>1, Kept DEF Applied, CallInv, Control
  <2> QED
    BY <1>1, <2>1, Kept DEF CallInv, Stored
<1>8. OpenOrigin(q)'
  BY <1>1, Kept DEF CallInv, OpenOrigin, Undecided, LeftToClose
<1>9. DbOrigin(q)'
  BY <1>1, Kept DEF CallInv, DbOrigin, LeftToClose
<1> QED
  BY <1>1, <1>3, <1>4, <1>5, <1>6, <1>7, <1>8, <1>9, NothingMoved DEF CallInv

LEMMA HooksStep ==
    ASSUME IInv, NEW q \in Calls, Hooks(q)
    PROVE  IInv'
<1>1. PICK how \in {"ok", "request", "server"} : end' = [end EXCEPT ![q] = how]
  BY DEF Hooks
<1>2. /\ pc[q] = "hooks" /\ Op(q) = "diff" /\ end[q] = "ok" /\ CallInv(q)
      /\ pc' = [pc EXCEPT ![q] = "done"]
      /\ UNCHANGED <<dbms, req, held, ran, flushed, pool, open, db>>
  BY DEF Hooks, Goes, IInv, CallInv, Control
<1>3. pc'[q] = "done" /\ end'[q] = how /\ Op(q)' = "diff" /\ Promises(q)
  BY <1>1, <1>2, Kept, Kinds DEF IInv, TypeOK
<1>4. TypeOK'
  BY <1>1, <1>2 DEF IInv, TypeOK
<1>5. Effects(q)
  BY <1>1, <1>2 DEF Effects, Same, IInv, TypeOK
<1>6. Control(q)'
  BY <1>2, <1>3, OverControl, NotFlushed
<1>7. Pending(q)'
  BY <1>3 DEF Pending
<1>8. Stored(q)'
  BY <1>2, <1>3, Kept DEF CallInv, Stored, Applied
<1>9. OpenOrigin(q)'
  BY <1>2, <1>3 DEF CallInv, OpenOrigin
<1>10. DbOrigin(q)'
  BY <1>3 DEF DbOrigin
<1> QED
  BY <1>2, <1>4, <1>5, <1>6, <1>7, <1>8, <1>9, <1>10, NothingMoved DEF CallInv

(* A statement runs on a connection of its request. *)
LEMMA ConnectionIs ==
    ASSUME IInv, NEW q \in Calls, pc[q] = "run"
    PROVE  /\ ConnectionOf(q, ran[q] + 1) \in Mine(q)
           /\ Promises(q) => ConnectionOf(q, ran[q] + 1) = held[q][1]
           /\ ran[q] \in 0 .. 2 /\ ran[q] + 1 \in {1, 2} /\ ran[q] + 1 <= Statements(q)
<1>1. Len(held[q]) = Borrows(q) /\ ran[q] < Statements(q)
  BY DEF IInv, CallInv, Control
<1>2. ran[q] \in 0 .. 2
  BY DEF IInv, TypeOK
<1>3. Statements(q) \in {1, 2} /\ Borrows(q) \in {1, 2}
  BY Kinds DEF IInv
<1>4. ran[q] + 1 \in {1, 2} /\ ran[q] + 1 <= Statements(q)
  BY <1>1, <1>2, <1>3
<1>5. 1 \in 1 .. Len(held[q])
  BY <1>1, <1>3
<1>6. CASE Op(q) = "diff2q"
  <2>1. Borrows(q) = 2 /\ ~Promises(q)
    BY <1>6, Kinds DEF IInv
  <2>2. ran[q] + 1 \in 1 .. Len(held[q])
    BY <1>1, <1>4, <2>1
  <2>3. ConnectionOf(q, ran[q] + 1) = held[q][ran[q] + 1]
    BY <1>6 DEF ConnectionOf
  <2> QED
    BY <1>2, <1>4, <2>1, <2>2, <2>3, MineIs DEF IInv
<1>7. CASE Op(q) # "diff2q"
  <2>1. ConnectionOf(q, ran[q] + 1) = held[q][1]
    BY <1>7 DEF ConnectionOf
  <2> QED
    BY <1>2, <1>4, <1>5, <2>1, MineIs DEF IInv
<1> QED
  BY <1>6, <1>7

(* Where a handler is after a statement. *)
LEMMA AfterRunIs ==
    ASSUME IInv, NEW q \in Calls, Run(q)
    PROVE  /\ pc' \in [Calls -> {"borrow", "run", "write", "commit", "answer", "close",
                                 "hooks", "done"}]
           /\ end' \in [Calls -> {"", "ok", "sql", "request", "server"}]
           /\ \A r \in Calls \ {q} : pc'[r] = pc[r] /\ end'[r] = end[r]
           /\ \/ /\ pc'[q] = "run" /\ end'[q] = end[q] /\ ran[q] + 1 < Statements(q)
              \/ /\ pc'[q] = "close" /\ end'[q] = "ok" /\ Op(q) = "info"
              \/ /\ pc'[q] = "close" /\ end'[q] = "request"
              \/ /\ pc'[q] = "commit" /\ end'[q] = end[q] /\ Promises(q)
                 /\ ~(ran[q] + 1 < Statements(q))
              \/ /\ pc'[q] = "write" /\ end'[q] = end[q] /\ ~Updates(q) /\ Op(q) # "diff"
                 /\ ~(ran[q] + 1 < Statements(q))
<1> DEFINE more == ran[q] + 1 < Statements(q)
<1>1. pc \in [Calls -> {"borrow", "run", "write", "commit", "answer", "close",
                        "hooks", "done"}]
      /\ end \in [Calls -> {"", "ok", "sql", "request", "server"}]
  BY DEF IInv, TypeOK
<1>2. \/ more /\ pc' = [pc EXCEPT ![q] = "run"] /\ end' = end
      \/ ~more /\ Op(q) = "info" /\ pc' = [pc EXCEPT ![q] = "close"]
               /\ end' = [end EXCEPT ![q] = "ok"]
      \/ ~more /\ pc' = [pc EXCEPT ![q] = "close"] /\ end' = [end EXCEPT ![q] = "request"]
      \/ ~more /\ (Updates(q) \/ Op(q) = "diff") /\ pc' = [pc EXCEPT ![q] = "commit"]
               /\ end' = end
      \/ ~more /\ ~(Updates(q) \/ Op(q) = "diff") /\ pc' = [pc EXCEPT ![q] = "write"]
               /\ end' = end
  BY DEF Run, AfterRun, Goes, Ends
<1>3. Updates(q) \/ Op(q) = "diff" => Promises(q)
  BY Kinds DEF IInv
<1> HIDE DEF more
<1> QED
  BY <1>1, <1>2, <1>3 DEF more

LEMMA RunStep ==
    ASSUME IInv, NEW q \in Calls, Run(q)
    PROVE  IInv'
<1> DEFINE n == ran[q] + 1
           d == ConnectionOf(q, n)
<1>1. /\ pc[q] = "run" /\ CallInv(q) /\ ran' = [ran EXCEPT ![q] = n]
      /\ Changed(q, d, <<q, n>>)
      /\ UNCHANGED <<dbms, req, held, flushed, pool>>
  BY DEF Run, IInv
<1>2. d \in Mine(q) /\ d \in Connections /\ n \in {1, 2}
  BY <1>1, ConnectionIs, MineIs DEF IInv
<1>a. Promises(q) => d = held[q][1]
  BY <1>1, ConnectionIs
<1>b. ran[q] \in 0 .. 2 /\ n <= Statements(q)
  BY <1>1, ConnectionIs
<1>3. end[q] = "" /\ Len(held[q]) = Borrows(q) /\ (Updates(q) => q \notin flushed)
  BY <1>1 DEF CallInv, Control
<1>4. ran'[q] = n /\ \A r \in Calls \ {q} : ran'[r] = ran[r]
  BY <1>1 DEF IInv, TypeOK
<1> HIDE DEF n, d
<1>5. open \in [Connections -> SUBSET Changes] /\ db \subseteq Changes /\ <<q, n>> \in Changes
  BY <1>2 DEF IInv, TypeOK, Changes
<1>6. /\ open' \in [Connections -> SUBSET Changes]
      /\ db \subseteq db' /\ db' \subseteq db \cup open[d] \cup {<<q, n>>}
      /\ \A e \in Connections : open[e] \subseteq open'[e] \cup db'
      /\ \A e \in Connections : open'[e] \subseteq open[e] \cup {<<q, n>>}
      /\ \A e \in Connections : (e # d \/ Op(q) = "info") => open'[e] = open[e]
      /\ Op(q) # "info" => <<q, n>> \in open'[d] \cup db'
      /\ db' = db \/ Implicit(q)
  <2>1. CASE Op(q) = "info"
    BY <1>1, <1>5, <2>1 DEF Changed, Implicit
  <2>2. CASE open' = [open EXCEPT ![d] = @ \cup {<<q, n>>}] /\ db' = db
    <3>1. open'[d] = open[d] \cup {<<q, n>>} /\ \A e \in Connections \ {d} : open'[e] = open[e]
      BY <1>2, <1>5, <2>2
    <3>2. open' \in [Connections -> SUBSET Changes]
      <4>1. open[d] \cup {<<q, n>>} \in SUBSET Changes
        BY <1>2, <1>5
      <4> QED
        BY <1>5, <2>2, <4>1
    <3>3. Op(q) = "info" => open' = open
      BY <1>1, <2>2 DEF Changed, Implicit
    <3> QED
      BY <2>2, <3>1, <3>2, <3>3
  <2>3. CASE Implicit(q) /\ CommitsWith(d, {<<q, n>>})
    <3>1. open'[d] = {} /\ \A e \in Connections \ {d} : open'[e] = open[e]
      BY <1>2, <1>5, <2>3 DEF CommitsWith
    <3>2. open' \in [Connections -> SUBSET Changes]
      BY <1>5, <2>3 DEF CommitsWith
    <3>3. Op(q) # "info" /\ db' = db \cup open[d] \cup {<<q, n>>}
      BY <2>3 DEF CommitsWith, Implicit
    <3> QED
      BY <2>3, <3>1, <3>2, <3>3
  <2> QED
    BY <1>1, <2>1, <2>2, <2>3 DEF Changed
<1>c. TypeOK'
  <2>1. db' \subseteq Changes
    BY <1>2, <1>5, <1>6
  <2>2. ran' \in [Calls -> 0 .. 2]
    <3>1. n \in 0 .. 2
      BY <1>2
    <3> QED
      BY <1>1, <3>1 DEF IInv, TypeOK
  <2> QED
    BY <1>1, <1>6, <2>1, <2>2, AfterRunIs DEF IInv, TypeOK
<1>7. Effects(q)
  <2>1. \A r \in Calls \ {q} : Same(r)
    BY <1>1, <1>4, AfterRunIs DEF Same
  <2>2. \A e \in Connections \ Mine(q) : open'[e] = open[e]
    BY <1>2, <1>6
  <2>3. \A r \in Calls \ {q}, i \in {1, 2}, e \in Connections :
          <<r, i>> \in open'[e] => <<r, i>> \in open[e]
    BY <1>6
  <2>4. \A r \in Calls \ {q}, i \in {1, 2} :
          <<r, i>> \in db' => <<r, i>> \in db \/ <<r, i>> \in open[d]
    BY <1>6
  <2> QED
    BY <1>1, <1>2, <1>6, <2>1, <2>2, <2>3, <2>4 DEF Effects
<1>8. Control(q)'
  <2>1. Statements(q)' = Statements(q) /\ Borrows(q)' = Borrows(q)
        /\ Op(q)' = Op(q) /\ Statements(q) \in {1, 2}
    BY <1>1, Kept, Kinds DEF IInv
  <2>2. (Updates(q)' <=> Updates(q)) /\ (Promises(q)' <=> Promises(q))
    BY <1>1, Kept
  <2>3. (ran[q] + 1 < Statements(q)) <=> (n < Statements(q))
    BY DEF n
  <2>4. n < Statements(q) \/ n = Statements(q)
    BY <1>2, <1>b, <2>1
  <2>5. Len(held'[q]) = Borrows(q)' /\ (Updates(q)' => q \notin flushed')
    BY <1>1, <1>3, <2>1, <2>2
  <2>6. CASE pc'[q] = "run" /\ n < Statements(q) /\ end'[q] = end[q]
    BY <1>3, <1>4, <2>1, <2>5, <2>6 DEF Control
  <2>7. CASE pc'[q] = "close"
    BY <1>1, <2>7, OverControl, NotFlushed
  <2>8. CASE pc'[q] = "commit" /\ n = Statements(q) /\ end'[q] = end[q] /\ Promises(q)
    BY <1>3, <1>4, <2>1, <2>2, <2>5, <2>8 DEF Control
  <2>9. CASE /\ pc'[q] = "write" /\ n = Statements(q) /\ end'[q] = end[q]
             /\ ~Updates(q) /\ Op(q) # "diff"
    BY <1>3, <1>4, <2>1, <2>2, <2>5, <2>9 DEF Control
  <2> QED
    BY <2>3, <2>4, <2>6, <2>7, <2>8, <2>9, AfterRunIs
<1>9. Pending(q)'
  <2> SUFFICES ASSUME Promises(q), NEW i \in 1 .. n
               PROVE  <<q, i>> \in open'[held[q][1]] \cup db'
    BY <1>1, <1>4, Kept DEF Pending
  <2>1. d = held[q][1] /\ Op(q) # "info"
    BY <1>a, Kinds DEF IInv
  <2>2. CASE i = n
    BY <1>2, <1>6, <2>1, <2>2
  <2>3. CASE i # n
    <3>1. i \in 1 .. ran[q]
      BY <1>b, <2>3 DEF n
    <3>2. <<q, i>> \in open[d] \cup db
      BY <1>1, <2>1, <3>1 DEF CallInv, Pending
    <3> QED
      BY <1>2, <1>6, <2>1, <3>2
  <2> QED
    BY <2>2, <2>3
<1>10. Stored(q)'
  <2>1. Promises(q) /\ Applied(q)' => Applied(q)
    BY <1>1, <1>3, AfterRunIs, Kept, Kinds DEF IInv, Applied
  <2> QED
    BY <1>1, <1>6, <2>1, Kept DEF CallInv, Stored
<1>11. OpenOrigin(q)'
  <2> SUFFICES ASSUME NEW e \in Connections, NEW i \in {1, 2}, <<q, i>> \in open'[e]
               PROVE  /\ Op(q) # "info" /\ e \in Mine(q)
                      /\ \/ pc'[q] \in {"run", "write", "commit"}
                         \/ pc'[q] = "close" /\ Undecided(q)'
    BY <1>1, Kept DEF OpenOrigin
  <2>1. Op(q) # "info" /\ e \in Mine(q)
    <3>1. CASE <<q, i>> \in open[e]
      BY <1>1, <3>1 DEF CallInv, OpenOrigin
    <3>2. CASE <<q, i>> \notin open[e]
      BY <1>2, <1>6, <3>2
    <3> QED
      BY <3>1, <3>2
  <2> QED
    BY <1>1, <2>1, AfterRunIs, Kept DEF Undecided
<1>12. DbOrigin(q)'
  <2> SUFFICES ASSUME NEW i \in {1, 2}, <<q, i>> \in db'
               PROVE  Implicit(q)
    BY <1>1, Kept DEF DbOrigin
  <2>1. <<q, i>> \in db => Implicit(q)
    BY <1>1 DEF CallInv, DbOrigin
  <2> QED
    BY <1>6, <2>1
<1> QED
  BY <1>1, <1>c, <1>7, <1>8, <1>9, <1>10, <1>11, <1>12, NothingMoved DEF CallInv

LEMMA SqlFailsStep ==
    ASSUME IInv, NEW q \in Calls, SqlFails(q)
    PROVE  IInv'
<1>1. /\ pc[q] \in {"run", "write"} /\ Op(q) # "info" /\ CallInv(q)
      /\ open' = IF RollsBack(q) THEN Undone(q) ELSE open
      /\ pc' = [pc EXCEPT ![q] = "close"] /\ end' = [end EXCEPT ![q] = "sql"]
      /\ UNCHANGED <<dbms, req, held, ran, flushed, pool, db>>
  BY DEF SqlFails, Ends, Goes, IInv
<1>2. pc'[q] = "close" /\ end'[q] = "sql" /\ end[q] = ""
  BY <1>1 DEF IInv, TypeOK, CallInv, Control
<1>3. open' \in [Connections -> SUBSET Changes]
  BY <1>1 DEF IInv, TypeOK, Undone
<1>4. /\ \A c \in Connections : open'[c] \subseteq open[c]
      /\ \A c \in Connections \ Mine(q) : open'[c] = open[c]
      /\ RollsBack(q) => \A c \in Mine(q) \cap Connections : open'[c] = {}
  BY <1>1 DEF IInv, TypeOK, Undone
<1>5. TypeOK'
  BY <1>1, <1>3 DEF IInv, TypeOK
<1>6. Effects(q)
  <2>1. \A r \in Calls \ {q} : Same(r)
    BY <1>1 DEF Same, IInv, TypeOK
  <2> QED
    BY <1>1, <1>4, <2>1 DEF Effects
<1>7. Control(q)'
  BY <1>1, <1>2, OverControl, NotFlushed
<1>8. Pending(q)'
  BY <1>2 DEF Pending
<1>9. Stored(q)'
  BY <1>1, <1>2, Kept DEF CallInv, Stored, Applied
<1>10. OpenOrigin(q)'
  <2> SUFFICES ASSUME NEW c \in Connections, NEW i \in {1, 2}, <<q, i>> \in open'[c]
               PROVE  Op(q) \in {"diff", "diff2q"} /\ c \in Mine(q)
    BY <1>1, <1>2, Kept DEF OpenOrigin, Undecided
  <2>1. c \in Mine(q)
    BY <1>1, <1>4 DEF CallInv, OpenOrigin
  <2>2. ~RollsBack(q)
    BY <1>4, <2>1
  <2> QED
    BY <1>1, <2>1, <2>2, RequestType DEF IInv, RollsBack
<1>11. DbOrigin(q)'
  BY <1>1, Kept DEF CallInv, DbOrigin
<1> QED
  BY <1>1, <1>5, <1>6, <1>7, <1>8, <1>9, <1>10, <1>11, NothingMoved DEF CallInv

(* A refused definition commits what its connection has open. *)
LEMMA DdlRefusedStep ==
    ASSUME IInv, NEW q \in Calls, DdlRefused(q)
    PROVE  IInv'
<1> DEFINE d == ConnectionOf(q, ran[q] + 1)
<1>1. /\ pc[q] = "run" /\ Implicit(q) /\ CallInv(q)
      /\ db' = db \cup open[d] /\ open' = [open EXCEPT ![d] = {}]
      /\ pc' = [pc EXCEPT ![q] = "close"] /\ end' = [end EXCEPT ![q] = "sql"]
      /\ UNCHANGED <<dbms, req, held, ran, flushed, pool>>
  BY DEF DdlRefused, CommitsWith, Ends, Goes, IInv
<1>2. d \in Mine(q) /\ d \in Connections
  BY <1>1, ConnectionIs, MineIs DEF IInv
<1> HIDE DEF d
<1>3. pc'[q] = "close" /\ end'[q] = "sql" /\ end[q] = ""
  BY <1>1 DEF IInv, TypeOK, CallInv, Control
<1>4. /\ open' \in [Connections -> SUBSET Changes] /\ db' \subseteq Changes
      /\ open'[d] = {} /\ \A c \in Connections \ {d} : open'[c] = open[c]
  BY <1>1, <1>2 DEF IInv, TypeOK
<1>5. TypeOK'
  BY <1>1, <1>4 DEF IInv, TypeOK
<1>6. Effects(q)
  <2>1. \A r \in Calls \ {q} : Same(r)
    BY <1>1 DEF Same, IInv, TypeOK
  <2> QED
    BY <1>1, <1>2, <1>4, <2>1 DEF Effects
<1>7. Control(q)'
  BY <1>1, <1>3, OverControl, NotFlushed
<1>8. Pending(q)'
  BY <1>3 DEF Pending
<1>9. Stored(q)'
  BY <1>1, <1>3, Kept DEF CallInv, Stored, Applied
<1>10. OpenOrigin(q)'
  <2> SUFFICES ASSUME NEW c \in Connections, NEW i \in {1, 2}, <<q, i>> \in open'[c]
               PROVE  Op(q) \in {"diff", "diff2q"} /\ c \in Mine(q) /\ Op(q) # "info"
    BY <1>1, <1>3, Kept DEF OpenOrigin, Undecided
  <2>1. <<q, i>> \in open[c] /\ c # d
    BY <1>4
  <2>2. c \in Mine(q) /\ Op(q) # "info"
    BY <1>1, <2>1 DEF CallInv, OpenOrigin
  <2>3. Borrows(q) = 2
    <3>1. Len(held[q]) = Borrows(q)
      BY <1>1 DEF CallInv, Control
    <3>2. Len(held[q]) # 1
      BY <1>2, <2>1, <2>2, MineIs DEF IInv
    <3> QED
      BY <3>1, <3>2, Kinds DEF IInv
  <2> QED
    BY <2>2, <2>3, Kinds DEF IInv
<1>11. DbOrigin(q)'
  BY <1>1, Kept DEF DbOrigin
<1> QED
  BY <1>1, <1>5, <1>6, <1>7, <1>8, <1>9, <1>10, <1>11, NothingMoved DEF CallInv

(* At a commit the request has one connection, which holds all its changes. *)
LEMMA AtCommit ==
    ASSUME IInv, NEW q \in Calls, pc[q] = "commit"
    PROVE  /\ Promises(q) /\ Mine(q) = {held[q][1]} /\ held[q][1] \in Connections
           /\ Own(q) \subseteq open[held[q][1]] \cup db
           /\ end[q] = "" /\ Op(q) # "info"
<1>1. Promises(q) /\ Len(held[q]) = Borrows(q) /\ ran[q] = Statements(q) /\ end[q] = ""
  BY DEF IInv, CallInv, Control
<1>2. Borrows(q) = 1 /\ Op(q) # "info"
  BY <1>1, Kinds DEF IInv
<1>3. Mine(q) = {held[q][1]} /\ held[q][1] \in Connections
  BY <1>1, <1>2, MineIs DEF IInv
<1>4. \A i \in 1 .. Statements(q) : <<q, i>> \in open[held[q][1]] \cup db
  BY <1>1 DEF IInv, CallInv, Pending
<1>5. Own(q) \subseteq open[held[q][1]] \cup db
  BY <1>4 DEF Own
<1> QED
  BY <1>1, <1>2, <1>3, <1>5

LEMMA CommitFailsStep ==
    ASSUME IInv, NEW q \in Calls, CommitFails(q)
    PROVE  IInv'
<1> DEFINE d == held[q][1]
<1>1. /\ pc[q] = "commit" /\ CallInv(q)
      /\ open' = [open EXCEPT ![d] = {}]
      /\ pc' = [pc EXCEPT ![q] = "close"] /\ end' = [end EXCEPT ![q] = "sql"]
      /\ UNCHANGED <<dbms, req, held, ran, flushed, pool, db>>
  BY DEF CommitFails, Ends, Goes, IInv
<1>2. Promises(q) /\ Mine(q) = {d} /\ d \in Connections /\ end[q] = ""
  BY <1>1, AtCommit
<1> HIDE DEF d
<1>3. pc'[q] = "close" /\ end'[q] = "sql"
  BY <1>1 DEF IInv, TypeOK
<1>4. TypeOK'
  <2>1. open' \in [Connections -> SUBSET Changes]
    BY <1>1 DEF IInv, TypeOK
  <2> QED
    BY <1>1, <2>1 DEF IInv, TypeOK
<1>5. open'[d] = {} /\ \A c \in Connections \ {d} : open'[c] = open[c]
  BY <1>1, <1>2 DEF IInv, TypeOK
<1>6. Effects(q)
  <2>1. \A r \in Calls \ {q} : Same(r)
    BY <1>1 DEF Same, IInv, TypeOK
  <2> QED
    BY <1>1, <1>2, <1>5, <2>1 DEF Effects
<1>7. Control(q)'
  BY <1>1, <1>3, OverControl, NotFlushed
<1>8. Pending(q)'
  BY <1>3 DEF Pending
<1>9. Stored(q)'
  BY <1>1, <1>2, <1>3, Kept DEF CallInv, Stored, Applied
<1>10. OpenOrigin(q)'
  BY <1>1, <1>2, <1>5 DEF CallInv, OpenOrigin
<1>11. DbOrigin(q)'
  BY <1>1, Kept DEF CallInv, DbOrigin
<1> QED
  BY <1>1, <1>4, <1>6, <1>7, <1>8, <1>9, <1>10, <1>11, NothingMoved DEF CallInv

LEMMA CommitStep ==
    ASSUME IInv, NEW q \in Calls, Commit(q)
    PROVE  IInv'
<1> DEFINE d == held[q][1]
<1>1. /\ pc[q] = "commit" /\ CallInv(q)
      /\ db' = db \cup open[d]
      /\ open' = [open EXCEPT ![d] = {}]
      /\ UNCHANGED <<dbms, req, held, ran, flushed, pool>>
  BY DEF Commit, CommitsWith, IInv
<1>2. \/ pc' = [pc EXCEPT ![q] = "close"] /\ end' = [end EXCEPT ![q] = "ok"]
      \/ pc' = [pc EXCEPT ![q] = "answer"] /\ end' = end /\ Op(q) # "execute"
  BY DEF Commit, Ends, Goes
<1>3. /\ Promises(q) /\ Mine(q) = {d} /\ d \in Connections
      /\ Own(q) \subseteq open[d] \cup db /\ end[q] = ""
  BY <1>1, AtCommit
<1>a. Len(held[q]) = Borrows(q) /\ ran[q] = Statements(q)
  BY <1>1 DEF CallInv, Control
<1> HIDE DEF d
<1>4. \/ pc'[q] = "close" /\ end'[q] = "ok"
      \/ pc'[q] = "answer" /\ end'[q] = "" /\ Op(q) # "execute"
  BY <1>2, <1>3 DEF IInv, TypeOK
<1>5. TypeOK'
  <2>1. open' \in [Connections -> SUBSET Changes]
    BY <1>1 DEF IInv, TypeOK
  <2>2. db' \subseteq Changes
    BY <1>1, <1>3 DEF IInv, TypeOK
  <2>3. pc' \in [Calls -> {"borrow", "run", "write", "commit", "answer", "close",
                           "hooks", "done"}]
        /\ end' \in [Calls -> {"", "ok", "sql", "request", "server"}]
    BY <1>2 DEF IInv, TypeOK
  <2> QED
    BY <1>1, <2>1, <2>2, <2>3 DEF IInv, TypeOK
<1>6. open'[d] = {} /\ \A c \in Connections \ {d} : open'[c] = open[c]
  BY <1>1, <1>3 DEF IInv, TypeOK
<1>7. Effects(q)
  <2>1. \A r \in Calls \ {q} : pc'[r] = pc[r] /\ end'[r] = end[r]
    BY <1>2 DEF IInv, TypeOK
  <2>2. \A r \in Calls \ {q} : Same(r)
    BY <1>1, <2>1 DEF Same
  <2> QED
    BY <1>1, <1>3, <1>6, <2>2 DEF Effects
<1>8. Control(q)'
  <2>1. CASE pc'[q] = "close"
    BY <1>1, <2>1, OverControl, NotFlushed
  <2>2. CASE pc'[q] = "answer" /\ end'[q] = "" /\ Op(q) # "execute"
    <3>1. Updates(q) \/ Op(q) = "diff"
      BY <1>3, <2>2 DEF Promises
    <3>2. Updates(q) => q \notin flushed
      BY <1>1 DEF CallInv, Control
    <3> QED
      BY <1>1, <1>a, <2>2, <3>1, <3>2, Kept DEF Control
  <2> QED
    BY <1>4, <2>1, <2>2
<1>9. Pending(q)'
  BY <1>4 DEF Pending
<1>10. Stored(q)'
  BY <1>1, <1>3, Kept DEF Stored
<1>11. OpenOrigin(q)'
  BY <1>1, <1>3, <1>6 DEF CallInv, OpenOrigin
<1>12. DbOrigin(q)'
  BY <1>1, <1>3, <1>4, Kept DEF DbOrigin
<1> QED
  BY <1>1, <1>5, <1>7, <1>8, <1>9, <1>10, <1>11, <1>12, NothingMoved DEF CallInv

LEMMA CloseStep ==
    ASSUME IInv, NEW q \in Calls, Close(q)
    PROVE  IInv'
<1>1. /\ pc[q] = "close" /\ CallInv(q)
      /\ Closed(q)
      /\ pool' = pool \cup Mine(q) /\ held' = [held EXCEPT ![q] = <<>>]
      /\ flushed \subseteq flushed' /\ flushed' \subseteq flushed \cup {q}
      /\ Op(q) # "diff2q" => flushed' = flushed
      /\ UNCHANGED <<dbms, req, ran, end>>
  BY DEF Close, Returned, IInv
<1>2. \/ pc' = [pc EXCEPT ![q] = "done"] /\ (Op(q) # "diff" \/ end[q] # "ok")
      \/ pc' = [pc EXCEPT ![q] = "hooks"] /\ Op(q) = "diff" /\ end[q] = "ok"
  BY DEF Close, Goes
<1>3. \/ pc'[q] = "done" /\ (Op(q) # "diff" \/ end[q] # "ok")
      \/ pc'[q] = "hooks" /\ Op(q) = "diff" /\ end[q] = "ok"
  BY <1>2 DEF IInv, TypeOK
<1>4. /\ Op(q)' = Op(q) /\ Own(q)' = Own(q)
      /\ (Updates(q)' <=> Updates(q)) /\ (Promises(q)' <=> Promises(q))
      /\ (Implicit(q)' <=> Implicit(q))
  BY <1>1, Fixed
<1>5. Mine(q)' = {}
  <2>1. held'[q] = <<>>
    BY <1>1 DEF IInv, TypeOK
  <2>2. \A i \in DOMAIN <<>> : FALSE
    OBVIOUS
  <2> QED
    BY <2>1, <2>2 DEF Mine
<1>6. /\ \A c \in Connections : open'[c] \subseteq open[c]
      /\ \A c \in Connections \ Mine(q) : open'[c] = open[c]
      /\ \A c \in Connections :
            c \in Mine(q) /\ open'[c] # {} => dbms.close = "keep" /\ Op(q) # "selectAny"
  BY <1>1 DEF IInv, TypeOK, Closed, Undone
<1>7. /\ db \subseteq db'
      /\ \A x \in db' \ db : /\ dbms.close = "commit" /\ Op(q) # "selectAny"
                            /\ \E c \in Mine(q) : x \in open[c]
  BY <1>1 DEF Closed
<1>8. TypeOK'
  <2>1. Mine(q) \subseteq Connections
    BY MineIs DEF IInv
  <2>2. held' \in [Calls -> Seq(Connections)]
    <3>1. <<>> \in Seq(Connections)
      OBVIOUS
    <3> QED
      BY <1>1, <3>1 DEF IInv, TypeOK
  <2>3. open' \in [Connections -> SUBSET Changes]
    BY <1>1 DEF IInv, TypeOK, Closed, Undone
  <2>4. db' \subseteq Changes
    BY <1>7, <2>1 DEF IInv, TypeOK
  <2>5. pc' \in [Calls -> {"borrow", "run", "write", "commit", "answer", "close",
                           "hooks", "done"}]
    BY <1>2 DEF IInv, TypeOK
  <2>6. pool' \subseteq Connections
    BY <1>1, <2>1 DEF IInv, TypeOK
  <2> QED
    BY <1>1, <2>2, <2>3, <2>4, <2>5, <2>6 DEF IInv, TypeOK
<1>9. Effects(q)
  <2>1. \A r \in Calls \ {q} : pc'[r] = pc[r] /\ held'[r] = held[r]
    BY <1>1, <1>2 DEF IInv, TypeOK
  <2>2. \A r \in Calls \ {q} : Same(r)
    BY <1>1, <2>1 DEF Same
  <2> QED
    BY <1>1, <1>6, <1>7, <2>2 DEF Effects
<1>10. Borrowed'
  <2>1. \A r \in Calls : r # q => Mine(r)' = Mine(r)
    BY <1>9, Others
  <2> QED
    BY <1>1, <1>5, <2>1 DEF IInv, Borrowed
<1>11. Control(q)'
  <2>1. CASE pc'[q] = "done"
    <3>1. Updates(q) => flushed' = flushed
      BY <1>1, Kinds DEF IInv
    <3> QED
      BY <1>1, <2>1, <3>1, OverControl, NotFlushed
  <2>2. CASE pc'[q] = "hooks" /\ Op(q) = "diff" /\ end[q] = "ok"
    <3>1. ~Updates(q)
      BY <2>2, Kinds DEF IInv
    <3> QED
      BY <1>1, <1>4, <2>2, <3>1 DEF Control
  <2> QED
    BY <1>3, <2>1, <2>2
<1>12. Pending(q)'
  BY <1>3 DEF Pending
<1>13. Stored(q)'
  BY <1>1, <1>3, <1>4, <1>7 DEF CallInv, Stored, Applied
<1>14. ASSUME NEW c \in Connections, NEW i \in {1, 2}, <<q, i>> \in open[c]
       PROVE  /\ c \in Mine(q) /\ Op(q) # "info" /\ pc'[q] = "done"
              /\ end[q] = "sql" => Op(q) \in {"diff", "diff2q"}
  <2>1. c \in Mine(q) /\ Op(q) # "info" /\ Undecided(q)
    BY <1>1, <1>14 DEF CallInv, OpenOrigin
  <2>2. Op(q) = "diff" => Promises(q)
    BY Kinds DEF IInv
  <2> QED
    BY <1>3, <2>1, <2>2 DEF Undecided
<1>15. OpenOrigin(q)'
  <2> SUFFICES ASSUME NEW c \in Connections, NEW i \in {1, 2}, <<q, i>> \in open'[c]
               PROVE  /\ Op(q) # "info"
                      /\ dbms.close = "keep" /\ pc'[q] = "done" /\ LeftToClose(q)'
    BY <1>1, <1>4 DEF OpenOrigin
  <2>1. <<q, i>> \in open[c]
    BY <1>6
  <2>2. dbms.close = "keep" /\ Op(q) # "selectAny"
    BY <1>6, <1>14, <2>1
  <2> QED
    BY <1>1, <1>4, <1>14, <2>1, <2>2 DEF LeftToClose
<1>16. DbOrigin(q)'
  <2>1. ASSUME NEW i \in {1, 2}, <<q, i>> \in db
        PROVE  \/ Promises(q)' /\ pc'[q] \in {"hooks", "done"} /\ end'[q] = "ok"
               \/ Implicit(q)'
    BY <1>1, <1>3, <1>4, <2>1 DEF CallInv, DbOrigin
  <2>2. ASSUME NEW i \in {1, 2}, <<q, i>> \in db' \ db
        PROVE  pc'[q] = "done" /\ LeftToClose(q)'
    <3>1. PICK c \in Mine(q) : <<q, i>> \in open[c]
      BY <1>7, <2>2
    <3>2. c \in Connections
      BY MineIs DEF IInv
    <3>3. dbms.close = "commit" /\ Op(q) # "selectAny"
      BY <1>7, <2>2
    <3> QED
      BY <1>1, <1>4, <1>14, <3>1, <3>2, <3>3 DEF LeftToClose
  <2> QED
    BY <2>1, <2>2 DEF DbOrigin
<1> QED
  BY <1>8, <1>9, <1>10, <1>11, <1>12, <1>13, <1>15, <1>16, Combined DEF CallInv

LEMMA Stutter ==
    ASSUME IInv, UNCHANGED vars
    PROVE  IInv'
<1>1. UNCHANGED <<dbms, req, pc, held, ran, flushed, end, pool, open, db>>
  BY DEF vars
<1>2. TypeOK'
  BY <1>1 DEF IInv, TypeOK
<1>3. \A q \in Calls : Mine(q)' = Mine(q)
  BY <1>1 DEF Mine
<1>4. Borrowed'
  BY <1>1, <1>3 DEF IInv, Borrowed
<1>5. ASSUME NEW q \in Calls
      PROVE  CallInv(q)'
  <2>1. /\ Op(q)' = Op(q) /\ Borrows(q)' = Borrows(q) /\ Statements(q)' = Statements(q)
        /\ (Updates(q)' <=> Updates(q)) /\ (Promises(q)' <=> Promises(q)) /\ Own(q)' = Own(q)
        /\ (Implicit(q)' <=> Implicit(q))
    BY <1>1, Fixed
  <2>2. CallInv(q)
    BY DEF IInv
  <2>3. Control(q)' /\ Pending(q)'
    BY <1>1, <2>1, <2>2 DEF CallInv, Control, Pending
  <2>4. Stored(q)'
    BY <1>1, <2>1, <2>2 DEF CallInv, Stored, Applied
  <2>5. OpenOrigin(q)' /\ DbOrigin(q)'
    BY <1>1, <1>3, <2>1, <2>2 DEF CallInv, OpenOrigin, DbOrigin, Undecided, LeftToClose
  <2> QED
    BY <2>3, <2>4, <2>5 DEF CallInv
<1> QED
  BY <1>2, <1>4, <1>5 DEF IInv

(* ------------------------------ the theorems ---------------------------- *)

(* The inductive invariant holds of every behaviour. *)
THEOREM Invariance == Spec => []IInv
<1>1. IInv /\ [Next]_vars => IInv'
  <2> SUFFICES ASSUME IInv, [Next]_vars
               PROVE  IInv'
    OBVIOUS
  <2>1. CASE UNCHANGED vars
    BY <2>1, Stutter
  <2>2. ASSUME NEW q \in Calls, Handler(q)
        PROVE  IInv'
    BY <2>2, BorrowStep, BorrowFailsStep, RunStep, SqlFailsStep, DdlRefusedStep, InfoFailsStep, FlushStep,
       WriteStep, WriteFailsStep, CommitStep, CommitFailsStep, AnswerStep, CloseStep,
       HooksStep DEF Handler
  <2> QED
    BY <2>1, <2>2 DEF Next
<1> QED
  BY InitInv, <1>1, PTL DEF Spec

(* Every variable keeps to its type. *)
THEOREM TypeCorrect == Spec => []TypeOK
<1>1. IInv => TypeOK
  BY DEF IInv
<1> QED
  BY <1>1, Invariance, PTL

(* Who is told of the success of an update, a routine or a diff finds it in *)
(* the database, but for a routine whose answer was flushed too early.      *)
THEOREM SuccessIsCommitted == Spec => []ToldIsCommitted
<1>1. ASSUME IInv
      PROVE  ToldIsCommitted
  <2> SUFFICES ASSUME NEW q \in Calls, pc[q] = "done", Promises(q), Told(q) = "ok",
                      ~(Op(q) = "execute" /\ q \in flushed /\ end[q] # "ok")
               PROVE  Own(q) \subseteq db
    BY DEF ToldIsCommitted
  <2>1. end[q] = "ok" \/ q \in flushed
    BY DEF Told
  <2>2. q \in flushed => ~Updates(q)
    BY <1>1 DEF IInv, CallInv, Control
  <2>3. Applied(q)
    BY <2>1, <2>2 DEF Applied, Promises
  <2> QED
    BY <1>1, <2>3 DEF IInv, CallInv, Stored
<1> QED
  BY <1>1, Invariance, PTL

(* Who is refused has changed nothing and never will, but for the endings   *)
(* that no handler rolls back and the definitions that commit by themselves.*)
THEOREM RefusalIsUndone == Spec => []RefusedIsUndone
<1>1. ASSUME IInv
      PROVE  RefusedIsUndone
  <2> SUFFICES ASSUME NEW q \in Calls, pc[q] = "done", Told(q) = "refused",
                      Own(q) \cap db # {}
               PROVE  LeftToClose(q) \/ (Op(q) = "diff" /\ end[q] # "sql") \/ Implicit(q)
    BY DEF RefusedIsUndone
  <2>1. PICK i \in {1, 2} : <<q, i>> \in db
    <3>1. Own(q) \subseteq {q} \X {1, 2}
      BY <1>1, Kinds DEF IInv, Own
    <3> QED
      BY <3>1
  <2>2. end[q] # "ok"
    BY DEF Told
  <2> QED
    BY <1>1, <2>1, <2>2 DEF IInv, CallInv, DbOrigin
<1> QED
  BY <1>1, Invariance, PTL

(* What only reads, and defines nothing that commits by itself, changes     *)
(* nothing unless close() does not roll back, and a select of the user never.*)
THEOREM ReadsAreSafe == Spec => []ReadsChangeNothing
<1>1. ASSUME IInv
      PROVE  ReadsChangeNothing
  <2> SUFFICES ASSUME NEW q \in Calls, Reads(q), Own(q) \cap db # {}
               PROVE  (dbms.close # "rollback" /\ Op(q) # "selectAny") \/ Implicit(q)
    BY DEF ReadsChangeNothing
  <2>1. PICK i \in {1, 2} : <<q, i>> \in db
    <3>1. Own(q) \subseteq {q} \X {1, 2}
      BY <1>1, Kinds DEF IInv, Own
    <3> QED
      BY <3>1
  <2>2. ~Promises(q) /\ Op(q) # "diff"
    BY DEF Reads, Promises, Updates
  <2>3. LeftToClose(q) \/ Implicit(q)
    BY <1>1, <2>1, <2>2 DEF IInv, CallInv, DbOrigin
  <2> QED
    BY <2>3 DEF LeftToClose
<1> QED
  BY <1>1, Invariance, PTL

(* ------------------------------- the pool ------------------------------- *)

(* Most steps leave the pool and what is borrowed. *)
LEMMA PoolKept ==
    ASSUME PoolInv, NEW q \in Calls, held' = held, pool' = pool, req' = req,
           \A r \in Calls \ {q} : pc'[r] = pc[r], GivenBack(q)'
    PROVE  PoolInv'
<1>1. \A r \in Calls : Mine(r)' = Mine(r) /\ Op(r)' = Op(r)
  BY DEF Mine, Op
<1>2. Accounted'
  BY <1>1 DEF PoolInv, Accounted
<1>3. \A r \in Calls \ {q} : GivenBack(r)'
  BY <1>1 DEF PoolInv, GivenBack
<1> QED
  BY <1>2, <1>3 DEF PoolInv

LEMMA PoolInit == Init => PoolInv
BY DEF Init, PoolInv, Accounted, GivenBack

LEMMA PoolBorrow ==
    ASSUME IInv, PoolInv, NEW q \in Calls, Borrow(q)
    PROVE  PoolInv'
<1>1. PICK c \in pool :
        /\ pool' = pool \ {c}
        /\ held' = [held EXCEPT ![q] = Append(@, c)]
  BY DEF Borrow
<1>2. held \in [Calls -> Seq(Connections)] /\ c \in Connections
  BY DEF IInv, TypeOK
<1>3. held'[q] = Append(held[q], c) /\ held[q] \in Seq(Connections)
  BY <1>1, <1>2
<1>4. Mine(q)' = Mine(q) \cup {c}
  <2> DEFINE was == held[q]
             now == Append(was, c)
  <2>1. {now[i] : i \in DOMAIN now} = {was[i] : i \in DOMAIN was} \cup {c}
    <3>1. was \in Seq(Connections) /\ c \in Connections
      BY <1>2, <1>3
    <3> HIDE DEF was
    <3> QED
      BY <3>1, AppendIs
  <2>2. held'[q] = now
    BY <1>3
  <2> HIDE DEF now
  <2> QED
    BY <2>1, <2>2 DEF Mine
<1>5. \A r \in Calls \ {q} : held'[r] = held[r] /\ Mine(r)' = Mine(r)
  BY <1>1, <1>2 DEF Mine
<1>6. /\ pc' = [pc EXCEPT ![q] = IF Len(held[q]) + 1 = Borrows(q) THEN "run" ELSE "borrow"]
      /\ req' = req
  BY DEF Borrow, Goes
<1>7. Accounted'
  BY <1>1, <1>4, <1>5 DEF PoolInv, Accounted
<1>8. ASSUME NEW r \in Calls PROVE GivenBack(r)'
  <2>1. CASE r = q
    BY <1>6, <2>1 DEF GivenBack, IInv, TypeOK
  <2>2. CASE r # q
    BY <1>5, <1>6, <2>2 DEF PoolInv, GivenBack, Op, IInv, TypeOK
  <2> QED
    BY <2>1, <2>2
<1> QED
  BY <1>7, <1>8 DEF PoolInv

LEMMA PoolClose ==
    ASSUME IInv, PoolInv, NEW q \in Calls, Close(q)
    PROVE  PoolInv'
<1>1. /\ pool' = pool \cup Mine(q) /\ held' = [held EXCEPT ![q] = <<>>] /\ req' = req
      /\ \E label : pc' = [pc EXCEPT ![q] = label]
  BY DEF Close, Returned, Goes
<1>2. held \in [Calls -> Seq(Connections)] /\ pc \in [Calls -> {"borrow", "run", "write",
                                     "commit", "answer", "close", "hooks", "done"}]
  BY DEF IInv, TypeOK
<1>3. /\ held'[q] = <<>>
      /\ \A r \in Calls \ {q} : held'[r] = held[r] /\ pc'[r] = pc[r] /\ Mine(r)' = Mine(r)
  BY <1>1, <1>2 DEF Mine
<1>4. Accounted'
  BY <1>1, <1>3 DEF PoolInv, Accounted
<1>5. \A r \in Calls : GivenBack(r)'
  BY <1>1, <1>3 DEF PoolInv, GivenBack, Op
<1> QED
  BY <1>4, <1>5 DEF PoolInv

(* A handler that goes on, or to the end of its transaction. *)
LEMMA PoolGoesOn ==
    ASSUME IInv, PoolInv, NEW q \in Calls,
           \/ BorrowFails(q) \/ Run(q) \/ SqlFails(q) \/ DdlRefused(q) \/ Flush(q) \/ Write(q)
           \/ WriteFails(q) \/ Commit(q) \/ CommitFails(q) \/ Answer(q)
    PROVE  PoolInv'
<1>1. pc \in [Calls -> {"borrow", "run", "write", "commit", "answer", "close", "hooks", "done"}]
  BY DEF IInv, TypeOK
<1>2. held' = held /\ pool' = pool /\ req' = req
  BY DEF BorrowFails, Run, SqlFails, DdlRefused, Flush, Write, WriteFails, Commit,
         CommitFails, Answer
<1>3. \/ pc' = pc /\ pc[q] \notin {"hooks", "done"}
      \/ \E label \in {"run", "write", "commit", "answer", "close"} :
            pc' = [pc EXCEPT ![q] = label]
  BY DEF BorrowFails, Run, AfterRun, SqlFails, DdlRefused, Flush, Write, WriteFails,
         Commit, CommitFails, Answer, Ends, Goes
<1>4. pc'[q] \notin {"hooks", "done"} /\ \A r \in Calls \ {q} : pc'[r] = pc[r]
  BY <1>1, <1>3
<1> QED
  BY <1>2, <1>4, PoolKept DEF GivenBack

LEMMA PoolEnds ==
    ASSUME IInv, PoolInv, NEW q \in Calls, InfoFails(q) \/ Hooks(q)
    PROVE  PoolInv'
<1>1. /\ held' = held /\ pool' = pool /\ req' = req /\ pc' = [pc EXCEPT ![q] = "done"]
      /\ pc[q] = "hooks" \/ (pc[q] = "run" /\ Op(q) = "info")
  BY DEF InfoFails, Hooks, Goes
<1>2. \A r \in Calls \ {q} : pc'[r] = pc[r]
  BY <1>1 DEF IInv, TypeOK
<1>3. pc[q] = "run" => Len(held[q]) = Borrows(q)
  BY DEF IInv, CallInv, Control
<1>4. held[q] = <<>> \/ (Op(q) = "info" /\ Len(held[q]) = 1)
  BY <1>1, <1>3 DEF PoolInv, GivenBack, Borrows
<1>5. GivenBack(q)'
  BY <1>1, <1>4 DEF GivenBack, Op
<1> QED
  BY <1>1, <1>2, <1>5, PoolKept

(* Every connection is in the pool or with a call that will give it back,   *)
(* those of failed InfoServlet requests excepted.                           *)
LEMMA PoolInvariance == Spec => [](IInv /\ PoolInv)
<1>1. IInv /\ PoolInv /\ [Next]_vars => PoolInv'
  <2> SUFFICES ASSUME IInv, PoolInv, [Next]_vars
               PROVE  PoolInv'
    OBVIOUS
  <2>1. CASE UNCHANGED vars
    BY <2>1 DEF vars, PoolInv, Accounted, GivenBack, Mine, Op
  <2>2. ASSUME NEW q \in Calls, Handler(q)
        PROVE  PoolInv'
    BY <2>2, PoolBorrow, PoolClose, PoolGoesOn, PoolEnds DEF Handler
  <2> QED
    BY <2>1, <2>2 DEF Next
<1> QED
  BY <1>1, PoolInit, Invariance, PTL DEF Spec

(* A stuck call has one connection, and nobody else has it. *)
LEMMA StuckHasOne ==
    ASSUME IInv, PoolInv, NEW q \in Stuck
    PROVE  /\ q \in Calls /\ held[q][1] \in Connections
           /\ Mine(q) = {held[q][1]}
<1>1. /\ q \in Calls /\ held[q] # <<>> /\ pc[q] \in {"borrow", "done"}
      /\ held[q] \in Seq(Connections) /\ Len(held[q]) \in Nat
  <2>1. q \in Calls /\ held[q] # <<>> /\ pc[q] \in {"borrow", "done"}
    BY DEF Stuck
  <2>2. held[q] \in Seq(Connections)
    BY <2>1 DEF IInv, TypeOK
  <2> QED
    BY <2>1, <2>2, LenProperties
<1>2. Len(held[q]) > 0
  BY <1>1, EmptySeq
<1>3. Len(held[q]) = 1
  <2>1. CASE pc[q] = "borrow"
    <3> DEFINE taken == Len(held[q])
               least == Borrows(q)
    <3>1. taken < least
      BY <1>1, <2>1, Kinds DEF IInv, CallInv, Control
    <3>2. least = 1 \/ least = 2
      BY Kinds DEF Borrows
    <3>3. taken \in Nat /\ taken > 0
      BY <1>1, <1>2
    <3> HIDE DEF taken, least
    <3>4. taken = 1
      BY <3>1, <3>2, <3>3
    <3> QED
      BY <3>4 DEF taken
  <2>2. CASE pc[q] = "done"
    BY <1>1, <2>2 DEF PoolInv, GivenBack
  <2> QED
    BY <1>1, <2>1, <2>2
<1>4. held[q][1] \in Connections
  BY <1>1, <1>3, ElementOfSeq
<1> QED
  BY <1>1, <1>3, <1>4, MineIs DEF IInv

(* As long as the calls that keep a connection for nothing do not have the  *)
(* whole pool, some handler that is not over can go on: if the pool is      *)
(* empty and all wait, each connection is with a stuck call of its own.     *)
THEOREM NoDeadlock == Spec => []SomebodyGoesOn
<1>1. ASSUME IInv, PoolInv, NEW p \in Calls, pc[p] # "done",
             \A q \in Calls : ~GoesOn(q)
      PROVE  ~(Cardinality(Stuck) < Cardinality(Connections))
  <2>1. \A q \in Calls : pc[q] \in {"borrow", "done"}
    BY <1>1 DEF GoesOn, IInv, TypeOK
  <2>2. pool = {}
    BY <1>1, <2>1 DEF GoesOn
  <2>3. ASSUME NEW c \in Connections
        PROVE  \E q \in Stuck : held[q][1] = c
    <3>1. PICK q \in Calls : c \in Mine(q)
      BY <1>1, <2>2 DEF PoolInv, Accounted
    <3>2. q \in Stuck
      BY <1>1, <2>1, <3>1, MineIs DEF Stuck, IInv
    <3> QED
      BY <1>1, <3>1, <3>2, StuckHasOne
  <2> DEFINE first == [q \in Stuck |-> held[q][1]]
  <2>4. first \in Surjection(Stuck, Connections)
    BY <1>1, <2>3, StuckHasOne DEF Surjection
  <2>5. first \in Injection(Stuck, Connections)
    <3>1. \A q \in Stuck : q \in Calls /\ held[q][1] \in Connections /\ Mine(q) = {held[q][1]}
      BY <1>1, StuckHasOne
    <3>2. \A q, r \in Stuck : held[q][1] = held[r][1] => q = r
      BY <1>1, <3>1 DEF IInv, Borrowed
    <3> QED
      BY <3>1, <3>2 DEF Injection, IsInjective
  <2>6. IsFiniteSet(Stuck)
    BY <2>5, PoolAssumption, FS_Injection
  <2>7. Cardinality(Connections) <= Cardinality(Stuck)
    BY <2>4, <2>6, FS_Surjection
  <2>8. Cardinality(Connections) \in Nat /\ Cardinality(Stuck) \in Nat
    BY <2>6, PoolAssumption, FS_CardinalityType
  <2> QED
    BY <2>7, <2>8
<1>2. IInv /\ PoolInv => SomebodyGoesOn
  BY <1>1 DEF SomebodyGoesOn
<1> QED
  BY <1>2, PoolInvariance, PTL
=============================================================================
