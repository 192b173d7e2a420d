------------------------ MODULE RelationListsProofs ------------------------
(***************************************************************************)
(* Theorems about RelationLists, for any models, relations and bookmarks   *)
(* and any number of lists and runs in flight.                             *)
(***************************************************************************)
EXTENDS RelationListsInvariant, SequenceTheorems, TLAPS

(* ----------------------- functions of the page -------------------------- *)

LEMMA WellFormedFields ==
    ASSUME NEW p, WellFormed(p)
    PROVE  /\ p \in Page
           /\ p.model \in Models /\ p.options \in SUBSET Relations
           /\ p.known \in SUBSET Relations /\ p.shown \in BOOLEAN
           /\ p.selected \in p.options \cup {NoRel}
           /\ p.selected \in Relations \cup {NoRel}
           /\ p.history \in Seq(Places) /\ p.at \in Nat
           /\ p.at \in 1 .. Len(p.history)
           /\ Len(p.history) \in Nat
BY DEF WellFormed, Page

LEMMA HereType ==
    ASSUME NEW p, WellFormed(p)
    PROVE  /\ Here(p) \in Places
           /\ Here(p) # NoHash => Here(p).rel \in Relations \cup {NoRel}
<1>1. Here(p) \in Places
  BY WellFormedFields, ElementOfSeq DEF Here
<1> QED
  BY <1>1, SentinelsAssumption DEF Places

(* The list is emptied for a model: nothing of the location changes. *)
LEMMA ClearedPage ==
    ASSUME NEW p, WellFormed(p), NEW m \in Models
    PROVE  LET q == Cleared([p EXCEPT !.model = m]) IN
           /\ WellFormed(q) /\ q.options = {} /\ q.model = m
           /\ q.at = p.at /\ q.history = p.history /\ q.selected = NoRel
           /\ q.known = p.known /\ q.shown = p.shown
BY WellFormedFields DEF Cleared, WellFormed, Page

LEMMA ClearedSame ==
    ASSUME NEW p, WellFormed(p)
    PROVE  /\ WellFormed(Cleared(p)) /\ Cleared(p).options = {}
           /\ Cleared(p).model = p.model /\ Cleared(p).shown = p.shown
           /\ Here(Cleared(p)) = Here(p)
BY WellFormedFields DEF Cleared, WellFormed, Page, Here

(* updateState makes the location name the selection. *)
LEMMA RewrittenPage ==
    ASSUME NEW p, WellFormed(p)
    PROVE  /\ WellFormed(Rewritten(p))
           /\ Named(Rewritten(p))
           /\ Rewritten(p).options = p.options
           /\ Rewritten(p).model = p.model
           /\ Here(Rewritten(p)) = [rel |-> p.selected, model |-> p.model]
           /\ ~Elsewhere(Rewritten(p))
           /\ LeadsTo(Rewritten(p), [rel |-> p.selected, model |-> p.model])
<1> DEFINE place == [rel |-> p.selected, model |-> p.model]
           h == [p.history EXCEPT ![p.at] = place]
<1>0. p \in Page
  BY WellFormedFields
<1>1. place \in Places
  BY WellFormedFields DEF Places
<1>2. h \in Seq(Places) /\ Len(h) = Len(p.history) /\ h[p.at] = place
  BY <1>1, WellFormedFields, ExceptSeq
<1>3. Rewritten(p) = [p EXCEPT !.history = h]
  BY DEF Rewritten
<1>4. /\ Rewritten(p).history = h
      /\ Rewritten(p).options = p.options /\ Rewritten(p).model = p.model
      /\ Rewritten(p).selected = p.selected /\ Rewritten(p).at = p.at
      /\ Rewritten(p) \in Page
  <2> HIDE DEF h
  <2> QED
    BY <1>0, <1>2, <1>3 DEF Page
<1>5. WellFormed(Rewritten(p))
  BY <1>2, <1>4, WellFormedFields DEF WellFormed
<1>6. Here(Rewritten(p)) = place
  BY <1>2, <1>4 DEF Here
<1>7. Named(Rewritten(p))
  BY <1>4, <1>6 DEF Named
<1>8. ~Elsewhere(Rewritten(p))
  BY <1>4, <1>6 DEF Elsewhere
<1>9. LeadsTo(Rewritten(p), place)
  <2>1. place \in [rel: Relations \cup {NoRel}, model: Models]
    BY WellFormedFields
  <2>2. place # NoHash
    BY <2>1, SentinelsAssumption
  <2> QED
    BY <1>6, <2>2 DEF LeadsTo
<1> QED
  BY <1>4, <1>5, <1>6, <1>7, <1>8, <1>9

LEMMA FoundPage ==
    ASSUME NEW p, WellFormed(p), NEW rel
    PROVE  /\ WellFormed(Found(p, rel))
           /\ Found(p, rel).options = p.options
           /\ Found(p, rel).model = p.model
           /\ Found(p, rel).history = p.history /\ Found(p, rel).at = p.at
           /\ rel \in p.options \cup {NoRel} => Found(p, rel).selected = rel
BY WellFormedFields DEF Found, WellFormed, Page

(* updateSelectedQueryState leaves the location and the selection equal, or *)
(* has emptied the list for another model.                                  *)
LEMMA FollowedPage ==
    ASSUME NEW p, WellFormed(p)
    PROVE  /\ WellFormed(Followed(p))
           /\ Named(Followed(p))
           /\ ~Elsewhere(Followed(p))
           /\ ~Elsewhere(p) => /\ Followed(p).model = p.model
                               /\ Followed(p).options = p.options
           /\ Elsewhere(p) => /\ Here(p) # NoHash /\ Here(p).model \in Models
                              /\ Followed(p).model = Here(p).model
                              /\ Followed(p).options = {}
<1>1. CASE Here(p) = NoHash \/ Here(p).model \notin Models \cup {NoModel}
  <2>1. Followed(p) = p /\ ~Elsewhere(p)
    BY <1>1, WellFormedFields DEF Followed, Elsewhere
  <2> QED
    BY <1>1, <2>1 DEF Named
<1>2. CASE Elsewhere(p) /\ ~(Here(p) = NoHash \/ Here(p).model \notin Models \cup {NoModel})
  <2> DEFINE q == Cleared([p EXCEPT !.model = Here(p).model])
  <2>1. Here(p) # NoHash /\ Here(p).model \in Models
    BY <1>2 DEF Elsewhere
  <2>2. Followed(p) = q
    BY <1>2 DEF Followed
  <2>3. /\ WellFormed(q) /\ q.options = {} /\ q.model = Here(p).model
        /\ q.at = p.at /\ q.history = p.history /\ q.selected = NoRel
    BY <2>1, ClearedPage
  <2> HIDE DEF q
  <2>4. Here(q) = Here(p)
    BY <2>3 DEF Here
  <2>5. ~Elsewhere(q) /\ Named(q)
    BY <2>3, <2>4 DEF Elsewhere, Named
  <2> QED
    BY <1>2, <2>1, <2>2, <2>3, <2>5
<1>3. CASE ~Elsewhere(p) /\ ~(Here(p) = NoHash \/ Here(p).model \notin Models \cup {NoModel})
  <2>1. Followed(p) = Rewritten(Found(p, Here(p).rel))
    BY <1>3 DEF Followed
  <2> DEFINE q == Found(p, Here(p).rel)
  <2>2. WellFormed(q) /\ q.options = p.options /\ q.model = p.model
    BY FoundPage
  <2> HIDE DEF q
  <2>3. /\ WellFormed(Rewritten(q)) /\ Named(Rewritten(q)) /\ ~Elsewhere(Rewritten(q))
        /\ Rewritten(q).options = p.options /\ Rewritten(q).model = p.model
    BY <2>2, RewrittenPage
  <2>4. Followed(p) = Rewritten(q)
    BY <2>1 DEF q
  <2> QED
    BY <1>3, <2>3, <2>4
<1> QED
  BY <1>1, <1>2, <1>3

(* A location that leads to a place still does when it has been followed,   *)
(* if the list is there.                                                    *)
LEMMA FollowedLeads ==
    ASSUME NEW p, WellFormed(p), NEW place, place.model \in Models,
           LeadsTo(p, place), ~Elsewhere(p) => Of[p.model] \subseteq p.options
    PROVE  LeadsTo(Followed(p), place)
<1>1. Here(p) # NoHash /\ Here(p).model = place.model
  BY DEF LeadsTo
<1>2. CASE Elsewhere(p)
  <2>1. Followed(p) = Cleared([p EXCEPT !.model = Here(p).model])
    BY <1>1, <1>2 DEF Followed
  <2>2. Here(Followed(p)) = Here(p)
    BY <1>1, <2>1, ClearedPage DEF Here
  <2> QED
    BY <2>2 DEF LeadsTo
<1>3. CASE ~Elsewhere(p)
  <2>1. Followed(p) = Rewritten(Found(p, Here(p).rel)) /\ p.model = place.model
    BY <1>1, <1>3 DEF Followed, Elsewhere
  <2>2. /\ LeadsTo(Followed(p), [rel |-> Found(p, Here(p).rel).selected, model |-> p.model])
        /\ Here(Followed(p)) = [rel |-> Found(p, Here(p).rel).selected, model |-> p.model]
    BY <2>1, FoundPage, RewrittenPage
  <2>3. Here(Followed(p)) # NoHash
    BY <2>2 DEF LeadsTo
  <2>4. ASSUME place.rel \in Of[place.model] \cup {NoRel}
        PROVE  Found(p, Here(p).rel).selected = place.rel
    <3>1. Here(p).rel = place.rel /\ place.rel \in p.options \cup {NoRel}
      BY <1>3, <2>1, <2>4 DEF LeadsTo
    <3> QED
      BY <3>1, FoundPage
  <2> QED
    BY <2>1, <2>2, <2>3, <2>4 DEF LeadsTo
<1> QED
  BY <1>2, <1>3

(* A page reached by the history or by a link. *)
LEMMA MovedPage ==
    ASSUME NEW p, WellFormed(p), NEW i \in DOMAIN p.history
    PROVE  LET q == [p EXCEPT !.at = i] IN
           WellFormed(q) /\ q.options = p.options /\ q.model = p.model
<1>1. i \in 1 .. Len(p.history) /\ i \in Nat
  BY WellFormedFields
<1> QED
  BY <1>1, WellFormedFields DEF WellFormed, Page

LEMMA LinkedPage ==
    ASSUME NEW p, WellFormed(p), NEW rel \in Relations
    PROVE  LET place == [rel |-> rel, model |-> p.model]
               q == [p EXCEPT !.history = Append(SubSeq(@, 1, p.at), place), !.at = @ + 1]
           IN /\ WellFormed(q) /\ q.options = p.options /\ q.model = p.model
              /\ Here(q) = place /\ place \in Places
<1> DEFINE place == [rel |-> rel, model |-> p.model]
           sub == SubSeq(p.history, 1, p.at)
           h == Append(sub, place)
           q == [p EXCEPT !.history = h, !.at = p.at + 1]
<1>1. place \in Places
  BY WellFormedFields DEF Places
<1>2. sub \in Seq(Places) /\ Len(sub) = p.at
  <2>1. \A i \in 1 .. p.at : p.history[i] \in Places
    BY WellFormedFields, ElementOfSeq
  <2>2. p.at \in Int /\ 1 \in Int /\ 1 <= p.at
    BY WellFormedFields
  <2>3. /\ sub \in Seq(Places)
        /\ Len(sub) = IF 1 <= p.at THEN p.at - 1 + 1 ELSE 0
    BY <2>1, <2>2, SubSeqProperties
  <2> QED
    BY <2>2, <2>3
<1>3. h \in Seq(Places) /\ Len(h) = p.at + 1 /\ h[p.at + 1] = place
  <2> HIDE DEF sub, place
  <2> QED
    BY <1>1, <1>2, AppendProperties
<1>4. /\ q \in Page /\ q.options = p.options /\ q.model = p.model
      /\ q.history = h /\ q.at = p.at + 1 /\ q.selected = p.selected
  <2>1. p \in Page /\ p.at + 1 \in Nat
    BY WellFormedFields
  <2>2. h \in Seq(Places)
    BY <1>3
  <2> HIDE DEF h
  <2> QED
    BY <2>1, <2>2 DEF Page
<1>5. WellFormed(q)
  <2> HIDE DEF q, h
  <2> QED
    BY <1>3, <1>4, WellFormedFields DEF WellFormed
<1>6. Here(q) = place
  <2> HIDE DEF q, h, place
  <2> QED
    BY <1>3, <1>4 DEF Here
<1> QED
  BY <1>1, <1>4, <1>5, <1>6

(* ----------------------------- the steps -------------------------------- *)

LoadRecord == [model: Models, rel: Relations \cup {NoRel},
               restores: BOOLEAN, served: BOOLEAN]
RunRecord == [link: BOOLEAN, named: BOOLEAN]

LEMMA InitHolds ==
    ASSUME Init
    PROVE  IInv
<1>1. PICK m \in Models, start \in Bookmarks \cup {NoHash}, l \in Loads :
        /\ page = [model |-> m, options |-> {}, selected |-> NoRel, known |-> {},
                   shown |-> FALSE, history |-> <<start>>, at |-> 1]
        /\ load = [k \in Loads |-> IF k = l THEN ListOf(m) ELSE None]
        /\ asked = start
  BY DEF Init
<1>2. start \in Places
  BY DEF Places
<1>3. WellFormed(page)
  <2>1. <<start>> \in Seq(Places) /\ Len(<<start>>) = 1
    BY <1>2
  <2> QED
    BY <1>1, <2>1 DEF WellFormed, Page
<1>4. load \in [Loads -> LoadRecord \cup {None}]
  <2>1. ListOf(m) \in LoadRecord
    BY DEF ListOf, LoadRecord
  <2> QED
    BY <1>1, <2>1
<1>5. TypeOK
  <2>1. run \in [Runs -> RunRecord \cup {None}]
    BY DEF Init
  <2>2. backs \in Nat /\ clicks \in 0 .. MaxClicks
    BY MaxClicksAssumption DEF Init
  <2>3. hasty \in BOOLEAN /\ mixed \in BOOLEAN
    BY DEF Init
  <2> QED
    BY <1>1, <1>2, <1>3, <1>4, <2>1, <2>2, <2>3 DEF TypeOK, LoadRecord, RunRecord
<1>6. LocationNamesSelection
  BY <1>1 DEF LocationNamesSelection, Named
<1>7. OneList
  <2>1. page.options = {} /\ page.model = m
    BY <1>1
  <2>2. Loading \subseteq {l}
    BY <1>1 DEF Loading
  <2>3. load[l].model = m
    BY <1>1 DEF ListOf
  <2> QED
    BY <2>1, <2>2, <2>3 DEF OneList
<1> QED
  BY <1>5, <1>6, <1>7 DEF IInv

(* What a step of a load, a run or a click does to the other variables. *)
LEMMA ClickType ==
    ASSUME TypeOK, Click
    PROVE  clicks' \in 0 .. MaxClicks
BY MaxClicksAssumption DEF TypeOK, Click

LEMMA AsksType ==
    ASSUME NEW place \in Places, Asks(place)
    PROVE  asked' \in Places /\ hasty' \in BOOLEAN
BY DEF Asks

(* A list asked for: while no other is in flight, it is the only one. *)
LEMMA AskListStep ==
    ASSUME TypeOK, NEW l \in Loads, NEW p, p.model \in Models, AskList(l, p)
    PROVE  /\ load' \in [Loads -> LoadRecord \cup {None}]
           /\ mixed' \in BOOLEAN
           /\ ~mixed' => Loading' \subseteq {l}
           /\ load'[l].model = p.model
<1>1. load \in [Loads -> LoadRecord \cup {None}]
  BY DEF TypeOK, LoadRecord
<1>2. ListOf(p.model) \in LoadRecord /\ ListOf(p.model).model = p.model
  BY DEF ListOf, LoadRecord
<1>3. /\ load' = [load EXCEPT ![l] = ListOf(p.model)]
      /\ mixed' = (Loading # {})
  BY DEF AskList
<1>4. load' \in [Loads -> LoadRecord \cup {None}] /\ load'[l] = ListOf(p.model)
  BY <1>1, <1>2, <1>3
<1>5. Loading' \subseteq Loading \cup {l}
  BY <1>1, <1>3 DEF Loading
<1> QED
  BY <1>2, <1>3, <1>4, <1>5

LEMMA DoRunType ==
    ASSUME TypeOK, NEW r \in Runs, NEW p, NEW link \in BOOLEAN, DoRun(r, p, link)
    PROVE  run' \in [Runs -> RunRecord \cup {None}]
<1>1. [link |-> link, named |-> p.selected # NoRel] \in RunRecord
  BY DEF RunRecord
<1> QED
  BY <1>1 DEF DoRun, TypeOK, RunRecord

(* With one list at most, a page whose list is of its model stays so when   *)
(* neither changes and nothing more is in flight.                           *)
LEMMA OneListKept ==
    ASSUME OneList, mixed' => mixed, mixed => mixed',
           load' = load,
           page'.options = page.options, page'.model = page.model
    PROVE  OneList'
BY DEF OneList, Loading

LEMMA OneListEmptied ==
    ASSUME NEW l \in Loads, ~mixed' => Loading' \subseteq {l},
           page'.options = {}, load'[l].model = page'.model
    PROVE  OneList'
BY DEF OneList

(* updateSelectedQueryState, after an answer or a navigation. *)
LEMMA FollowStep ==
    ASSUME TypeOK, NEW l \in Loads, NEW p, WellFormed(p), Follow(l, p),
           mixed' = (IF Elsewhere(p) THEN Loading \ {l} # {} ELSE mixed)
    PROVE  /\ WellFormed(page') /\ Named(page')
           /\ load' \in [Loads -> LoadRecord \cup {None}]
           /\ mixed' \in BOOLEAN
           /\ Elsewhere(p) => OneList'
           /\ ~Elsewhere(p) => /\ Loading' = Loading \ {l}
                               /\ \A k \in Loading' : load'[k] = load[k]
                               /\ page'.model = p.model
                               /\ page'.options = p.options
                               /\ mixed' = mixed
<1> DEFINE new == [model |-> Here(p).model, rel |-> Here(p).rel, restores |-> TRUE,
                   served |-> FALSE]
<1>1. load \in [Loads -> LoadRecord \cup {None}] /\ mixed \in BOOLEAN
  BY DEF TypeOK, LoadRecord
<1>2. /\ page' = Followed(p)
      /\ load' = [load EXCEPT ![l] = IF Elsewhere(p) THEN new ELSE None]
  BY DEF Follow
<1>3. WellFormed(page') /\ Named(page')
  BY <1>2, FollowedPage
<1>4. CASE Elsewhere(p)
  <2>1. new \in LoadRecord /\ new.model = Here(p).model
    BY <1>4, FollowedPage, HereType DEF LoadRecord
  <2>2. load' \in [Loads -> LoadRecord \cup {None}] /\ load'[l].model = Here(p).model
    BY <1>1, <1>2, <1>4, <2>1
  <2>3. page'.options = {} /\ page'.model = Here(p).model
    BY <1>2, <1>4, FollowedPage
  <2>4. Loading' \subseteq Loading \cup {l} /\ mixed' = (Loading \ {l} # {})
    BY <1>1, <1>2, <1>4 DEF Loading
  <2>5. OneList'
    BY <2>2, <2>3, <2>4, OneListEmptied
  <2> QED
    BY <1>3, <1>4, <2>2, <2>4, <2>5
<1>5. CASE ~Elsewhere(p)
  <2>1. load' = [load EXCEPT ![l] = None] /\ mixed' = mixed
    BY <1>2, <1>5
  <2>2. load' \in [Loads -> LoadRecord \cup {None}]
    BY <1>1, <2>1
  <2>3. /\ Loading' = Loading \ {l}
        /\ \A k \in Loading' : load'[k] = load[k]
    BY <1>1, <2>1 DEF Loading
  <2>4. page'.model = p.model /\ page'.options = p.options
    BY <1>2, <1>5, FollowedPage
  <2> QED
    BY <1>1, <1>3, <1>5, <2>1, <2>2, <2>3, <2>4
<1> QED
  BY <1>4, <1>5

LEMMA InvariantParts ==
    ASSUME WellFormed(page'), Named(page'),
           load' \in [Loads -> LoadRecord \cup {None}],
           run' \in [Runs -> RunRecord \cup {None}],
           backs' \in Nat, clicks' \in 0 .. MaxClicks, asked' \in Places,
           hasty' \in BOOLEAN, mixed' \in BOOLEAN, OneList'
    PROVE  IInv'
BY DEF IInv, TypeOK, LocationNamesSelection, LoadRecord, RunRecord

LEMMA TypeParts ==
    ASSUME TypeOK
    PROVE  /\ WellFormed(page)
           /\ load \in [Loads -> LoadRecord \cup {None}]
           /\ run \in [Runs -> RunRecord \cup {None}]
           /\ backs \in Nat /\ clicks \in 0 .. MaxClicks /\ asked \in Places
           /\ hasty \in BOOLEAN /\ mixed \in BOOLEAN
BY DEF TypeOK, LoadRecord, RunRecord

LEMMA ChangeModelStep ==
    ASSUME IInv, NEW l \in Loads, NEW m \in Models, ChangeModel(l, m)
    PROVE  IInv'
<1> DEFINE at == [page EXCEPT !.model = m]
           empty == Cleared(at)
<1>0. TypeOK
  BY DEF IInv
<1>1. WellFormed(empty) /\ empty.options = {} /\ empty.model = m
  BY <1>0, TypeParts, ClearedPage
<1>2. at.model = m
  BY <1>0, TypeParts, WellFormedFields DEF Page
<1>3. /\ AskList(l, at) /\ page' = Rewritten(empty) /\ Click
      /\ Asks([rel |-> NoRel, model |-> m])
      /\ run' = run /\ backs' = backs
  BY DEF ChangeModel
<1> HIDE DEF empty, at
<1>4. /\ WellFormed(page') /\ Named(page')
      /\ page'.options = {} /\ page'.model = m
  BY <1>1, <1>3, RewrittenPage
<1>5. /\ load' \in [Loads -> LoadRecord \cup {None}] /\ mixed' \in BOOLEAN
      /\ ~mixed' => Loading' \subseteq {l}
      /\ load'[l].model = m
  BY <1>0, <1>2, <1>3, AskListStep
<1>6. OneList'
  BY <1>4, <1>5, OneListEmptied
<1>7. [rel |-> NoRel, model |-> m] \in Places
  BY DEF Places
<1>8. asked' \in Places /\ hasty' \in BOOLEAN /\ clicks' \in 0 .. MaxClicks
  BY <1>0, <1>3, <1>7, AsksType, ClickType
<1> QED
  BY <1>0, <1>3, <1>4, <1>5, <1>6, <1>8, TypeParts, InvariantParts

LEMMA ReloadStep ==
    ASSUME IInv, NEW l \in Loads, Reload(l)
    PROVE  IInv'
<1>0. TypeOK
  BY DEF IInv
<1>1. /\ AskList(l, page) /\ page' = Cleared(page) /\ Click
      /\ hasty' = (hasty \/ Loading # {})
      /\ run' = run /\ backs' = backs /\ asked' = asked
  BY DEF Reload
<1>2. WellFormed(page') /\ page'.options = {} /\ page'.model = page.model
  BY <1>0, <1>1, TypeParts, ClearedSame
<1>3. Named(page')
  BY <1>2 DEF Named
<1>4. page.model \in Models
  BY <1>0, TypeParts, WellFormedFields
<1>5. /\ load' \in [Loads -> LoadRecord \cup {None}] /\ mixed' \in BOOLEAN
      /\ ~mixed' => Loading' \subseteq {l}
      /\ load'[l].model = page.model
  BY <1>0, <1>1, <1>4, AskListStep
<1>6. OneList'
  BY <1>2, <1>5, OneListEmptied
<1>7. clicks' \in 0 .. MaxClicks /\ hasty' \in BOOLEAN
  BY <1>0, <1>1, ClickType, TypeParts
<1> QED
  BY <1>0, <1>1, <1>2, <1>3, <1>5, <1>6, <1>7, TypeParts, InvariantParts

LEMMA SelectStep ==
    ASSUME IInv, NEW rel \in Relations, Select(rel)
    PROVE  IInv'
<1> DEFINE chosen == [page EXCEPT !.selected = rel]
<1>0. TypeOK /\ OneList
  BY DEF IInv
<1>1. /\ rel \in page.options /\ page' = Rewritten(chosen)
      /\ load' = load /\ run' = run /\ backs' = backs /\ clicks' = clicks
      /\ mixed' = mixed
      /\ Asks([rel |-> rel, model |-> page.model])
  BY DEF Select
<1>2. /\ WellFormed(chosen) /\ chosen.options = page.options
      /\ chosen.model = page.model
  BY <1>0, <1>1, TypeParts, WellFormedFields DEF WellFormed, Page
<1> HIDE DEF chosen
<1>3. /\ WellFormed(page') /\ Named(page')
      /\ page'.options = page.options /\ page'.model = page.model
  BY <1>1, <1>2, RewrittenPage
<1>4. OneList'
  BY <1>0, <1>1, <1>3, OneListKept
<1>5. [rel |-> rel, model |-> page.model] \in Places
  BY <1>0, TypeParts, WellFormedFields DEF Places
<1>6. asked' \in Places /\ hasty' \in BOOLEAN
  BY <1>1, <1>5, AsksType
<1> QED
  BY <1>0, <1>1, <1>3, <1>4, <1>6, TypeParts, InvariantParts

LEMMA GoStep ==
    ASSUME IInv, NEW r \in Runs, Go(r)
    PROVE  IInv'
<1>0. TypeOK /\ OneList /\ Named(page)
  BY DEF IInv, LocationNamesSelection
<1>1. /\ DoRun(r, page, FALSE)
      /\ page' = page /\ load' = load /\ backs' = backs /\ clicks' = clicks
      /\ asked' = asked /\ hasty' = hasty /\ mixed' = mixed
  BY DEF Go
<1>2. run' \in [Runs -> RunRecord \cup {None}]
  BY <1>0, <1>1, DoRunType
<1>3. OneList'
  BY <1>0, <1>1, OneListKept
<1> QED
  BY <1>0, <1>1, <1>2, <1>3, TypeParts, InvariantParts

LEMMA LinkStep ==
    ASSUME IInv, NEW r \in Runs, NEW rel \in Relations, Link(r, rel)
    PROVE  IInv'
<1> DEFINE place == [rel |-> rel, model |-> page.model]
           there == [page EXCEPT !.history = Append(SubSeq(@, 1, page.at), place),
                                 !.at = @ + 1]
<1>0. TypeOK /\ OneList
  BY DEF IInv
<1>1. /\ page' = Followed(there) /\ DoRun(r, page', TRUE) /\ Click
      /\ load' = load /\ backs' = backs /\ mixed' = mixed
      /\ Asks(place)
  BY DEF Link
<1>2. /\ WellFormed(there) /\ there.options = page.options
      /\ there.model = page.model
      /\ Here(there) = place /\ place \in Places
  BY <1>0, TypeParts, LinkedPage
<1>3. place.model = page.model
  OBVIOUS
<1> HIDE DEF there, place
<1>4. ~Elsewhere(there)
  BY <1>2, <1>3 DEF Elsewhere
<1>5. /\ WellFormed(page') /\ Named(page')
      /\ page'.model = page.model /\ page'.options = page.options
  BY <1>1, <1>2, <1>4, FollowedPage
<1>6. OneList'
  BY <1>0, <1>1, <1>5, OneListKept
<1>7. run' \in [Runs -> RunRecord \cup {None}]
  BY <1>0, <1>1, DoRunType
<1>8. asked' \in Places /\ hasty' \in BOOLEAN /\ clicks' \in 0 .. MaxClicks
  BY <1>0, <1>1, <1>2, AsksType, ClickType
<1> QED
  BY <1>0, <1>1, <1>5, <1>6, <1>7, <1>8, TypeParts, InvariantParts

(* Going back or forward; what else changes is up to the caller. *)
LEMMA PopStateStep ==
    ASSUME IInv, NEW l \in Loads, NEW r \in Runs, NEW i \in DOMAIN page.history,
           PopState(l, r, i), backs' \in Nat, clicks' \in 0 .. MaxClicks
    PROVE  IInv'
<1> DEFINE there == [page EXCEPT !.at = i]
<1>0. TypeOK /\ OneList
  BY DEF IInv
<1>1. /\ load[l] = None /\ Follow(l, there) /\ Asks(Here(there))
      /\ mixed' = IF Elsewhere(there) THEN Loading # {} ELSE mixed
      /\ DoRun(r, page', FALSE)
  BY DEF PopState
<1>2. /\ WellFormed(there) /\ there.options = page.options
      /\ there.model = page.model
  BY <1>0, TypeParts, MovedPage
<1> HIDE DEF there
<1>3. Loading \ {l} = Loading
  BY <1>1 DEF Loading
<1>4. mixed' = (IF Elsewhere(there) THEN Loading \ {l} # {} ELSE mixed)
  BY <1>1, <1>3
<1>5. /\ WellFormed(page') /\ Named(page')
      /\ load' \in [Loads -> LoadRecord \cup {None}]
      /\ mixed' \in BOOLEAN
      /\ Elsewhere(there) => OneList'
      /\ ~Elsewhere(there) => /\ Loading' = Loading \ {l}
                              /\ \A k \in Loading' : load'[k] = load[k]
                              /\ page'.model = there.model
                              /\ page'.options = there.options
                              /\ mixed' = mixed
  BY <1>0, <1>1, <1>2, <1>4, FollowStep
<1>6. OneList'
  <2>1. SUFFICES ASSUME ~Elsewhere(there) PROVE OneList'
    BY <1>5
  <2>2. /\ Loading' = Loading
        /\ \A k \in Loading : load'[k] = load[k]
        /\ page'.model = page.model /\ page'.options = page.options
        /\ mixed' = mixed
    BY <1>2, <1>3, <1>5, <2>1
  <2> QED
    BY <1>0, <2>2 DEF OneList
<1>7. run' \in [Runs -> RunRecord \cup {None}]
  BY <1>0, <1>1, DoRunType
<1>8. asked' \in Places /\ hasty' \in BOOLEAN
  BY <1>1, <1>2, HereType, AsksType
<1> QED
  BY <1>5, <1>6, <1>7, <1>8, InvariantParts

LEMMA TraverseStep ==
    ASSUME IInv, NEW l \in Loads, NEW r \in Runs, NEW i \in DOMAIN page.history,
           Traverse(l, r, i)
    PROVE  IInv'
<1>1. TypeOK /\ PopState(l, r, i) /\ Click /\ backs' = backs
  BY DEF IInv, Traverse
<1>2. backs' \in Nat /\ clicks' \in 0 .. MaxClicks
  BY <1>1, TypeParts, ClickType
<1> QED
  BY <1>1, <1>2, PopStateStep

LEMMA GoBackStep ==
    ASSUME IInv, NEW l \in Loads, NEW r \in Runs, GoBack(l, r)
    PROVE  IInv'
<1>0. TypeOK /\ OneList /\ Named(page)
  BY DEF IInv, LocationNamesSelection
<1>1. backs' \in Nat /\ clicks' \in 0 .. MaxClicks
  BY <1>0, TypeParts DEF GoBack
<1>2. CASE page.at > 1
  <2>1. page.at - 1 \in DOMAIN page.history
    BY <1>0, <1>2, TypeParts, WellFormedFields
  <2>2. PopState(l, r, page.at - 1)
    BY <1>2 DEF GoBack
  <2> QED
    BY <1>1, <2>1, <2>2, PopStateStep
<1>3. CASE ~(page.at > 1)
  <2>1. /\ page' = page /\ load' = load /\ run' = run /\ asked' = asked
        /\ hasty' = hasty /\ mixed' = mixed
    BY <1>3 DEF GoBack
  <2>2. OneList'
    BY <1>0, <2>1, OneListKept
  <2> QED
    BY <1>0, <1>1, <2>1, <2>2, TypeParts, InvariantParts
<1> QED
  BY <1>2, <1>3

LEMMA ServeStep ==
    ASSUME IInv, NEW l \in Loads, Serve(l)
    PROVE  IInv'
<1>0. TypeOK /\ OneList /\ Named(page)
  BY DEF IInv, LocationNamesSelection
<1>1. /\ load[l] # None /\ load' = [load EXCEPT ![l].served = TRUE]
      /\ page' = page /\ run' = run /\ backs' = backs /\ clicks' = clicks
      /\ asked' = asked /\ hasty' = hasty /\ mixed' = mixed
  BY DEF Serve
<1>2. load \in [Loads -> LoadRecord \cup {None}]
  BY <1>0, TypeParts
<1>3. load[l] \in LoadRecord
  BY <1>1, <1>2
<1> DEFINE k == [load[l] EXCEPT !.served = TRUE]
<1>4. k \in LoadRecord /\ k.model = load[l].model
  BY <1>3 DEF LoadRecord
<1>5. load' = [load EXCEPT ![l] = k]
  BY <1>1
<1> HIDE DEF k
<1>6. load' \in [Loads -> LoadRecord \cup {None}]
  BY <1>2, <1>4, <1>5
<1>7. \A j \in Loads : /\ load'[j] # None => load[j] # None
                       /\ load'[j].model = load[j].model
  BY <1>1, <1>2, <1>4, <1>5
<1>8. Loading' \subseteq Loading
  BY <1>7 DEF Loading
<1>9. OneList'
  <2>1. SUFFICES ASSUME ~mixed
                 PROVE  /\ \A j \in Loading' : /\ Loading' = {j}
                                               /\ page.options = {}
                                               /\ load'[j].model = page.model
                        /\ page.options \in {{}, Of[page.model]}
    BY <1>1 DEF OneList
  <2>2. /\ \A j \in Loading : /\ Loading = {j} /\ page.options = {}
                              /\ load[j].model = page.model
        /\ page.options \in {{}, Of[page.model]}
    BY <1>0, <2>1 DEF OneList
  <2>3. \A j \in Loading' : j \in Loading /\ load'[j].model = load[j].model
    BY <1>7, <1>8 DEF Loading
  <2> QED
    BY <1>8, <2>2, <2>3
<1> QED
  BY <1>0, <1>1, <1>6, <1>9, TypeParts, InvariantParts

LEMMA ArrivesStep ==
    ASSUME IInv, NEW l \in Loads, Arrives(l)
    PROVE  IInv'
<1> DEFINE new == Of[load[l].model]
           full == [page EXCEPT !.options = @ \cup new, !.known = @ \cup new]
           p == IF load[l].restores THEN Found(full, load[l].rel) ELSE full
<1>0. TypeOK /\ OneList
  BY DEF IInv
<1>1. /\ load[l] # None /\ Follow(l, p)
      /\ mixed' = IF Elsewhere(p) THEN Loading # {l} ELSE mixed
      /\ run' = run /\ backs' = backs /\ clicks' = clicks
      /\ asked' = asked /\ hasty' = hasty
  BY DEF Arrives
<1>2. l \in Loading /\ load[l].model \in Models
  BY <1>0, <1>1, TypeParts DEF Loading, LoadRecord
<1>3. new \subseteq Relations
  BY <1>2, OfAssumption
<1>4. /\ WellFormed(full) /\ full.options = page.options \cup new
      /\ full.model = page.model
  <2>1. page \in Page
    BY <1>0, TypeParts, WellFormedFields
  <2>2. page.options \cup new \subseteq Relations /\ page.known \cup new \subseteq Relations
    BY <1>0, <1>3, TypeParts, WellFormedFields
  <2> HIDE DEF new
  <2>3. /\ full \in Page /\ full.options = page.options \cup new
        /\ full.model = page.model /\ full.selected = page.selected
        /\ full.history = page.history /\ full.at = page.at
    BY <2>1, <2>2 DEF Page
  <2> HIDE DEF full
  <2> QED
    BY <1>0, <2>3, TypeParts, WellFormedFields DEF WellFormed
<1> HIDE DEF full, new
<1>5. /\ WellFormed(p) /\ p.options = page.options \cup new
      /\ p.model = page.model
  BY <1>4, FoundPage
<1> HIDE DEF p
<1>6. mixed' = (IF Elsewhere(p) THEN Loading \ {l} # {} ELSE mixed)
  <2>1. (Loading # {l}) = (Loading \ {l} # {})
    BY <1>2
  <2> QED
    BY <1>1, <2>1
<1>7. /\ WellFormed(page') /\ Named(page')
      /\ load' \in [Loads -> LoadRecord \cup {None}]
      /\ mixed' \in BOOLEAN
      /\ Elsewhere(p) => OneList'
      /\ ~Elsewhere(p) => /\ Loading' = Loading \ {l}
                          /\ \A k \in Loading' : load'[k] = load[k]
                          /\ page'.model = p.model
                          /\ page'.options = p.options
                          /\ mixed' = mixed
  BY <1>0, <1>1, <1>5, <1>6, FollowStep
<1>8. OneList'
  <2>1. SUFFICES ASSUME ~Elsewhere(p), ~mixed PROVE OneList'
    BY <1>7 DEF OneList
  <2>2. /\ Loading = {l} /\ page.options = {} /\ load[l].model = page.model
    BY <1>0, <1>2, <2>1 DEF OneList
  <2>3. /\ Loading' = {} /\ page'.model = page.model
        /\ page'.options = Of[page.model]
    BY <1>5, <1>7, <2>1, <2>2 DEF new
  <2> QED
    BY <2>3 DEF OneList
<1> QED
  BY <1>0, <1>1, <1>7, <1>8, TypeParts, InvariantParts

LEMMA LoadFailsStep ==
    ASSUME IInv, NEW l \in Loads, LoadFails(l)
    PROVE  IInv'
<1>0. TypeOK /\ OneList /\ Named(page)
  BY DEF IInv, LocationNamesSelection
<1>1. /\ load' = [load EXCEPT ![l] = None]
      /\ page' = page /\ run' = run /\ backs' = backs /\ clicks' = clicks
      /\ asked' = asked /\ hasty' = hasty /\ mixed' = mixed
  BY DEF LoadFails
<1>2. load \in [Loads -> LoadRecord \cup {None}]
  BY <1>0, TypeParts
<1>3. load' \in [Loads -> LoadRecord \cup {None}]
  BY <1>1, <1>2
<1>4. /\ Loading' \subseteq Loading
      /\ \A k \in Loading' : load'[k] = load[k]
  BY <1>1, <1>2 DEF Loading
<1>5. OneList'
  BY <1>0, <1>1, <1>4 DEF OneList
<1> QED
  BY <1>0, <1>1, <1>3, <1>5, TypeParts, InvariantParts

LEMMA RunAnsweredStep ==
    ASSUME IInv, NEW r \in Runs, RunAnswered(r)
    PROVE  IInv'
<1> DEFINE answered == [page EXCEPT !.shown = TRUE]
<1>0. TypeOK /\ OneList
  BY DEF IInv
<1>1. /\ run' = [run EXCEPT ![r] = None] /\ page' = Rewritten(answered)
      /\ hasty' = (hasty \/ page.options # Of[page.model])
      /\ load' = load /\ backs' = backs /\ clicks' = clicks /\ asked' = asked
      /\ mixed' = mixed
  BY DEF RunAnswered
<1>2. /\ WellFormed(answered) /\ answered.options = page.options
      /\ answered.model = page.model
  BY <1>0, TypeParts, WellFormedFields DEF WellFormed, Page
<1> HIDE DEF answered
<1>3. /\ WellFormed(page') /\ Named(page')
      /\ page'.options = page.options /\ page'.model = page.model
  BY <1>1, <1>2, RewrittenPage
<1>4. OneList'
  BY <1>0, <1>1, <1>3, OneListKept
<1>5. run' \in [Runs -> RunRecord \cup {None}]
  BY <1>0, <1>1, TypeParts
<1>6. hasty' \in BOOLEAN
  BY <1>0, <1>1, TypeParts
<1> QED
  BY <1>0, <1>1, <1>3, <1>4, <1>5, <1>6, TypeParts, InvariantParts

LEMMA RunFailsStep ==
    ASSUME IInv, NEW r \in Runs, RunFails(r)
    PROVE  IInv'
<1>0. TypeOK /\ OneList /\ Named(page)
  BY DEF IInv, LocationNamesSelection
<1>1. /\ run' = [run EXCEPT ![r] = None]
      /\ backs' = IF run[r].link THEN backs + 1 ELSE backs
      /\ page' = page /\ load' = load /\ clicks' = clicks
      /\ asked' = asked /\ hasty' = hasty /\ mixed' = mixed
  BY DEF RunFails
<1>2. OneList'
  BY <1>0, <1>1, OneListKept
<1>3. run' \in [Runs -> RunRecord \cup {None}] /\ backs' \in Nat
  BY <1>0, <1>1, TypeParts
<1> QED
  BY <1>0, <1>1, <1>2, <1>3, TypeParts, InvariantParts

(* ------------------------ the place asked for --------------------------- *)

LEMMA HeadingParts ==
    ASSUME IInv
    PROVE  TypeOK /\ OneList /\ WellFormed(page) /\ Named(page)
BY DEF IInv, TypeOK, LocationNamesSelection

(* While the location names another model nothing is selected. *)
LEMMA NothingElsewhere ==
    ASSUME NEW p, WellFormed(p), Named(p), Elsewhere(p)
    PROVE  p.selected = NoRel
<1>1. Here(p) # [rel |-> p.selected, model |-> p.model]
  BY DEF Elsewhere
<1> QED
  BY <1>1, WellFormedFields DEF Named, Elsewhere

(* The list on its way, when it was not asked for on top of another. *)
LEMMA OneLoad ==
    ASSUME OneList, ~mixed
    PROVE  \A l \in Loading : Loading = {l} /\ load[l].model = page.model
BY DEF OneList

LEMMA ChangeModelHeads ==
    ASSUME IInv, IInv', NEW l \in Loads, NEW m \in Models, ChangeModel(l, m)
    PROVE  Heading'
<1> DEFINE at == [page EXCEPT !.model = m]
           empty == Cleared(at)
<1>0. WellFormed(page) /\ OneList'
  BY HeadingParts DEF IInv
<1>1. WellFormed(empty) /\ empty.selected = NoRel /\ empty.model = m
  BY <1>0, ClearedPage
<1>2. /\ AskList(l, at) /\ page' = Rewritten(empty)
      /\ Asks([rel |-> NoRel, model |-> m])
  BY DEF ChangeModel
<1> HIDE DEF empty, at
<1>3. LeadsTo(page', asked') /\ ~Elsewhere(page')
  BY <1>1, <1>2, RewrittenPage DEF Asks
<1>4. ~hasty' => ~mixed'
  BY <1>2 DEF Asks, AskList
<1> QED
  BY <1>0, <1>3, <1>4 DEF Heading, OneList, LeadsTo, Elsewhere, Here

LEMMA ReloadHeads ==
    ASSUME IInv, IInv', Heading, NEW l \in Loads, Reload(l)
    PROVE  Heading'
<1>0. WellFormed(page) /\ OneList'
  BY HeadingParts DEF IInv
<1>1. /\ AskList(l, page) /\ page' = Cleared(page) /\ page.shown
      /\ hasty' = (hasty \/ Loading # {}) /\ run' = run /\ asked' = asked
  BY DEF Reload
<1>2. /\ Here(page') = Here(page) /\ page'.model = page.model
  BY <1>0, <1>1, ClearedSame
<1>3. ~hasty' => ~hasty /\ ~mixed'
  BY <1>1 DEF AskList
<1>4. ~Elsewhere(page')
  BY <1>1, <1>2 DEF Heading, Elsewhere
<1>5. \A place : LeadsTo(page, place) => LeadsTo(page', place)
  BY <1>2 DEF LeadsTo
<1> QED
  BY <1>0, <1>1, <1>3, <1>4, <1>5 DEF Heading, OneList, LeadsTo, Elsewhere, Here

LEMMA SelectHeads ==
    ASSUME IInv, NEW rel \in Relations, Select(rel)
    PROVE  Heading'
<1> DEFINE chosen == [page EXCEPT !.selected = rel]
<1>0. WellFormed(page)
  BY HeadingParts
<1>1. /\ rel \in page.options /\ page' = Rewritten(chosen) /\ load' = load
      /\ Asks([rel |-> rel, model |-> page.model])
  BY DEF Select
<1>2. /\ WellFormed(chosen) /\ chosen.selected = rel /\ chosen.model = page.model
  BY <1>0, <1>1, WellFormedFields DEF WellFormed, Page
<1> HIDE DEF chosen
<1>3. LeadsTo(page', asked') /\ ~Elsewhere(page')
  BY <1>1, <1>2, RewrittenPage DEF Asks
<1>4. ~hasty' => Loading' = {}
  BY <1>1 DEF Asks, Loading
<1> QED
  BY <1>3, <1>4 DEF Heading, LeadsTo, Elsewhere, Here

LEMMA GoHeads ==
    ASSUME IInv, Heading, NEW r \in Runs, Go(r)
    PROVE  Heading'
<1>0. TypeOK /\ WellFormed(page) /\ Named(page)
  BY HeadingParts
<1>1. /\ run' = [run EXCEPT ![r] = [link |-> FALSE, named |-> page.selected # NoRel]]
      /\ page' = page /\ load' = load /\ asked' = asked /\ hasty' = hasty
  BY DEF Go, DoRun
<1>2. run \in [Runs -> RunRecord \cup {None}]
  BY <1>0, TypeParts
<1>3. ASSUME Elsewhere(page), NEW q \in Runs, run'[q] # None
      PROVE  ~run'[q].named
  <2>1. page.selected = NoRel
    BY <1>0, <1>3, NothingElsewhere
  <2>2. CASE q = r
    BY <1>1, <1>2, <2>1, <2>2
  <2>3. CASE q # r
    BY <1>1, <1>2, <1>3, <2>3 DEF Heading
  <2> QED
    BY <2>2, <2>3
<1> QED
  BY <1>1, <1>3 DEF Heading, Loading, LeadsTo, Elsewhere, Here

LEMMA LinkHeads ==
    ASSUME IInv, NEW r \in Runs, NEW rel \in Relations, Link(r, rel)
    PROVE  Heading'
<1> DEFINE place == [rel |-> rel, model |-> page.model]
           there == [page EXCEPT !.history = Append(SubSeq(@, 1, page.at), place),
                                 !.at = @ + 1]
<1>0. WellFormed(page)
  BY HeadingParts
<1>1. page' = Followed(there) /\ load' = load /\ Asks(place)
  BY DEF Link
<1>2. /\ WellFormed(there) /\ there.options = page.options
      /\ there.model = page.model /\ Here(there) = place
  BY <1>0, LinkedPage
<1>3. place.model = page.model /\ place.model \in Models /\ place # NoHash
  <2>1. place \in [rel: Relations \cup {NoRel}, model: Models]
    BY <1>0, WellFormedFields
  <2> QED
    BY <2>1, SentinelsAssumption
<1> HIDE DEF there, place
<1>4. LeadsTo(there, place)
  BY <1>2, <1>3 DEF LeadsTo
<1>5. ~hasty' => Loading' = {} /\ page.options = Of[page.model]
  BY <1>1 DEF Asks, Loading
<1>6. ~hasty' => LeadsTo(page', asked')
  BY <1>1, <1>2, <1>3, <1>4, <1>5, FollowedLeads DEF Asks
<1>7. ~Elsewhere(page')
  BY <1>1, <1>2, FollowedPage
<1> QED
  BY <1>5, <1>6, <1>7 DEF Heading, LeadsTo, Elsewhere, Here

LEMMA PopStateHeads ==
    ASSUME IInv, IInv', NEW l \in Loads, NEW r \in Runs,
           NEW i \in DOMAIN page.history, PopState(l, r, i)
    PROVE  Heading'
<1> DEFINE there == [page EXCEPT !.at = i]
<1>0. TypeOK /\ WellFormed(page) /\ OneList'
  BY HeadingParts DEF IInv
<1>1. /\ load[l] = None /\ Follow(l, there) /\ Asks(Here(there))
      /\ mixed' = IF Elsewhere(there) THEN Loading # {} ELSE mixed
  BY DEF PopState
<1>2. /\ WellFormed(there) /\ there.options = page.options
      /\ there.model = page.model
  BY <1>0, MovedPage
<1> HIDE DEF there
<1>3. ~Elsewhere(there) => load' = load
  <2>1. load \in [Loads -> LoadRecord \cup {None}]
    BY <1>0, TypeParts
  <2> QED
    BY <1>1, <2>1 DEF Follow
<1>4. ASSUME ~hasty', asked' # NoHash, asked'.model \in Models
      PROVE  LeadsTo(page', asked')
  <2>1. asked' = Here(there)
    BY <1>1 DEF Asks
  <2>2. LeadsTo(there, asked')
    BY <1>4, <2>1 DEF LeadsTo
  <2>3. ~Elsewhere(there) => page.options = Of[page.model]
    BY <1>1, <1>3, <1>4 DEF Asks
  <2> QED
    BY <1>1, <1>2, <1>4, <2>2, <2>3, FollowedLeads DEF Follow
<1>5. ASSUME ~hasty'
      PROVE  \A k \in Loading' : Loading' = {k} /\ load'[k].model = page'.model
  <2>1. Loading = {}
    BY <1>1, <1>5 DEF Asks
  <2>2. CASE Elsewhere(there)
    BY <1>0, <1>1, <2>1, <2>2 DEF OneList
  <2>3. CASE ~Elsewhere(there)
    BY <1>3, <2>1, <2>3 DEF Loading
  <2> QED
    BY <2>2, <2>3
<1>6. ~Elsewhere(page')
  BY <1>1, <1>2, FollowedPage DEF Follow
<1> QED
  BY <1>4, <1>5, <1>6 DEF Heading, LeadsTo, Elsewhere, Here

LEMMA SameHeading ==
    ASSUME Heading, page' = page, asked' = asked, hasty' = hasty,
           Loading' \subseteq Loading,
           \A k \in Loading' : load'[k].model = load[k].model,
           \A q \in Runs : run'[q] # None => run[q] # None /\ run'[q] = run[q]
    PROVE  Heading'
<1>1. \A k \in Loading : Loading = {k} => Loading' = {} \/ Loading' = {k}
  OBVIOUS
<1>2. ~hasty => \A k \in Loading' : Loading' = {k} /\ load'[k].model = page.model
  BY <1>1 DEF Heading
<1> QED
  BY <1>2 DEF Heading, LeadsTo, Elsewhere, Here

LEMMA ArrivesHeads ==
    ASSUME IInv, IInv', Heading, NEW l \in Loads, Arrives(l)
    PROVE  Heading'
<1> DEFINE new == Of[load[l].model]
           full == [page EXCEPT !.options = @ \cup new, !.known = @ \cup new]
           p == IF load[l].restores THEN Found(full, load[l].rel) ELSE full
<1>0. TypeOK /\ WellFormed(page) /\ OneList'
  BY HeadingParts DEF IInv
<1>1. /\ load[l] # None /\ Follow(l, p)
      /\ mixed' = IF Elsewhere(p) THEN Loading # {l} ELSE mixed
      /\ run' = run /\ asked' = asked /\ hasty' = hasty
  BY DEF Arrives
<1>2. l \in Loading /\ load[l].model \in Models
  BY <1>0, <1>1, TypeParts DEF Loading, LoadRecord
<1>3. new \subseteq Relations
  BY <1>2, OfAssumption
<1>4. /\ WellFormed(full) /\ full.options = page.options \cup new
      /\ full.model = page.model /\ Here(full) = Here(page)
  <2>1. page \in Page
    BY <1>0, WellFormedFields
  <2>2. page.options \cup new \subseteq Relations /\ page.known \cup new \subseteq Relations
    BY <1>0, <1>3, WellFormedFields
  <2> HIDE DEF new
  <2>3. /\ full \in Page /\ full.options = page.options \cup new
        /\ full.model = page.model /\ full.selected = page.selected
        /\ full.history = page.history /\ full.at = page.at
    BY <2>1, <2>2 DEF Page
  <2> HIDE DEF full
  <2> QED
    BY <1>0, <2>3, WellFormedFields DEF WellFormed, Here
<1> HIDE DEF full, new
<1>5. /\ WellFormed(p) /\ p.options = page.options \cup new
      /\ p.model = page.model /\ Here(p) = Here(page)
  BY <1>4, FoundPage DEF Here
<1> HIDE DEF p
<1>6. ~Elsewhere(page')
  BY <1>1, <1>5, FollowedPage DEF Follow
<1>7. ~hasty => Loading = {l} /\ load[l].model = page.model
  BY <1>2 DEF Heading
<1>8. ASSUME ~hasty, asked # NoHash, asked.model \in Models
      PROVE  LeadsTo(page', asked)
  <2>1. LeadsTo(p, asked)
    BY <1>5, <1>8 DEF Heading, LeadsTo
  <2>2. Of[p.model] \subseteq p.options
    BY <1>5, <1>7, <1>8 DEF new
  <2> QED
    BY <1>1, <1>5, <1>8, <2>1, <2>2, FollowedLeads DEF Follow
<1>9. ASSUME ~hasty
      PROVE  \A k \in Loading' : Loading' = {k} /\ load'[k].model = page'.model
  <2>1. CASE Elsewhere(p)
    BY <1>0, <1>1, <1>7, <1>9, <2>1 DEF OneList
  <2>2. CASE ~Elsewhere(p)
    <3>1. load' = [load EXCEPT ![l] = None]
      BY <1>1, <2>2 DEF Follow
    <3>2. load \in [Loads -> LoadRecord \cup {None}]
      BY <1>0, TypeParts
    <3>3. Loading' = {}
      BY <1>7, <1>9, <3>1, <3>2 DEF Loading
    <3> QED
      BY <3>3
  <2> QED
    BY <2>1, <2>2
<1> QED
  BY <1>1, <1>6, <1>8, <1>9 DEF Heading, LeadsTo, Elsewhere, Here

LEMMA RunAnsweredHeads ==
    ASSUME IInv, Heading, NEW r \in Runs, RunAnswered(r)
    PROVE  Heading'
<1> DEFINE answered == [page EXCEPT !.shown = TRUE]
           place == [rel |-> page.selected, model |-> page.model]
<1>0. TypeOK /\ WellFormed(page) /\ Named(page)
  BY HeadingParts
<1>1. /\ run[r] # None /\ run[r].named /\ page' = Rewritten(answered)
      /\ hasty' = (hasty \/ page.options # Of[page.model])
      /\ load' = load /\ asked' = asked
  BY DEF RunAnswered
<1>2. /\ WellFormed(answered) /\ answered.selected = page.selected
      /\ answered.model = page.model
  BY <1>0, WellFormedFields DEF WellFormed, Page
<1> HIDE DEF answered
<1>3. ~Elsewhere(page)
  BY <1>1 DEF Heading
<1>4. LeadsTo(page', place) /\ ~Elsewhere(page') /\ page'.model = page.model
  BY <1>1, <1>2, RewrittenPage
<1>5. ASSUME ~hasty', asked # NoHash, asked.model \in Models
      PROVE  LeadsTo(page', asked)
  <2>1. LeadsTo(page, asked) /\ page.options = Of[page.model]
    BY <1>1, <1>5 DEF Heading
  <2>2. page.model = asked.model
    BY <1>3, <1>5, <2>1 DEF LeadsTo, Elsewhere
  <2>3. Here(page') = place
    BY <1>1, <1>2, RewrittenPage
  <2>4. ASSUME asked.rel \in Of[asked.model] \cup {NoRel}
        PROVE  page.selected = asked.rel
    <3>1. Here(page).rel = asked.rel
      BY <2>1, <2>4 DEF LeadsTo
    <3>2. CASE page.options = {}
      <4>1. asked.rel = NoRel
        BY <2>1, <2>2, <2>4, <3>2
      <4> QED
        BY <1>0, <3>2, <4>1, WellFormedFields
    <3>3. CASE page.options # {}
      <4>1. Here(page) = place
        BY <1>0, <1>5, <2>1, <3>3 DEF Named, LeadsTo
      <4> QED
        BY <3>1, <4>1
    <3> QED
      BY <3>2, <3>3
  <2> QED
    BY <1>4, <2>2, <2>3, <2>4 DEF LeadsTo
<1>6. ~hasty' => \A k \in Loading' : Loading' = {k} /\ load'[k].model = page'.model
  BY <1>1, <1>4 DEF Heading, Loading
<1> QED
  BY <1>1, <1>4, <1>5, <1>6 DEF Heading, LeadsTo, Elsewhere, Here

LEMMA InitHeads ==
    ASSUME Init
    PROVE  Heading
<1>1. PICK m \in Models, start \in Bookmarks \cup {NoHash}, l \in Loads :
        /\ page = [model |-> m, options |-> {}, selected |-> NoRel, known |-> {},
                   shown |-> FALSE, history |-> <<start>>, at |-> 1]
        /\ load = [k \in Loads |-> IF k = l THEN ListOf(m) ELSE None]
        /\ asked = start
  BY DEF Init
<1>2. Here(page) = asked /\ ~page.shown /\ page.model = m
  BY <1>1 DEF Here
<1>3. Loading \subseteq {l} /\ load[l].model = m
  BY <1>1 DEF Loading, ListOf
<1>4. \A r \in Runs : run[r] = None
  BY DEF Init
<1> QED
  BY <1>2, <1>3, <1>4 DEF Heading, LeadsTo

LEMMA NextHeads ==
    ASSUME IInv, IInv', Heading, [Next]_vars
    PROVE  Heading'
<1>1. CASE \E l \in Loads, m \in Models : ChangeModel(l, m)
  BY <1>1, ChangeModelHeads
<1>2. CASE \E l \in Loads : Reload(l)
  BY <1>2, ReloadHeads
<1>3. CASE \E rel \in Relations : Select(rel)
  BY <1>3, SelectHeads
<1>4. CASE \E r \in Runs : Go(r)
  BY <1>4, GoHeads
<1>5. CASE \E r \in Runs, rel \in Relations : Link(r, rel)
  BY <1>5, LinkHeads
<1>6. CASE \E l \in Loads, r \in Runs : \E i \in DOMAIN page.history : Traverse(l, r, i)
  BY <1>6, PopStateHeads DEF Traverse
<1>7. ASSUME NEW l \in Loads, NEW r \in Runs, GoBack(l, r)
      PROVE  Heading'
  <2>1. CASE page.at > 1
    <3>1. page.at - 1 \in DOMAIN page.history
      BY <2>1, HeadingParts, WellFormedFields
    <3> QED
      BY <1>7, <2>1, <3>1, PopStateHeads DEF GoBack
  <2>2. CASE ~(page.at > 1)
    <3>1. UNCHANGED <<page, load, run, asked, hasty>>
      BY <1>7, <2>2 DEF GoBack
    <3> QED
      BY <3>1, SameHeading DEF Loading
  <2> QED
    BY <2>1, <2>2
<1>8. ASSUME NEW l \in Loads, Serve(l) \/ LoadFails(l)
      PROVE  Heading'
  <2>1. load \in [Loads -> LoadRecord \cup {None}]
    BY HeadingParts, TypeParts
  <2>2. /\ \/ load[l] # None /\ load' = [load EXCEPT ![l].served = TRUE]
           \/ load' = [load EXCEPT ![l] = None]
        /\ UNCHANGED <<page, run, asked, hasty>>
    BY <1>8 DEF Serve, LoadFails
  <2>3. \A k \in Loads : load'[k] # None =>
                           load[k] # None /\ load'[k].model = load[k].model
    BY <2>1, <2>2 DEF LoadRecord
  <2>4. /\ Loading' \subseteq Loading
        /\ \A k \in Loading' : load'[k].model = load[k].model
    BY <2>3 DEF Loading
  <2> QED
    BY <2>2, <2>4, SameHeading
<1>9. CASE \E l \in Loads : Arrives(l)
  BY <1>9, ArrivesHeads
<1>10. CASE \E r \in Runs : RunAnswered(r)
  BY <1>10, RunAnsweredHeads
<1>11. ASSUME NEW r \in Runs, RunFails(r)
       PROVE  Heading'
  <2>1. run \in [Runs -> RunRecord \cup {None}]
    BY HeadingParts, TypeParts
  <2>2. /\ run' = [run EXCEPT ![r] = None]
        /\ UNCHANGED <<page, load, asked, hasty>>
    BY <1>11 DEF RunFails
  <2>3. \A q \in Runs : run'[q] # None => run[q] # None /\ run'[q] = run[q]
    BY <2>1, <2>2
  <2> QED
    BY <2>2, <2>3, SameHeading DEF Loading
<1>12. CASE UNCHANGED vars
  BY <1>12, SameHeading DEF vars, Loading
<1> QED
  BY <1>1, <1>2, <1>3, <1>4, <1>5, <1>6, <1>7, <1>8, <1>9, <1>10, <1>11, <1>12
  DEF Next, User, LoadStep

(* ----------------------------- the theorems ------------------------------ *)

LEMMA NextHolds ==
    ASSUME IInv, [Next]_vars
    PROVE  IInv'
<1>1. CASE \E l \in Loads, m \in Models : ChangeModel(l, m)
  BY <1>1, ChangeModelStep
<1>2. CASE \E l \in Loads : Reload(l)
  BY <1>2, ReloadStep
<1>3. CASE \E rel \in Relations : Select(rel)
  BY <1>3, SelectStep
<1>4. CASE \E r \in Runs : Go(r)
  BY <1>4, GoStep
<1>5. CASE \E r \in Runs, rel \in Relations : Link(r, rel)
  BY <1>5, LinkStep
<1>6. CASE \E l \in Loads, r \in Runs : \E i \in DOMAIN page.history : Traverse(l, r, i)
  BY <1>6, TraverseStep
<1>7. CASE \E l \in Loads, r \in Runs : GoBack(l, r)
  BY <1>7, GoBackStep
<1>8. CASE \E l \in Loads : LoadStep(l)
  BY <1>8, ServeStep, ArrivesStep, LoadFailsStep DEF LoadStep
<1>9. CASE \E r \in Runs : RunAnswered(r) \/ RunFails(r)
  BY <1>9, RunAnsweredStep, RunFailsStep
<1>10. CASE UNCHANGED vars
  BY <1>10 DEF vars, IInv, TypeOK, OneList, LocationNamesSelection, Loading
<1> QED
  BY <1>1, <1>2, <1>3, <1>4, <1>5, <1>6, <1>7, <1>8, <1>9, <1>10 DEF Next, User

(* The inductive invariant: the location names the selection, and of lists  *)
(* that were not asked for on top of one another at most one is on its way, *)
(* for the model selected (index.html, queryon-b.js, queryon-b2.js).        *)
THEOREM Invariance == Spec => []IInv
<1>1. Init => IInv
  BY InitHolds
<1>2. IInv /\ [Next]_vars => IInv'
  BY NextHolds
<1> QED
  BY <1>1, <1>2, PTL DEF Spec

(* The select offers only relations, its value is one of the options, and   *)
(* the position in the history is an entry of it.                           *)
THEOREM TypeCorrect == Spec => []TypeOK
<1>1. IInv => TypeOK
  BY DEF IInv
<1> QED
  BY <1>1, Invariance, PTL

(* Once a list is there, the location names the relation and the model that *)
(* are selected (updateState, updateSelectedQueryState).                    *)
THEOREM PlaceIsNamed == Spec => []LocationNamesSelection
<1>1. IInv => LocationNamesSelection
  BY DEF IInv
<1> QED
  BY <1>1, Invariance, PTL

(* Unless two lists were in flight at once, the list is that of the model   *)
(* (writeRelations appends, loadQueries0 empties).                          *)
THEOREM ListsDoNotMix == Spec => []ListIsOfModel
<1>1. IInv => ListIsOfModel
  BY DEF IInv, OneList, ListIsOfModel
<1> QED
  BY <1>1, Invariance, PTL

(* When the list is there, and unless something else met a missing list in  *)
(* between, the place that was asked for last is the one selected, if its   *)
(* model has the relation (updateSelectedQueryState, onModelChanged, the    *)
(* links of queryon-b.js).                                                  *)
THEOREM AskedIsReached == Spec => []AskedIsSelected
<1>1. Init => IInv /\ Heading
  BY InitHolds, InitHeads
<1>2. IInv /\ Heading /\ [Next]_vars => (IInv /\ Heading)'
  BY NextHolds, NextHeads
<1>3. ASSUME IInv, Heading
      PROVE  AskedIsSelected
  <2>1. SUFFICES ASSUME Quiet, ~hasty, asked # NoHash, asked.model \in Models
                 PROVE  /\ page.model = asked.model
                        /\ asked.rel \in Of[page.model] \cup {NoRel} =>
                             page.selected = asked.rel
    BY DEF AskedIsSelected
  <2>2. LeadsTo(page, asked) /\ Named(page)
    BY <1>3, <2>1, HeadingParts DEF Heading
  <2>3. Here(page) = [rel |-> page.selected, model |-> page.model]
    BY <2>1, <2>2 DEF Named, LeadsTo, Quiet
  <2> QED
    BY <2>2, <2>3 DEF LeadsTo
<1> QED
  BY <1>1, <1>2, <1>3, PTL DEF Spec
=============================================================================
