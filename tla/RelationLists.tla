---------------------------- MODULE RelationLists ----------------------------
(***************************************************************************)
(* Where index.html is: the model and the relation that are selected, the  *)
(* list of the model's relations, which is loaded when the model changes,  *)
(* and the fragment of the location, which bookmarks, links and the        *)
(* browser's history use to name a relation.  updateSelectedQueryState     *)
(* brings the selects to what the location says, updateState the location  *)
(* to what the selects say; lists and runs are answered in between.        *)
(*                                                                         *)
(* A definition named X_Y is a wrong version of X (README, "What the       *)
(* properties can see").                                                   *)
(***************************************************************************)
EXTENDS Naturals, Sequences

CONSTANTS
    Models,    \* at least two: isMultiModel()
    Relations, \* names of relations
    Of,        \* Of[m]: the relations of model m
    Bookmarks, \* fragments "rel|...|model" with which the page may be opened;
               \* the model may be missing, or one that is gone
    Loads,     \* identities of loads (bound: loads in flight at once)
    Runs,      \* identities of runs (bound: runs in flight at once)
    MaxClicks, \* bound: clicks that load a list or change the history
    NoRel,     \* the option "select object"
    NoModel,   \* a fragment without a model
    NoHash,    \* a location without a fragment
    None       \* the identity is free

ASSUME OfAssumption == Of \in [Models -> SUBSET Relations]
ASSUME SentinelsAssumption ==
    /\ NoRel \notin Relations /\ NoModel \notin Models
    /\ NoHash \notin Bookmarks \cup [rel: Relations \cup {NoRel}, model: Models]
    /\ \A b \in Bookmarks : b.rel \in Relations
ASSUME MaxClicksAssumption == MaxClicks \in Nat

VARIABLES
    page,   \* the selects "model" and "objects", relationsHash and the history;
            \* shown: a run has been answered, the content has links and buttons
    load,   \* GET /relation.json in flight; restores: with the callback of a
            \* navigation; served: the server has answered
    run,    \* runs in flight; link: history.back() if it fails
    backs,  \* calls of history.back() that have not happened yet
    clicks, \* clicks that load a list or change the history
    asked,  \* history: the place that was asked for last
    hasty,  \* history: since then something else has met a list that was not there
    mixed   \* history: the list was asked for while another was in flight

vars == <<page, load, run, backs, clicks, asked, hasty, mixed>>

Loading == {l \in Loads : load[l] # None}

Places == Bookmarks \cup {NoHash} \cup [rel: Relations \cup {NoRel}, model: Models]

Page == [model: Models, options: SUBSET Relations, selected: Relations \cup {NoRel},
         known: SUBSET Relations, shown: BOOLEAN, history: Seq(Places), at: Nat]

WellFormed(p) ==
    p \in Page /\ p.selected \in p.options \cup {NoRel} /\ p.at \in 1 .. Len(p.history)

TypeOK ==
    /\ WellFormed(page)
    /\ load \in [Loads -> [model: Models, rel: Relations \cup {NoRel},
                           restores: BOOLEAN, served: BOOLEAN] \cup {None}]
    /\ run \in [Runs -> [link: BOOLEAN, named: BOOLEAN] \cup {None}]
    /\ backs \in Nat
    /\ clicks \in 0 .. MaxClicks
    /\ asked \in Places
    /\ hasty \in BOOLEAN /\ mixed \in BOOLEAN

(* ----------------------- functions of the page -------------------------- *)

Here(p) == p.history[p.at]

(* loadQueries0 empties the select when it asks for the list. *)
Cleared_KeepsOptions(p) == [p EXCEPT !.selected = NoRel]
Cleared(p) == [p EXCEPT !.options = {}, !.selected = NoRel]

(* updateState: replaceState with what is selected. *)
Rewritten(p) == [p EXCEPT !.history[p.at] = [rel |-> p.selected, model |-> p.model]]

(* updateSelectedQueryStateParametersCallback: a relation that is not in    *)
(* the list leaves the selection alone.                                     *)
Found_Anyway(p, rel) == [p EXCEPT !.selected = rel]
Found(p, rel) == IF rel \in p.options \cup {NoRel} THEN [p EXCEPT !.selected = rel] ELSE p

(* The location names another model than the one selected. *)
Elsewhere(p) == Here(p) # NoHash /\ Here(p).model \in Models \ {p.model}

(* updateSelectedQueryState; a model that is not in the select ends it. *)
Followed_OnlyFound(p) ==
    IF Here(p) = NoHash \/ Here(p).model \notin Models \cup {NoModel} THEN p
    ELSE IF Elsewhere(p) THEN Cleared([p EXCEPT !.model = Here(p).model])
    ELSE IF Here(p).rel \in p.options \cup {NoRel} THEN Rewritten(Found(p, Here(p).rel))
    ELSE p
Followed_KeepsModel(p) ==
    IF Here(p) = NoHash \/ Here(p).model \notin Models \cup {NoModel} THEN p
    ELSE IF Elsewhere(p) THEN Cleared(p)
    ELSE Rewritten(Found(p, Here(p).rel))
Followed(p) ==
    IF Here(p) = NoHash \/ Here(p).model \notin Models \cup {NoModel} THEN p
    ELSE IF Elsewhere(p) THEN Cleared([p EXCEPT !.model = Here(p).model])
    ELSE Rewritten(Found(p, Here(p).rel))

(* Its second half: the list of the other model, with a callback. *)
Follow(l, p) ==
    /\ page' = Followed(p)
    /\ load' = [load EXCEPT ![l] =
                  IF Elsewhere(p)
                  THEN [model |-> Here(p).model, rel |-> Here(p).rel, restores |-> TRUE,
                        served |-> FALSE]
                  ELSE None]

(* ------------------------------- the user ------------------------------- *)

(* loadQueries without a callback *)
ListOf(m) == [model |-> m, rel |-> NoRel, restores |-> FALSE, served |-> FALSE]

Init ==
    /\ \E m \in Models, start \in Bookmarks \cup {NoHash}, l \in Loads :
          /\ page = [model |-> m, options |-> {}, selected |-> NoRel, known |-> {},
                     shown |-> FALSE, history |-> <<start>>, at |-> 1]
          /\ load = [k \in Loads |->
                       IF k = l THEN ListOf(m) ELSE None]
          /\ asked = start
    /\ run = [r \in Runs |-> None]
    /\ backs = 0
    /\ clicks = 0
    /\ hasty = FALSE
    /\ mixed = FALSE

Click == clicks < MaxClicks /\ clicks' = clicks + 1

(* hasty: a list is on its way, or the list is not that of the model and is *)
(* not asked for now.                                                       *)
Asks(place) ==
    /\ asked' = place
    /\ hasty' = (Loading # {} \/ (page.options # Of[page.model] /\ load' = load))

(* doLoadQueries() *)
AskList(l, p) ==
    /\ load[l] = None
    /\ load' = [load EXCEPT ![l] = ListOf(p.model)]
    /\ mixed' = (Loading # {})

(* doRun *)
DoRun(r, p, link) ==
    /\ run[r] = None
    /\ run' = [run EXCEPT ![r] = [link |-> link, named |-> p.selected # NoRel]]

(* onModelChanged *)
ChangeModel_KeepsPlace(l, m) ==
    /\ Click /\ m # page.model
    /\ AskList(l, [page EXCEPT !.model = m])
    /\ page' = Cleared([page EXCEPT !.model = m])
    /\ Asks([rel |-> NoRel, model |-> m])
    /\ UNCHANGED <<run, backs>>
ChangeModel(l, m) ==
    /\ Click /\ m # page.model
    /\ AskList(l, [page EXCEPT !.model = m])
    /\ page' = Rewritten(Cleared([page EXCEPT !.model = m]))
    /\ Asks([rel |-> NoRel, model |-> m])
    /\ UNCHANGED <<run, backs>>

(* onchange of the select "objects" *)
Select(rel) ==
    /\ rel \in page.options
    /\ page' = Rewritten([page EXCEPT !.selected = rel])
    /\ UNCHANGED <<load, run, backs, clicks, mixed>>
    /\ Asks([rel |-> rel, model |-> page.model])

(* The button "go!", sorting, turning pages. *)
Go(r) ==
    /\ DoRun(r, page, FALSE)
    /\ UNCHANGED <<page, load, backs, clicks, asked, hasty, mixed>>

(* An edit of a table of meta-objects was answered: the list is loaded      *)
(* again, the location stays.                                               *)
Reload(l) ==
    /\ Click /\ page.shown
    /\ AskList(l, page)
    /\ page' = Cleared(page)
    /\ hasty' = (hasty \/ Loading # {})
    /\ UNCHANGED <<run, backs, asked>>

(* innerHrefInterceptor: a link to a relation; relationsHash has those of   *)
(* all the models loaded so far.                                            *)
Link(r, rel) ==
    /\ Click /\ page.shown /\ rel \in page.known
    /\ LET place == [rel |-> rel, model |-> page.model]
           there == [page EXCEPT !.history = Append(SubSeq(@, 1, page.at), place),
                                 !.at = @ + 1]
       IN /\ page' = Followed(there)
          /\ DoRun(r, page', TRUE)
          /\ UNCHANGED <<load, backs, mixed>>
          /\ Asks(place)

(* onPopState, which also asks for a run. *)
PopState(l, r, i) ==
    /\ load[l] = None
    /\ LET there == [page EXCEPT !.at = i] IN
       /\ Follow(l, there)
       /\ mixed' = IF Elsewhere(there) THEN Loading # {} ELSE mixed
       /\ Asks(Here(there))
    /\ DoRun(r, page', FALSE)

Traverse(l, r, i) ==
    /\ Click /\ i \in {page.at - 1, page.at + 1} \cap DOMAIN page.history
    /\ PopState(l, r, i)
    /\ UNCHANGED backs

(* --------------------------- what comes later --------------------------- *)

(* history.back() of a link whose run has failed; before the first entry   *)
(* is another page, which is not modelled.                                  *)
GoBack(l, r) ==
    /\ backs > 0
    /\ backs' = backs - 1
    /\ IF page.at > 1 THEN PopState(l, r, page.at - 1)
       ELSE UNCHANGED <<page, load, run, asked, hasty, mixed>>
    /\ UNCHANGED clicks

Serve(l) ==
    /\ load[l] # None /\ ~load[l].served
    /\ load' = [load EXCEPT ![l].served = TRUE]
    /\ UNCHANGED <<page, run, backs, clicks, asked, hasty, mixed>>

(* writeRelations appends to the list, whatever it holds; then the state is *)
(* updated, or the callback of the navigation selects and then updates it.  *)
Arrives(l) ==
    /\ load[l] # None /\ load[l].served
    /\ LET new == Of[load[l].model]
           full == [page EXCEPT !.options = @ \cup new, !.known = @ \cup new]
           p == IF load[l].restores THEN Found(full, load[l].rel) ELSE full
       IN /\ Follow(l, p)
          /\ mixed' = IF Elsewhere(p) THEN Loading # {l} ELSE mixed
    /\ UNCHANGED <<run, backs, clicks, asked, hasty>>

LoadFails(l) ==
    /\ load[l] # None
    /\ load' = [load EXCEPT ![l] = None]
    /\ UNCHANGED <<page, run, backs, clicks, asked, hasty, mixed>>

(* doRunCallback ends with updateState.  The server finds no relation       *)
(* without a name.                                                          *)
RunAnswered(r) ==
    /\ run[r] # None /\ run[r].named
    /\ run' = [run EXCEPT ![r] = None]
    /\ page' = Rewritten([page EXCEPT !.shown = TRUE])
    /\ hasty' = (hasty \/ page.options # Of[page.model])
    /\ UNCHANGED <<load, backs, clicks, asked, mixed>>

RunFails(r) ==
    /\ run[r] # None
    /\ run' = [run EXCEPT ![r] = None]
    /\ backs' = IF run[r].link THEN backs + 1 ELSE backs
    /\ UNCHANGED <<page, load, clicks, asked, hasty, mixed>>

User ==
    \/ \E l \in Loads, m \in Models : ChangeModel(l, m)
    \/ \E l \in Loads : Reload(l)
    \/ \E rel \in Relations : Select(rel)
    \/ \E r \in Runs : Go(r) \/ \E rel \in Relations : Link(r, rel)
    \/ \E l \in Loads, r \in Runs : \E i \in DOMAIN page.history : Traverse(l, r, i)

LoadStep(l) == Serve(l) \/ Arrives(l) \/ LoadFails(l)

Next ==
    \/ User
    \/ \E l \in Loads, r \in Runs : GoBack(l, r)
    \/ \E l \in Loads : LoadStep(l)
    \/ \E r \in Runs : RunAnswered(r) \/ RunFails(r)

(* A call is answered, or the browser reports its failure. *)
Spec == Init /\ [][Next]_vars /\ \A l \in Loads : WF_vars(LoadStep(l))

-----------------------------------------------------------------------------
(* Once a list is there the location names what is selected, so that a      *)
(* bookmark, a permalink or the history lead back to it: through            *)
(* navigations, reloads of the list, late answers and relations that are    *)
(* not found (updateState, updateSelectedQueryState).  A fragment with a    *)
(* model that is gone stays as it is.                                       *)
Named(p) ==
    \/ p.options = {}
    \/ Here(p) = NoHash \/ Here(p).model \notin Models \cup {NoModel}
    \/ Here(p) = [rel |-> p.selected, model |-> p.model]
LocationNamesSelection == Named(page)

(* When the list is there, and unless something else happened while one was *)
(* missing, the place that was asked for last, by a bookmark, the selects,  *)
(* a link or the history, is the one selected, if its model is there and    *)
(* has the relation (updateSelectedQueryStateParameters, onModelChanged).   *)
Quiet == Loading = {} /\ page.options # {}
AskedIsSelected ==
    Quiet /\ ~hasty /\ asked # NoHash /\ asked.model \in Models =>
        /\ page.model = asked.model
        /\ asked.rel \in Of[page.model] \cup {NoRel} => page.selected = asked.rel

(* The list has the relations of the model selected and no others, unless   *)
(* two lists were in flight at once: their answers add up (writeRelations   *)
(* appends).                                                                *)
ListIsOfModel == Loading = {} /\ ~mixed => page.options \in {{}, Of[page.model]}

(* "recursion hazzard!" (queryon-b2.js:97): an answer may ask for another   *)
(* list, whose answer updates the state again.  Loading ends all the same.  *)
LoadingEnds == Loading # {} ~> Loading = {}
=============================================================================
