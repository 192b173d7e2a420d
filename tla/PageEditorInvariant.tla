------------------------ MODULE PageEditorInvariant ------------------------
(***************************************************************************)
(* The inductive invariant of PageEditor: what a version number tells of   *)
(* the content that a form is based on, for every call that is still on    *)
(* its way.                                                                *)
(***************************************************************************)
EXTENDS PageEditor

Number(row) == IF row.version = Null THEN 0 ELSE row.version

(* The log ends with the row as it is; between two removals the numbers of  *)
(* the row's versions ascend, so that a number names one content.           *)
Ascending ==
    \A i \in 1 .. Len(log) : \A j \in 1 .. Len(log) :
        i < j /\ (\A k \in i .. j : log[k] # NoRow) => Number(log[i]) < Number(log[j])

Logged == Len(log) >= 1 /\ log[Len(log)] = table[Object] /\ Ascending

(* The lock l that a form shows or a call carries is that of the content it *)
(* is based on, the b-th of all contents.                                   *)
BasedOn(contents, b, l) ==
    IF b = 0 THEN l = Null
    ELSE b \in 1 .. Len(contents) /\ contents[b] # NoRow /\ contents[b].version = l

Forms == \A t \in Tabs : BasedOn(log, basis[t], lock[t])

(* A call that was served has read or made its result. *)
Known(contents, k) ==
    /\ BasedOn(contents, k.basis, k.lock)
    /\ k.op # "load" => k.version = NextVersion(k.lock)
    /\ k.served /\ k.op # "delete" =>
          k.result \in 1 .. Len(contents) /\ contents[k.result] # NoRow
    /\ k.served /\ k.op \in {"insert", "update"} =>
          contents[k.result].version = k.version /\ contents[k.result].group = k.text

CallsKnown ==
    \A t \in Tabs : \A c \in Connections : call[t][c] # NoCall => Known(log, call[t][c])

(* Unless marked, a text is the one that every save in flight carries. *)
TextsSent == \A t \in Tabs : ~overtaken[t] => ~Outdated(t, text[t])

IInv ==
    /\ TypeOK
    /\ Logged
    /\ Forms
    /\ CallsKnown
    /\ TextsSent
    /\ ClosesOnlyStored
    /\ BusyMeansSaving
=============================================================================
