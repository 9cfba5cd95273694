-------------------------------- MODULE Trips --------------------------------
(***************************************************************************)
(* The trips page of the admin console: a list page (module Lists) with a  *)
(* selection, actions on the selected trips, a menu on each row and a      *)
(* dialog for one trip.                                                    *)
(***************************************************************************)
EXTENDS Lists

CONSTANT Filters    \* sets of trips that the search, route and time boxes can filter out

ASSUME TripsAssumption == Filters \subseteq SUBSET Item /\ {} \in Filters

VARIABLES
    hidden,     \* trips that are filtered out
    selected,   \* selectedIds
    batch,      \* the loop of handleBatchAction: the ids it has captured,
                \* those to come, and those it has got an error for
    modal,      \* tripToProcess, and which of the two dialogs is open
    agreed      \* auxiliary: trips whose cancellation has been confirmed

trips == <<hidden, selected, batch, modal, agreed>>

NoBatch == [ids |-> {}, todo |-> {}, failed |-> {}]
NoModal == [open |-> "none", trip |-> {}]

TripsTypeOK ==
    /\ {hidden, selected, agreed} \subseteq SUBSET Item
    /\ batch \in [ids : SUBSET Item, todo : SUBSET Item, failed : SUBSET Item]
    /\ modal \in [open : {"none", "cancel", "delete"}, trip : {{i} : i \in Item} \cup {{}}]

TripsInit ==
    /\ hidden = {}
    /\ selected = {}
    /\ batch = NoBatch
    /\ modal = NoModal
    /\ agreed = {}

Same == UNCHANGED <<view, server, list, doubt>>

\* The rows of the table, which is not there while trips are loading.
Filtered == {i \in Item : rows[i] # "absent"} \ hidden
InTable(i) == view = "trips" /\ ~loading /\ i \in Filtered

-----------------------------------------------------------------------------
(* Filters and the selection *)

\* Of the filters only those of status and bus type clear the selection.
Search(h) ==
    /\ view = "trips" /\ h # hidden
    /\ hidden' = h
    /\ UNCHANGED <<selected, batch, modal, agreed, call, changes>> /\ Same

FilterStatus(h) ==
    /\ view = "trips"
    /\ hidden' = h
    /\ selected' = {}
    /\ UNCHANGED <<batch, modal, agreed, call, changes>> /\ Same

ToggleSelectOne(i) ==
    /\ InTable(i)
    /\ selected' = (selected \ {i}) \cup ({i} \ selected)
    /\ UNCHANGED <<hidden, batch, modal, agreed, call, changes>> /\ Same

\* The numbers are compared, not the sets.
ToggleSelectAll ==
    /\ \E i \in Item : InTable(i)
    /\ selected' = IF Cardinality(selected) = Cardinality(Filtered) THEN {} ELSE Filtered
    /\ UNCHANGED <<hidden, batch, modal, agreed, call, changes>> /\ Same

-----------------------------------------------------------------------------
(* Changes of trips *)

\* The buttons stay enabled while a batch runs; one batch at a time is a bound.
CanBatch == view = "trips" /\ selected # {} /\ batch.ids = {}

BatchStatus ==
    /\ CanBatch
    /\ Start("forced", selected, "batch")
    /\ UNCHANGED trips /\ Same

BatchExport ==
    /\ CanBatch /\ \A c \in Changing : call[c].what # "export"
    /\ Start("export", selected, "batch")
    /\ UNCHANGED trips /\ Same

\* The ids are captured; the first call begins.
BatchCancel ==
    /\ CanBatch
    /\ \E i \in selected :
         /\ Start("cancelled", {i}, "batch")
         /\ batch' = [ids |-> selected, todo |-> selected \ {i}, failed |-> {}]
    /\ agreed' = agreed \cup selected
    /\ UNCHANGED <<hidden, selected, modal>> /\ Same

\* Manual overrides are offered for trips shown as not cancelled.
ForceStatus(i) ==
    /\ InTable(i) /\ rows[i] # "cancelled"
    /\ \E s \in {"plain", "forced"} \ {rows[i]} : Start(s, {i}, "page")
    /\ UNCHANGED trips /\ Same

HandleCancelClick(i) ==
    /\ InTable(i) /\ rows[i] # "cancelled"
    /\ modal' = [open |-> "cancel", trip |-> {i}]
    /\ UNCHANGED <<hidden, selected, batch, agreed, call, changes>> /\ Same

\* For a trip shown without bookings.
HandleDeleteClick(i) ==
    /\ InTable(i)
    /\ modal' = [open |-> "delete", trip |-> {i}]
    /\ UNCHANGED <<hidden, selected, batch, agreed, call, changes>> /\ Same

Deleting == \E c \in Changing : call[c].what = "gone"

CloseModal ==
    /\ view = "trips" /\ modal # NoModal /\ (modal.open = "delete" => ~Deleting)
    /\ modal' = NoModal
    /\ UNCHANGED <<hidden, selected, batch, agreed, call, changes>> /\ Same

HandleCancelConfirm ==
    /\ modal.open = "cancel"
    /\ Start("cancelled", modal.trip, "modal")
    /\ agreed' = agreed \cup modal.trip
    /\ UNCHANGED <<hidden, selected, batch, modal>> /\ Same

HandleDeleteConfirm ==
    /\ modal.open = "delete" /\ ~Deleting
    /\ Start("gone", modal.trip, "modal")
    /\ UNCHANGED trips /\ Same

-----------------------------------------------------------------------------
(* Answers *)

\* A loop over the trips that are selected by now.
BatchGoesOnWithSelected(c, failed) ==
    LET left == (selected \ batch.ids) \cup batch.todo
    IN  IF left = {} THEN /\ call' = [call EXCEPT ![c] = NoCall]
                          /\ batch' = NoBatch
                          /\ selected' = {}
        ELSE \E i \in left :
               /\ call' = [call EXCEPT ![c].at = "sent", ![c].on = {i}]
               /\ batch' = [ids |-> batch.ids \cup {i}, todo |-> left \ {i}, failed |-> failed]
               /\ UNCHANGED selected

\* A loop that an error breaks off.
BatchStopsAtError(c, failed) ==
    IF batch.todo = {} \/ failed # batch.failed
    THEN call' = [call EXCEPT ![c] = NoCall] /\ batch' = NoBatch /\ selected' = {}
    ELSE \E i \in batch.todo :
           /\ call' = [call EXCEPT ![c].at = "sent", ![c].on = {i}]
           /\ batch' = [batch EXCEPT !.todo = @ \ {i}]
           /\ UNCHANGED selected

\* cancelTrip catches its errors, so the loop goes on; at its end whatever is
\* selected by then is not any more.
BatchGoesOn(c, failed) ==
    IF batch.todo = {}
    THEN call' = [call EXCEPT ![c] = NoCall] /\ batch' = NoBatch /\ selected' = {}
    ELSE \E i \in batch.todo :
           /\ call' = [call EXCEPT ![c].at = "sent", ![c].on = {i}]
           /\ batch' = [batch EXCEPT !.todo = @ \ {i}, !.failed = failed]
           /\ UNCHANGED selected

\* Every change but the export is followed by fetchTrips() without dates, and
\* a dialog closes, whichever trip it is for by now.
TripsAnswer(c) ==
    /\ view = "trips" /\ call[c].at = "done"
    /\ IF call[c].by = "batch" /\ call[c].what = "cancelled"
       THEN BatchGoesOn(c, batch.failed)
       ELSE /\ call' = [call EXCEPT ![c] = NoCall]
            /\ selected' = IF call[c].by = "batch" THEN {} ELSE selected
            /\ UNCHANGED batch
    /\ modal' = IF call[c].by = "modal" THEN NoModal ELSE modal
    /\ UNCHANGED <<view, server, query, table, hidden, agreed, changes>>
    /\ IF call[c].what = "export" THEN UNCHANGED <<fetch, loading, doubt>> ELSE Ask(ThisWeek)

\* After an error the selection is kept by the export alone, and the dialog.
TripsError(c) ==
    /\ view = "trips" /\ call[c].at = "refused"
    /\ IF call[c].by = "batch" /\ call[c].what = "cancelled"
       THEN BatchGoesOn(c, batch.failed \cup call[c].on)
       ELSE /\ call' = [call EXCEPT ![c] = NoCall]
            /\ selected' = IF call[c].by = "batch" /\ call[c].what # "export" THEN {} ELSE selected
            /\ UNCHANGED batch
    /\ UNCHANGED <<hidden, modal, agreed, changes>> /\ Same

-----------------------------------------------------------------------------
TripsNext ==
    \/ \E h \in Filters : Search(h) \/ FilterStatus(h)
    \/ \E i \in Item : ToggleSelectOne(i) \/ ForceStatus(i) \/ HandleCancelClick(i)
                       \/ HandleDeleteClick(i)
    \/ ToggleSelectAll \/ BatchStatus \/ BatchExport \/ BatchCancel
    \/ CloseModal \/ HandleCancelConfirm \/ HandleDeleteConfirm
    \/ \E c \in Call : TripsAnswer(c) \/ TripsError(c)
    \/ \E q \in Query : SetWeek(q) /\ UNCHANGED trips
=============================================================================
