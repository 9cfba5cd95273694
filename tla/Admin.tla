-------------------------------- MODULE Admin --------------------------------
(***************************************************************************)
(* The admin console: one of its list pages, the trips page among them     *)
(* (modules Lists and Trips), or the form of a trip (module TripForm).     *)
(***************************************************************************)
EXTENDS Trips, TripForm

vars == <<view, server, list, call, changes, doubt, trips, formVars>>

TypeOK == ListsTypeOK /\ TripsTypeOK /\ FormTypeOK

Init == ListsInit /\ TripsInit /\ FormInit

Next ==
    \/ view \notin {"trips", "form"} /\ ListsNext /\ UNCHANGED <<trips, formVars>>
    \/ view = "trips" /\ TripsNext /\ UNCHANGED formVars
    \/ view # "form" /\ Network /\ UNCHANGED <<trips, formVars>>
    \/ view = "form" /\ FormNext /\ UNCHANGED <<view, server, list, call, changes, doubt, trips>>

Spec == Init /\ [][Next]_vars

-----------------------------------------------------------------------------
AtRest == InFlight = {} /\ Changing = {}

\* Trips are shown for the chosen week, or for this one after a change.
Target == {query} \cup IF view = "trips" THEN {ThisWeek} ELSE {}

\* What may be shown for i: what the list for q has.  After a change whose answer
\* was put into the row it is the server's value whatever the filters are; a row
\* that such an answer did not find is not made.  Only what rejectUser and the
\* status check of an undecided payment show may be the server's or not.
RowAgrees(i, q) ==
    CASE mark[i] = "listed" -> rows[i] = Shown(q)[i]
      [] mark[i] = "edited" -> rows[i] \in {"absent", item[i]}
      [] mark[i] = "pretended" -> TRUE

\* What is shown is what the server has, the administrator's own changes
\* included: at rest, if no two fetches have overlapped, no answer was lost and no
\* change was answered during a fetch, every row agrees with the list for what
\* is chosen, in value, and unless it was changed in it, in being there at all.
RowsMatchServer ==
    AtRest /\ ~doubt /\ view # "form" => \E q \in Target : \A i \in Item : RowAgrees(i, q)

\* No page spins without a fetch that will end it.
LoadingMeansFetch == loading /\ view # "form" => InFlight # {}

\* The students of a trip are refunded only after the administrator has been
\* asked about this trip, whatever is selected or opened while calls run.
RefundsAgreed == refunded \subseteq agreed

\* When the cancellation of a selection is over, every trip of it has been
\* cancelled and refunded, or its error has been shown.
BatchTriesAll ==
    [][batch.ids # {} /\ batch'.ids = {} =>
         batch.ids \subseteq refunded \cup batch.failed \cup
                             UNION {call[c].on : c \in {d \in Call : call[d].at = "refused"}}]_vars

\* A trip that can be submitted has stops of its own route alone, if the
\* templates of different routes have not overtaken each other.
SubmitsOneRoute == CanSubmit /\ ~mixed => stops \subseteq {route}

\* TripsPage says of a cancellation that it is permanent: a trip whose students
\* have been refunded stays cancelled until it is deleted.
CancellationPermanent == \A i \in refunded : item[i] \in {"cancelled", "gone"}
=============================================================================
