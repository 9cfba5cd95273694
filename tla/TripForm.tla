------------------------------- MODULE TripForm ------------------------------
(***************************************************************************)
(* The form that creates, edits or duplicates a trip, and the route        *)
(* template that the store holds for it.  selectRoute is called by the     *)
(* store, by the form when it is mounted and by the choice of a route, and *)
(* nothing orders its answers.                                             *)
(***************************************************************************)
EXTENDS Naturals, FiniteSets

CONSTANTS
    Route,
    NoRoute,
    Pick        \* calls of selectRoute in flight at once

ASSUME TripFormAssumption == NoRoute \notin Route

VARIABLES
    template,   \* the route of the store's template
    source,     \* the route of editingTrip or duplicateTemplate
    mode,       \* no form, or what it is for
    route,      \* routeId
    stops,      \* routes whose stops are in selectedStopIds
    pick,       \* calls of selectRoute, and what goes on after them
    submitting, \* isSubmitting: what the form was for, and whether it is still there
    mixed       \* auxiliary: calls for different routes have overlapped

formVars == <<template, source, mode, route, stops, pick, submitting, mixed>>

NoPick == [at |-> "idle", route |-> NoRoute, then |-> "nothing"]
NotSubmitting == [by |-> "none", here |-> FALSE]
Picking == {p \in Pick : pick[p].at # "idle"}

FormTypeOK ==
    /\ {template, source, route} \subseteq Route \cup {NoRoute}
    /\ mode \in {"none", "create", "edit", "duplicate"}
    /\ stops \subseteq Route
    /\ pick \in [Pick -> [at : {"idle", "routes", "asked"}, route : Route \cup {NoRoute},
                          then : {"nothing", "source", "change"}]]
    /\ submitting \in [by : {"none", "create", "edit", "duplicate"}, here : BOOLEAN]
    /\ mixed \in BOOLEAN

FormInit ==
    /\ template = NoRoute
    /\ source = NoRoute
    /\ mode = "none"
    /\ route = NoRoute
    /\ stops = {}
    /\ pick = [p \in Pick |-> NoPick]
    /\ submitting = NotSubmitting
    /\ mixed = FALSE

\* Calls for different routes overlap, or one goes on for a form that is not there.
Mixed(p, r, then) ==
    LET asked == {o \in Pick \ {p} : pick[o].at = "asked"}
    IN  \/ mixed /\ asked # {}
        \/ \E o \in asked : pick[o].route # r
        \/ then = "nothing" /\ mode # "none"

\* A selectRoute that keeps the old template until the new one is there.
SelectRouteKeeping(p, r, then) ==
    /\ pick' = [pick EXCEPT ![p] = [at |-> "asked", route |-> r, then |-> then]]
    /\ mixed' = Mixed(p, r, then)
    /\ UNCHANGED template

SelectRoute(p, r, then) ==
    /\ pick' = [pick EXCEPT ![p] = [at |-> "asked", route |-> r, then |-> then]]
    /\ mixed' = Mixed(p, r, then)
    /\ template' = NoRoute

-----------------------------------------------------------------------------
\* The store takes the trip and calls selectRoute, and a form is mounted, whose
\* init begins with fetchRoutes.
Take(r, for) ==
    /\ mode = "none"
    /\ \E p, q \in Pick \ Picking :
         /\ p # q
         /\ pick' = [pick EXCEPT ![p] = [at |-> "asked", route |-> r, then |-> "nothing"],
                                 ![q] = [at |-> "routes", route |-> r, then |-> "source"]]
         /\ mixed' = Mixed(p, r, "nothing")
    /\ template' = NoRoute
    /\ source' = r /\ mode' = for
    /\ route' = NoRoute /\ stops' = {}
    /\ UNCHANGED submitting

SetEditingTrip(r) == Take(r, "edit")
SetDuplicateTemplate(r) == Take(r, "duplicate")

\* The page of a new trip, also after a duplicate that was left unsaved.
OpenCreate ==
    /\ mode = "none"
    /\ IF source = NoRoute THEN mode' = "create" /\ UNCHANGED pick
       ELSE /\ mode' = "duplicate"
            /\ \E p \in Pick \ Picking :
                 pick' = [pick EXCEPT ![p] = [at |-> "routes", route |-> source, then |-> "source"]]
    /\ route' = NoRoute /\ stops' = {}
    /\ UNCHANGED <<template, source, submitting, mixed>>

\* fetchRoutes is over, with or without routes; init goes on in a form that may
\* not be there any more.
RoutesLoaded(p) ==
    /\ pick[p].at = "routes"
    /\ SelectRoute(p, pick[p].route, pick[p].then)
    /\ UNCHANGED <<source, mode, route, stops, submitting>>

\* The field changes at once, the template when it is there.  The route of a
\* trip with bookings is locked.
HandleRouteChange(r) ==
    /\ mode # "none" /\ r # route
    /\ route' = r
    /\ \E p \in Pick \ Picking : SelectRoute(p, r, "change")
    /\ UNCHANGED <<source, mode, stops, submitting>>

ToggleStop ==
    /\ mode # "none" /\ template # NoRoute
    /\ stops' \in {stops \cup {template}, stops \ {template}}
    /\ stops' # stops
    /\ UNCHANGED <<template, source, mode, route, pick, submitting, mixed>>

\* What init and handleRouteChange do when selectRoute is over, with the
\* template the store has by then.
GoesOn(p) ==
    CASE pick[p].then = "source" /\ template' # NoRoute ->
           route' = pick[p].route /\ stops' = {pick[p].route}
      [] pick[p].then = "change" ->
           /\ route' = pick[p].route
           /\ stops' = IF template' # NoRoute THEN {template'} ELSE stops
      [] OTHER -> UNCHANGED <<route, stops>>

TemplateLoaded(p) ==
    /\ pick[p].at = "asked"
    /\ template' = pick[p].route
    /\ GoesOn(p)
    /\ pick' = [pick EXCEPT ![p] = NoPick]
    /\ UNCHANGED <<source, mode, submitting, mixed>>

TemplateFails(p) ==
    /\ pick[p].at = "asked"
    /\ UNCHANGED template
    /\ GoesOn(p)
    /\ pick' = [pick EXCEPT ![p] = NoPick]
    /\ UNCHANGED <<source, mode, submitting, mixed>>

\* The form is left: what goes on changes nothing in another one.
Unmount ==
    /\ mode' = "none"
    /\ route' = NoRoute /\ stops' = {}
    /\ pick' = [p \in Pick |-> IF pick[p].at = "idle" THEN NoPick
                               ELSE [pick[p] EXCEPT !.then = "nothing"]]

\* The dialog is closed, or the page is left with what it was to duplicate.
Leave ==
    /\ mode # "none"
    /\ Unmount
    /\ source' = IF mode = "edit" THEN NoRoute ELSE source
    /\ submitting' = [submitting EXCEPT !.here = FALSE]
    /\ UNCHANGED <<template, mixed>>

CanSubmit == submitting = NotSubmitting /\ template # NoRoute /\ route # NoRoute /\ stops # {}

OnSubmit ==
    /\ mode # "none" /\ CanSubmit
    /\ submitting' = [by |-> mode, here |-> TRUE]
    /\ UNCHANGED <<template, source, mode, route, stops, pick, mixed>>

\* A new trip: the form, if it is still there, is reset.  A source is forgotten
\* and with it the dialog closes, even one that another trip has been opened in.
Submitted ==
    /\ submitting # NotSubmitting
    /\ submitting' = NotSubmitting
    /\ source' = IF submitting.by = "create" THEN source ELSE NoRoute
    /\ IF submitting.by # "create" /\ mode = "edit" THEN Unmount
       ELSE /\ mode' = IF submitting.by # "create" /\ mode = "duplicate" THEN "create" ELSE mode
            /\ route' = IF submitting.here THEN NoRoute ELSE route
            /\ stops' = IF submitting.here THEN {} ELSE stops
            /\ UNCHANGED pick
    /\ UNCHANGED <<template, mixed>>

SubmitFails ==
    /\ submitting # NotSubmitting
    /\ submitting' = NotSubmitting
    /\ UNCHANGED <<template, source, mode, route, stops, pick, mixed>>

FormNext ==
    \/ \E r \in Route : SetEditingTrip(r) \/ SetDuplicateTemplate(r) \/ HandleRouteChange(r)
    \/ OpenCreate \/ ToggleStop \/ Leave \/ OnSubmit \/ Submitted \/ SubmitFails
    \/ \E p \in Pick : RoutesLoaded(p) \/ TemplateLoaded(p) \/ TemplateFails(p)
=============================================================================
