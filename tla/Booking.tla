------------------------------- MODULE Booking -------------------------------
(***************************************************************************)
(* The booking pages of the web client: the transport store, the pages     *)
(* that show it and the requests it has in flight, against the seats the   *)
(* server holds for one user.  A step is what JavaScript does between two  *)
(* awaits, what the server does to one request, or the clock.              *)
(***************************************************************************)
EXTENDS Naturals, FiniteSets

CONSTANTS
    Outbound,   \* the directions, and neither
    Inbound,
    NoTrip,
    Hold,       \* the seats the user ever holds
    TripOf,     \* the trip of each
    Call,       \* operations of the store in flight at once
    Slots,      \* those of a student, and of other users
    MaxTickets  \* bound on the seats of one booking

\* One trip of each direction: nothing tells two trips of one direction apart.
Trip == {Outbound, Inbound}

ASSUME BookingAssumption ==
    /\ NoTrip \notin Trip
    /\ IsFiniteSet(Hold)
    /\ TripOf \in [Hold -> Trip]
    /\ Slots \in [BOOLEAN -> SUBSET Call]
    /\ MaxTickets \in Nat \ {0}

VARIABLES
    isStudent,      \* user_type of the signed-in user
    seat,           \* server: what has become of each hold
    activeHolds,    \* store
    loading,        \* store
    initialized,    \* store
    isRoundTrip,    \* store
    selected,       \* store: outboundSelection and returnSelection
    page,           \* what the router shows
    blocked,        \* where useBlocker keeps the user from going, or "none"
    showConfirmModal,
    confirming,
    timeLeft,       \* of useHoldTimer, zero or not
    due,            \* the expiry effect is to run: what it depends on changed
    call,           \* the operations in flight
    doubt           \* auxiliary: may the store differ from the server at rest

serverVars == <<isStudent, seat>>
dataVars == <<activeHolds, initialized>>
flowVars == <<isRoundTrip, selected>>
pageVars == <<page, blocked, showConfirmModal, confirming>>
timerVars == <<timeLeft, due>>
vars == <<serverVars, dataVars, loading, flowVars, pageVars, timerVars, call, doubt>>

\* Held by a row that has not expired, be it in its last second.
Cart == {h \in Hold : seat[h] \in {"held", "last"}}

\* The pages that book, and the others: home, the tickets, the account.
Pages == {"transport", "passengers", "elsewhere"}

\* An operation: which, how far, the trip it books, and the seats it asks for,
\* was given or has read.
Idle == [op |-> "none", at |-> "idle", trip |-> NoTrip, holds |-> {}]
Start(op, at) == [Idle EXCEPT !.op = op, !.at = at]

TypeOK ==
    /\ isStudent \in BOOLEAN
    /\ seat \in [Hold -> {"none", "held", "last", "over", "ticket", "gone"}]
    /\ activeHolds \subseteq Hold
    /\ {loading, initialized, isRoundTrip, showConfirmModal, confirming, due} \subseteq BOOLEAN
    /\ selected \subseteq Trip
    /\ page \in Pages
    /\ blocked \in Pages \cup {"none"}
    /\ timeLeft \in {"some", "zero"}
    /\ call \in [Call -> [op : {"none", "load", "poll", "hold", "release", "back", "leave",
                                "confirm", "cancel"},
                          at : {"idle", "asked", "fetching", "read"},
                          trip : Trip \cup {NoTrip}, holds : SUBSET Hold]]
    /\ doubt \in {"no", "yes", "resolving"}

\* The user arrives, perhaps with seats that a page he has reloaded held.
Init ==
    /\ isStudent \in BOOLEAN
    /\ seat \in [Hold -> {"none", "held"}]
    /\ activeHolds = {}
    /\ loading = FALSE
    /\ initialized = FALSE
    /\ isRoundTrip = FALSE
    /\ selected = {}
    /\ page = "elsewhere"
    /\ blocked = "none"
    /\ showConfirmModal = FALSE
    /\ confirming = FALSE
    /\ timeLeft = "zero"
    /\ due = FALSE
    /\ call = [o \in Call |-> Idle]
    /\ doubt = "yes"

-----------------------------------------------------------------------------
Busy == {o \in Call : call[o].at # "idle"}

\* Operation o goes on as r.  A fetch that has nothing beside it will tell.
Put(o, r) == call' = [call EXCEPT ![o] = r]

Doubt(o, r) ==
    IF Busy \ {o} # {} THEN "yes"
    ELSE IF doubt = "yes" /\ r.at = "fetching" THEN "resolving" ELSE doubt

\* What the page starts when it is mounted.
OnMount(p) == IF p = "transport" THEN Start("load", "fetching") ELSE Idle

\* The router shows p, a new component with its own local state.
Show(p) ==
    /\ page' = p
    /\ blocked' = "none"
    /\ showConfirmModal' = FALSE
    /\ confirming' = FALSE

Leaves(o, p) == Show(p) /\ Put(o, OnMount(p)) /\ loading' = (p = "transport")

\* A variant without the last set({ loading: false }).
StaysLoading(o) == Put(o, Idle) /\ UNCHANGED <<loading, pageVars>>

Stays(o) == Put(o, Idle) /\ loading' = FALSE /\ UNCHANGED pageVars

\* React runs the expiry effect of TransportPage when what it depends on is
\* another value; the data of a fetch always is.
Renders(fetched) ==
    /\ due' = (page' = "transport" /\
                 (page # "transport" \/ due \/ fetched \/ loading' # loading))
    /\ timeLeft' = IF page' = page /\ activeHolds' # {} THEN timeLeft ELSE "zero"

\* The store starts an operation.
Begin(o, r) ==
    /\ call[o].at = "idle"
    /\ Put(o, r)
    /\ doubt' = IF r = Idle THEN doubt ELSE Doubt(o, r)

ResetBookingFlow == selected' = {} /\ UNCHANGED isRoundTrip

OnPage(p) == page = p /\ blocked = "none" /\ ~showConfirmModal

-----------------------------------------------------------------------------
(* The user *)

\* A variant that guards only the page with the trips.
BlocksTransport == activeHolds # {} /\ page = "transport"

\* The useBlocker of the two pages that book; neither keeps him from the other
\* when the flow itself goes there.
Blocks == activeHolds # {} /\ page \in {"transport", "passengers"}

Go(o, p) ==
    /\ blocked = "none"
    /\ p \in {"transport", "elsewhere"} \ {page}
    /\ UNCHANGED <<serverVars, dataVars, flowVars>>
    /\ IF Blocks
       THEN /\ blocked' = p
            /\ UNCHANGED <<page, showConfirmModal, confirming, loading, timerVars, call, doubt>>
       ELSE /\ Begin(o, OnMount(p))
            /\ Show(p)
            /\ loading' = (loading \/ p = "transport")
            /\ Renders(FALSE)

\* AbandonBookingModal: he stays, or releases the seats and then leaves.
Stay ==
    /\ blocked # "none"
    /\ blocked' = "none"
    /\ UNCHANGED <<serverVars, dataVars, loading, flowVars, page, showConfirmModal, confirming,
                   timerVars, call, doubt>>

StartRelease(o, op) ==
    /\ Begin(o, Start(op, "asked"))
    /\ loading' = TRUE
    /\ UNCHANGED <<serverVars, dataVars, flowVars, pageVars>>
    /\ Renders(FALSE)

Abandon(o) ==
    /\ blocked # "none"
    /\ \A c \in Call : call[c].op # "leave"
    /\ StartRelease(o, "leave")

\* The reservations on the tickets page.
ReleaseFromTickets(o) ==
    OnPage("elsewhere") /\ activeHolds # {} /\ StartRelease(o, "release")

\* The banner of the booking pages.  From the passengers' it goes back to the
\* trips.
ReleaseAllHolds(o) ==
    \/ OnPage("transport") /\ initialized /\ StartRelease(o, "release")
    \/ ReleaseFromTickets(o)
    \/ OnPage("passengers") /\ activeHolds # {} /\ StartRelease(o, "back")

\* RouteCard lets him book any trip that is shown open.
Book(o, t) ==
    /\ OnPage("transport")
    /\ initialized
    /\ Begin(o, [Start("hold", "asked") EXCEPT !.trip = t])
    /\ loading' = TRUE
    /\ UNCHANGED <<serverVars, dataVars, flowVars, pageVars>>
    /\ Renders(FALSE)

\* setIsRoundTrip: seats that are held must be confirmed or cancelled first.
RoundTripAllowed(enabled) == enabled => activeHolds = {}

SetRoundTrip(enabled) ==
    /\ OnPage("transport")
    /\ initialized
    /\ isRoundTrip # enabled
    /\ RoundTripAllowed(enabled)
    /\ isRoundTrip' = enabled
    /\ UNCHANGED <<serverVars, dataVars, loading, selected, pageVars, timerVars, call, doubt>>

CanProceed(chosen) == IF isRoundTrip THEN chosen = Trip ELSE chosen # {}

\* On to the confirmation, which for a student is a modal of the page itself.
Proceed ==
    IF isStudent THEN showConfirmModal' = (page = "transport") /\ UNCHANGED <<page, blocked, confirming>>
    ELSE IF page = "passengers" THEN UNCHANGED pageVars ELSE Show("passengers")

Continue ==
    /\ OnPage("transport")
    /\ activeHolds # {}
    /\ CanProceed(selected)
    /\ Proceed
    /\ UNCHANGED <<serverVars, dataVars, loading, flowVars, call, doubt>>
    /\ Renders(FALSE)

\* "Review & Confirm", once every passenger has a name.
Review ==
    /\ OnPage("passengers")
    /\ activeHolds # {}
    /\ showConfirmModal' = TRUE
    /\ UNCHANGED <<serverVars, dataVars, loading, flowVars, page, blocked, confirming, timerVars,
                   call, doubt>>

\* The backdrop closes the modal even while it is confirming.
CloseModal ==
    /\ showConfirmModal
    /\ blocked = "none"
    /\ showConfirmModal' = FALSE
    /\ UNCHANGED <<serverVars, dataVars, loading, flowVars, page, blocked, confirming, timerVars,
                   call, doubt>>

\* navigate('/transport/tickets') is not a route: the router goes home.
GoBooked(o) ==
    IF page = "transport" /\ activeHolds' # {}
    THEN /\ blocked' = "elsewhere"
         /\ showConfirmModal' = FALSE
         /\ confirming' = FALSE
         /\ Put(o, Idle)
         /\ UNCHANGED page
    ELSE Show("elsewhere") /\ Put(o, Idle)

\* With nothing in the cart confirmBooking returns and the page goes on as if
\* it had booked.
ConfirmNothing ==
    /\ showConfirmModal
    /\ blocked = "none"
    /\ ~confirming
    /\ activeHolds = {}
    /\ Show("elsewhere")
    /\ UNCHANGED <<serverVars, dataVars, loading, flowVars, call, doubt>>
    /\ Renders(FALSE)

Confirm(o) ==
    /\ showConfirmModal
    /\ blocked = "none"
    /\ ~confirming
    /\ activeHolds # {}
    /\ Begin(o, [Start("confirm", "asked") EXCEPT !.holds = activeHolds])
    /\ loading' = TRUE
    /\ confirming' = TRUE
    /\ UNCHANGED <<serverVars, dataVars, flowVars, page, blocked, showConfirmModal>>
    /\ Renders(FALSE)

\* The card of a ticket is disabled while it is cancelled.
Cancellable(h) ==
    seat[h] = "ticket" /\ \A c \in Call : call[c].op = "cancel" => h \notin call[c].holds

CancelTicket(o, h) ==
    /\ OnPage("elsewhere")
    /\ Cancellable(h)
    /\ Begin(o, [Start("cancel", "asked") EXCEPT !.holds = {h}])
    /\ loading' = TRUE
    /\ UNCHANGED <<serverVars, dataVars, flowVars, pageVars>>
    /\ Renders(FALSE)

-----------------------------------------------------------------------------
(* Effects *)

\* PassengerDetailsPage does not show an empty cart.
Redirect(o) ==
    /\ page = "passengers"
    /\ activeHolds = {}
    /\ Begin(o, OnMount("transport"))
    /\ Show("transport")
    /\ loading' = TRUE
    /\ UNCHANGED <<serverVars, dataVars, flowVars>>
    /\ Renders(FALSE)

\* A poll, or the timer that waits for a trip to open.
Poll(o) ==
    /\ page = "transport"
    /\ initialized
    /\ ~loading
    /\ Begin(o, Start("poll", "fetching"))
    /\ UNCHANGED <<serverVars, dataVars, loading, flowVars, pageVars, timerVars>>

\* Every second: what is left of the hold that expires first, rounded down.
Tick ==
    /\ page = "transport"
    /\ activeHolds # {}
    /\ timeLeft' = IF \E h \in activeHolds : seat[h] \in {"last", "over"} THEN "zero" ELSE "some"
    /\ due' = (due \/ timeLeft' # timeLeft)
    /\ timeLeft' # timeLeft
    /\ UNCHANGED <<serverVars, dataVars, loading, flowVars, pageVars, call, doubt>>

\* The countdown is over and a hold has really expired: the data is fetched
\* again and the booking starts over.
Expired ==
    /\ activeHolds # {}
    /\ timeLeft = "zero"
    /\ ~loading
    /\ initialized
    /\ \E h \in activeHolds : seat[h] = "over"

ExpiryEffect(o) ==
    /\ due
    /\ due' = FALSE
    /\ IF Expired
       THEN Begin(o, Start("poll", "fetching")) /\ ResetBookingFlow
       ELSE UNCHANGED <<flowVars, call, doubt>>
    /\ UNCHANGED <<serverVars, dataVars, loading, pageVars, timeLeft>>

-----------------------------------------------------------------------------
(* The server and the clock *)

\* The last second of a hold begins, and ends.
LastSecond(h) ==
    /\ seat[h] = "held"
    /\ seat' = [seat EXCEPT ![h] = "last"]
    /\ UNCHANGED <<isStudent, dataVars, loading, flowVars, pageVars, timerVars, call, doubt>>

Expire(h) ==
    /\ seat[h] = "last"
    /\ seat' = [seat EXCEPT ![h] = "over"]
    /\ doubt' = "yes"
    /\ UNCHANGED <<isStudent, dataVars, loading, flowVars, pageVars, timerVars, call>>

\* A request that succeeds turns some seats into what it asks for.  All the
\* store does with the answer is to fetch its data again.
Serves(o, seats, to) ==
    /\ call[o].at = "asked"
    /\ seat' = [h \in Hold |-> IF h \in seats THEN to ELSE seat[h]]
    /\ LET fetch == [call[o] EXCEPT !.at = "fetching", !.holds = {}]
       IN  Put(o, fetch) /\ doubt' = Doubt(o, fetch)
    /\ UNCHANGED <<isStudent, dataVars, loading, flowVars, pageVars, timerVars>>

\* The numbers of seats RouteCard offers: a student books for himself.
TicketCounts == 1 .. (IF isStudent THEN 1 ELSE MaxTickets)

Grant(o) ==
    /\ call[o].op = "hold"
    /\ \E S \in SUBSET {h \in Hold : TripOf[h] = call[o].trip /\ seat[h] = "none"} :
          /\ Cardinality(S) \in TicketCounts
          /\ Serves(o, S, "held")

DeleteHolds(o) == call[o].op \in {"release", "back", "leave"} /\ Serves(o, Cart, "gone")

\* A variant that books the trips that are selected only.
BuySelected(o) ==
    /\ call[o].op = "confirm"
    /\ call[o].holds \subseteq Cart
    /\ Serves(o, {h \in call[o].holds : TripOf[h] \in selected}, "ticket")

Buy(o) ==
    /\ call[o].op = "confirm"
    /\ call[o].holds \subseteq Cart
    /\ Serves(o, call[o].holds, "ticket")

Refund(o) ==
    /\ call[o].op = "cancel"
    /\ \A h \in call[o].holds : seat[h] = "ticket"
    /\ Serves(o, call[o].holds, "gone")

\* A variant without the comparison with expires_at.
ReadAll(o) ==
    /\ call[o].at = "fetching"
    /\ call' = [call EXCEPT ![o].at = "read",
                           ![o].holds = {h \in Hold : seat[h] \in {"held", "last", "over"}}]
    /\ UNCHANGED <<serverVars, dataVars, loading, flowVars, pageVars, timerVars, doubt>>

\* GetActiveHolds, for a fetchData.
Read(o) ==
    /\ call[o].at = "fetching"
    /\ call' = [call EXCEPT ![o].at = "read", ![o].holds = Cart]
    /\ UNCHANGED <<serverVars, dataVars, loading, flowVars, pageVars, timerVars, doubt>>

-----------------------------------------------------------------------------
(* Answers, as the store handles them *)

\* What handleBook does after addSelection, which has swallowed any error.
AfterBook(o, chosen) ==
    /\ Put(o, Idle)
    /\ loading' = FALSE
    /\ IF isRoundTrip /\ chosen # Trip THEN UNCHANGED pageVars ELSE Proceed

\* addSelection has the seats and has fetched.
AddSelection(o) ==
    /\ selected' = selected \cup {call[o].trip}
    /\ UNCHANGED isRoundTrip
    /\ AfterBook(o, selected')

\* navigate('/transport'), wherever the user is by now.
GoBack(o) ==
    IF page = "transport" THEN Stays(o)
    ELSE IF page = "passengers" /\ activeHolds' # {}
    THEN /\ blocked' = "transport"
         /\ Put(o, Idle)
         /\ loading' = FALSE
         /\ UNCHANGED <<page, showConfirmModal, confirming>>
    ELSE Leaves(o, "transport")

\* How each operation goes on after its fetch, whether that failed or not.
AfterFetch(o) ==
    \/ /\ call[o].op \in {"load", "cancel"}
       /\ Stays(o)
       /\ UNCHANGED flowVars
    \/ /\ call[o].op = "poll"
       /\ Put(o, Idle)
       /\ UNCHANGED <<loading, flowVars, pageVars>>
    \/ call[o].op = "hold" /\ AddSelection(o)
    \/ call[o].op = "release" /\ Stays(o) /\ ResetBookingFlow
    \/ call[o].op = "back" /\ ResetBookingFlow /\ GoBack(o)
    \/ /\ call[o].op = "leave"
       /\ ResetBookingFlow
       /\ IF blocked = "none" THEN Stays(o) ELSE Leaves(o, blocked)
    \/ /\ call[o].op = "confirm"
       /\ ResetBookingFlow
       /\ loading' = FALSE
       /\ GoBooked(o)

FetchDone(o) ==
    /\ call[o].at = "read"
    /\ activeHolds' = call[o].holds
    /\ initialized' = TRUE
    /\ AfterFetch(o)
    /\ doubt' = IF doubt = "resolving" THEN "no" ELSE doubt
    /\ UNCHANGED serverVars
    /\ Renders(TRUE)

\* fetchData keeps the error to itself.
FetchFails(o) ==
    /\ call[o].at \in {"fetching", "read"}
    /\ UNCHANGED dataVars
    /\ AfterFetch(o)
    /\ doubt' = "yes"
    /\ UNCHANGED serverVars
    /\ Renders(FALSE)

\* It is refused, or the answer is lost on the way back.
Refused(o) ==
    /\ call[o].at \in {"asked", "fetching"}
    /\ call[o].op \notin {"load", "poll"}
    /\ doubt' = IF call[o].at = "fetching" THEN "yes" ELSE doubt
    /\ UNCHANGED <<serverVars, dataVars, flowVars>>
    /\ CASE call[o].op = "hold" -> AfterBook(o, selected)
         [] call[o].op = "back" -> GoBack(o)
         [] call[o].op = "leave" /\ blocked # "none" -> Leaves(o, blocked)
         [] call[o].op = "confirm" ->
               /\ Put(o, Idle)
               /\ loading' = FALSE
               /\ confirming' = (confirming /\ \E c \in Call \ {o} : call[c].op = "confirm")
               /\ UNCHANGED <<page, blocked, showConfirmModal>>
         [] OTHER -> Stays(o)
    /\ Renders(FALSE)

-----------------------------------------------------------------------------
Server(o) ==
    Grant(o) \/ DeleteHolds(o) \/ Buy(o) \/ Refund(o) \/ Read(o)

Answer(o) == FetchDone(o) \/ FetchFails(o) \/ Refused(o)

User(o) ==
    \/ \E p \in Pages : Go(o, p)
    \/ Abandon(o) \/ ReleaseAllHolds(o) \/ Confirm(o)
    \/ \E t \in Trip : Book(o, t)
    \/ \E h \in Hold : CancelTicket(o, h)

Next ==
    \/ \E o \in Slots[isStudent] : User(o) \/ Server(o) \/ Answer(o)
                          \/ Redirect(o) \/ Poll(o) \/ ExpiryEffect(o)
    \/ Stay \/ Continue \/ Review \/ CloseModal \/ ConfirmNothing \/ Tick
    \/ \E b \in BOOLEAN : SetRoundTrip(b)
    \/ \E h \in Hold : LastSecond(h) \/ Expire(h)

Spec == Init /\ [][Next]_vars

\* Requests are answered or time out, the clock runs, React runs its effects.
Fairness ==
    /\ \A o \in Call : WF_vars(Server(o) \/ Answer(o)) /\ WF_vars(ExpiryEffect(o))
    /\ WF_vars(Tick)
    /\ \A h \in Hold : WF_vars(LastSecond(h)) /\ WF_vars(Expire(h))

FairSpec == Spec /\ Fairness

-----------------------------------------------------------------------------
\* The store agrees with the server when it is at rest, if the last fetch that
\* could tell had no other operation beside it and nothing has expired or got
\* lost since: no operation forgets to fetch again what it has changed.
CartMatchesServer ==
    Busy = {} /\ doubt = "no" => activeHolds = Cart

\* The one loading flag is never left on: somebody in flight turns it off.
LoadingHasOwner ==
    loading => \E o \in Busy : call[o].op # "poll"

\* "Leaving this page will release your seats": a user who goes when nothing
\* is under way and nothing has gone wrong leaves no seat held behind.
Departs ==
    /\ page \in {"transport", "passengers"}
    /\ page' = "elsewhere"
    /\ \A o \in Busy : call[o].op \in {"leave", "confirm"} /\ call[o].at \in {"fetching", "read"}

LeavesNoSeats == [][Departs /\ doubt = "no" /\ doubt' = "no" => Cart' = {}]_vars

\* "Only show expiration if timer has actually counted down": when it has, the
\* page that counts does not go on showing the reservation and doing nothing.
ExpiredHoldLeaves ==
    \A h \in Hold :
        page = "transport" /\ h \in activeHolds /\ seat[h] = "over"
            ~> page # "transport" \/ h \notin activeHolds \/ Busy # {}
=============================================================================
