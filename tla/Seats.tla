------------------------------- MODULE Seats --------------------------------
(***************************************************************************)
(* Seat inventory and booking (internal/transport): holds, their           *)
(* confirmation against the wallet, cancellation by the passenger and by   *)
(* the administrator, capacity changes, and the cleaner of expired holds.  *)
(*                                                                         *)
(* Each database transaction is cut where another can come between: what   *)
(* it reads without a lock is an action, and everything from its last lock *)
(* to its commit is another.  Where all it reads is under locks it keeps,  *)
(* the whole transaction is one action.  A request that is refused, or     *)
(* fails, leaves the tables as they were.                                  *)
(***************************************************************************)
EXTENDS Integers, FiniteSets

CONSTANTS
  User, Trip,
  Booking,       \* ids of holds; the ticket a hold becomes keeps the name of the hold
  Request,       \* HTTP requests that may be in progress at once
  Role,          \* user |-> "STUDENT", "EMPLOYEE", "TRANSPORT_ADMIN"
  BusType,       \* trip |-> the role it carries
  Direction,     \* trip |-> "OUTBOUND" or "INBOUND"
  Price,         \* trip |-> base_price
  Seat,          \* trip |-> the capacity it is created with
  WeeklyLimit,   \* the quota rule of every role and direction
  Funds,         \* user |-> wallet balance at the start
  MaxCount,      \* the most seats one request holds
  MaxRepeat,     \* how often a confirmed batch may name holds it has named already
  Week,          \* trip |-> the calendar week it departs in; the first is week 0
  MaxWeek,       \* the last week that is looked at
  NewWeek,       \* the weeks UpdateTrip may be asked to move a trip to
  NewCapacity,   \* the capacities UpdateTrip may be asked for
  ManualStatus,  \* the overrides UpdateTripManualStatus may be asked for
  ReapLimit      \* LIMIT of GetExpiredHolds

ASSUME SeatAssumption ==
  /\ Seat \in [Trip -> Nat]
  /\ Price \in [Trip -> Nat]
  /\ Funds \in [User -> Nat]
  /\ IsFiniteSet(Booking)
  /\ User # {} /\ Trip # {}
  /\ NewCapacity \subseteq Nat \ {0}
  /\ ManualStatus \subseteq {"", "OPEN", "CLOSED"}
  /\ MaxRepeat \in Nat /\ MaxWeek \in Nat
  /\ Week \in [Trip -> Nat] /\ NewWeek \subseteq Nat
  /\ WeeklyLimit \in Nat /\ MaxCount \in Nat \ {0} /\ ReapLimit \in Nat \ {0}

VARIABLES
  available,   \* trip |-> available_seats
  capacity,    \* trip |-> total_capacity
  manual,      \* trip |-> manual_status
  week,        \* the calendar week of NOW()
  departs,     \* trip |-> the week of departure_time
  window,      \* trip |-> where NOW() is in its booking window
  status,      \* booking |-> its row of trip_holds or of tickets
  trip, user,  \* booking |-> trip_id and user_id of that row
  debited,     \* tickets with a TRANSPORT_BOOKING transaction
  refunds,     \* ticket |-> how many REFUND transactions it has
  funds,       \* user |-> wallet balance
  req,         \* request |-> what it is doing and what it has read
  reap,        \* the expired holds the cleaner has listed and not processed
  moved,       \* history: the trips UpdateTrip has given another week
  counted,     \* history: bookings whose HoldSeats began in the week their trip departs
  repeated     \* history: tickets a batch got for a hold it had already named

\* Where the trips lie in time, and the history of it.
schedule == <<week, departs, window, moved>>

\* What a booking is from the moment it is made.
origin == <<trip, user, counted, repeated>>

tables == <<available, capacity, manual, status, origin, debited, refunds, funds>>

vars == <<tables, schedule, req, reap>>

\* "none": no row yet.  "HELD", "EXPIRED": a row of trip_holds, before and after its
\* expires_at.  "RELEASED": the hold was deleted.  The others: a row of tickets.
Status == {"none", "HELD", "EXPIRED", "RELEASED", "CONFIRMED", "CANCELLED",
           "CANCELLED_BY_ADMIN"}

Window == {"before", "open", "closed"}

Idle == [op |-> "idle"]

RequestState ==
  {Idle}
    \cup [op : {"hold"}, user : User, trip : Trip, count : 1..MaxCount, now : 0..MaxWeek]
    \cup [op : {"release"}, user : User, expired : SUBSET Booking]
    \cup [op : {"cancel"}, ticket : Booking]
    \cup [op : {"cancelTrip"}, trip : Trip, tickets : SUBSET Booking]
    \cup [op : {"hung"}, trip : Trip]
    \cup [op : {"updateTrip"}, trip : Trip, capacity : NewCapacity]

TypeOK ==
  /\ available \in [Trip -> Nat]
  /\ capacity \in [Trip -> Nat]
  /\ manual \in [Trip -> {"", "OPEN", "CLOSED", "CANCELLED"}]
  /\ window \in [Trip -> Window]
  /\ status \in [Booking -> Status]
  /\ trip \in [Booking -> Trip]
  /\ user \in [Booking -> User]
  /\ debited \subseteq Booking
  /\ refunds \in [Booking -> Nat]
  /\ funds \in [User -> Nat]
  /\ req \in [Request -> RequestState]
  /\ reap \subseteq Booking
  /\ week \in 0..MaxWeek
  /\ departs \in [Trip -> Nat]
  /\ moved \subseteq Trip
  /\ counted \subseteq Booking
  /\ repeated \subseteq Booking

-----------------------------------------------------------------------------
(* Queries                                                                 *)

With(S) == {b \in Booking : status[b] \in S}

On(t, S) == {b \in With(S) : trip[b] = t}

IsStudent(u) == Role[u] = "STUDENT"

\* computed_status = 'OPEN' in GetTrip, for a transaction that began in week now and has
\* waited since: its NOW() may lie before the window closed.
TripOpen(t, now) ==
  /\ available[t] > 0
  /\ \/ manual[t] = "OPEN"
     \/ manual[t] = "" /\ (window[t] = "open" \/ (now < week /\ window[t] = "closed"))

\* GetWeeklyTicketCountByDirection: only the trips that depart in the week of its NOW(),
\* whatever the week of the trip that is being booked.
Usage(u, d, now) ==
  Cardinality({b \in With({"CONFIRMED", "HELD"}) :
                 user[b] = u /\ Direction[trip[b]] = d /\ departs[trip[b]] = now})

Smaller(m, n) == IF m <= n THEN m ELSE n

\* IncrementTripSeat, n times
Incremented(t, n) ==
  IF available[t] < capacity[t] THEN Smaller(available[t] + n, capacity[t]) ELSE available[t]

\* HoldSeats and ConfirmBatch without the advisory lock.
UserNeverLocked(u) == TRUE

\* pg_advisory_xact_lock(hashtext(user)) is free.
UserUnlocked(u) == \A r \in Request : req[r].op = "hold" => req[r].user # u

\* No transaction keeps the row of the transport revenue wallet locked.
RevenueUnlocked == \A r \in Request : req[r].op # "hung"

Done(r) == req' = [req EXCEPT ![r] = Idle]

-----------------------------------------------------------------------------
(* The passenger's requests                                                *)

\* HoldSeats up to the quota check, with the user's advisory lock taken.  It may have
\* waited for the lock since an earlier week: its NOW() is when the transaction began.
HoldCheck(r) ==
  /\ req[r] = Idle
  /\ \E u \in User, t \in Trip, n \in 1..MaxCount, now \in 0..week :
       /\ UserUnlocked(u)
       /\ Role[u] # "TRANSPORT_ADMIN" => BusType[t] = Role[u] /\ TripOpen(t, now)
       /\ Usage(u, Direction[t], now) + n <= WeeklyLimit
       /\ req' = [req EXCEPT ![r] = [op |-> "hold", user |-> u, trip |-> t, count |-> n,
                                     now |-> now]]
  /\ UNCHANGED <<tables, schedule, reap>>

\* gen_random_uuid: any ids not in use; which ones is immaterial.
FreshIds(n) == CHOOSE S \in SUBSET With({"none"}) : Cardinality(S) = n

\* A check made once, before the loop over the seats.
SeatsFreeOnce(r) == available[req[r].trip] > 0

\* No DecreaseTripSeat of the loop finds available_seats = 0.
SeatsFree(r) == available[req[r].trip] >= req[r].count

\* Booking bounds the holds ever made.
IdsLeft(r) == Cardinality(With({"none"})) >= req[r].count

\* DecreaseTripSeat and CreateBlankHold, once per seat, and the commit.
HoldTake(r) ==
  /\ req[r].op = "hold"
  /\ SeatsFree(r) /\ IdsLeft(r)
  /\ LET ids == FreshIds(req[r].count) IN
       /\ status' = [b \in Booking |-> IF b \in ids THEN "HELD" ELSE status[b]]
       /\ trip' = [b \in Booking |-> IF b \in ids THEN req[r].trip ELSE trip[b]]
       /\ user' = [b \in Booking |-> IF b \in ids THEN req[r].user ELSE user[b]]
       /\ counted' = IF req[r].now = departs[req[r].trip] THEN counted \cup ids ELSE counted
  /\ available' = [available EXCEPT ![req[r].trip] = @ - req[r].count]
  /\ Done(r)
  /\ UNCHANGED <<capacity, manual, schedule, repeated, debited, refunds, funds, reap>>

\* Some DecreaseTripSeat finds no seat left: the seats already taken go back.
TripFull(r) ==
  /\ req[r].op = "hold"
  /\ ~SeatsFree(r) \/ ~IdsLeft(r)
  /\ Done(r)
  /\ UNCHANGED <<tables, schedule, reap>>

\* The tickets of a batch (ticket |-> the hold named for it) that cost something.
PricedOf(hold) == {b \in DOMAIN hold : Price[trip[hold[b]]] > 0}

\* What they are debited together, one rupee after the other.
Cost(hold) == Cardinality(UNION {{b} \X (1..Price[trip[hold[b]]]) : b \in DOMAIN hold})

\* The batches that name the holds in S, and again holds of S for as many new tickets.
Batches(S, again) == {hold \in [S \cup again -> S] : \A b \in S : hold[b] = b}

\* ConfirmBatch: every row it decides on is locked first, so it is one step.  The
\* computed status of the trip is not looked at.  The client's list may name a hold more
\* than once: GetHoldForUpdate finds it each time, every mention gets a ticket and a debit
\* of its own, and DeleteHold does not mind that the hold is gone.
ConfirmBatch(u) ==
  /\ UserUnlocked(u)
  /\ IsStudent(u) => RevenueUnlocked
  /\ \E S \in SUBSET With({"HELD"}), n \in 0..MaxRepeat :
       /\ S # {} /\ n <= Cardinality(With({"none"}))
       /\ \A b \in S : user[b] = u
       /\ \E hold \in Batches(S, FreshIds(n)) :
            /\ IsStudent(u) => funds[u] >= Cost(hold)
            /\ status' = [b \in Booking |-> IF b \in DOMAIN hold THEN "CONFIRMED" ELSE status[b]]
            /\ trip' = [b \in Booking |-> IF b \in FreshIds(n) THEN trip[hold[b]] ELSE trip[b]]
            /\ user' = [b \in Booking |-> IF b \in FreshIds(n) THEN u ELSE user[b]]
            /\ debited' = IF IsStudent(u) THEN debited \cup PricedOf(hold) ELSE debited
            /\ funds' = IF IsStudent(u) THEN [funds EXCEPT ![u] = @ - Cost(hold)] ELSE funds
       /\ repeated' = repeated \cup FreshIds(n)
  /\ UNCHANGED <<available, capacity, manual, schedule, counted, refunds, req, reap>>

\* ReleaseAllHolds begins, which fixes NOW().  It takes no advisory lock.
BeginRelease(r) ==
  /\ req[r] = Idle
  /\ \E u \in User :
       req' = [req EXCEPT ![r] = [op |-> "release", user |-> u,
                                  expired |-> With({"EXPIRED"})]]
  /\ UNCHANGED <<tables, schedule, reap>>

\* DeleteAllActiveHoldsByUserID deletes every hold that had not expired at NOW(), those
\* that have expired since included; IncrementTripSeat, once for each; commit.
ReleaseAllHolds(r) ==
  /\ req[r].op = "release"
  /\ LET S == {b \in With({"HELD", "EXPIRED"}) \ req[r].expired : user[b] = req[r].user}
     IN /\ status' = [b \in Booking |-> IF b \in S THEN "RELEASED" ELSE status[b]]
        /\ available' = [t \in Trip |->
             Incremented(t, Cardinality({b \in S : trip[b] = t}))]
  /\ Done(r)
  /\ UNCHANGED <<capacity, manual, schedule, origin, debited, refunds, funds, reap>>

\* CancelTicketWithRole reads the ticket, without a lock.
GetTicketForCancellation(r) ==
  /\ req[r] = Idle
  /\ \E b \in With({"CONFIRMED"}) :
       /\ window[trip[b]] # "closed"
       /\ req' = [req EXCEPT ![r] = [op |-> "cancel", ticket |-> b]]
  /\ UNCHANGED <<tables, schedule, reap>>

\* The student paid for the ticket: VerifyBookingDebitExists.
Refundable(b) == IsStudent(user[b]) /\ Price[trip[b]] > 0 /\ b \in debited

\* A refund whose header is not unique.
RefundTicketAgain(b) ==
  /\ refunds' = [refunds EXCEPT ![b] = @ + 1]
  /\ funds' = [funds EXCEPT ![user[b]] = @ + Price[trip[b]]]

\* ExecuteTransaction("REFUND", ticket): its header is unique.
RefundTicket(b) ==
  /\ refunds[b] = 0
  /\ refunds' = [refunds EXCEPT ![b] = @ + 1]
  /\ funds' = [funds EXCEPT ![user[b]] = @ + Price[trip[b]]]

\* SetTicketCancelled without "AND status = 'CONFIRMED'".
ReturnSeatAlways(b) ==
  /\ status' = [status EXCEPT ![b] = "CANCELLED"]
  /\ available' = [available EXCEPT ![trip[b]] = Incremented(trip[b], 1)]

\* SetTicketCancelled and IncrementTripSeat: the seat goes back whether or not the
\* first found the ticket CONFIRMED.
ReturnSeat(b) ==
  /\ status' = [status EXCEPT ![b] = IF @ = "CONFIRMED" THEN "CANCELLED" ELSE @]
  /\ available' = [available EXCEPT ![trip[b]] = Incremented(trip[b], 1)]

CancelTicket(r) ==
  /\ req[r].op = "cancel"
  /\ LET b == req[r].ticket IN
       /\ IF Refundable(b) THEN RevenueUnlocked /\ RefundTicket(b)
                           ELSE UNCHANGED <<refunds, funds>>
       /\ ReturnSeat(b)
  /\ Done(r)
  /\ UNCHANGED <<capacity, manual, schedule, origin, debited, reap>>

\* The refund is there already: ErrRefundFailed.
RefundFailed(r) ==
  /\ req[r].op = "cancel"
  /\ Refundable(req[r].ticket) /\ RevenueUnlocked /\ refunds[req[r].ticket] > 0
  /\ Done(r)
  /\ UNCHANGED <<tables, schedule, reap>>

-----------------------------------------------------------------------------
(* The administrator's requests                                            *)

\* CancelTrip reads the confirmed tickets of the trip, without a lock.
GetConfirmedTicketsForTrip(r) ==
  /\ req[r] = Idle
  /\ \E t \in Trip :
       req' = [req EXCEPT ![r] = [op |-> "cancelTrip", trip |-> t,
                                  tickets |-> On(t, {"CONFIRMED"})]]
  /\ UNCHANGED <<tables, schedule, reap>>

\* The tickets of the list that CancelTrip refunds, whatever became of them since.
ToRefund(r) == req[r].tickets \cap debited

\* At most one refund: it is posted, then every ticket that is CONFIRMED by now is
\* cancelled, those that were not on the list included.
CancelTrip(r) ==
  /\ req[r].op = "cancelTrip"
  /\ \/ ToRefund(r) = {} /\ UNCHANGED <<refunds, funds>>
     \/ \E b \in ToRefund(r) : ToRefund(r) = {b} /\ RevenueUnlocked /\ RefundTicket(b)
  /\ status' = [b \in Booking |-> IF b \in On(req[r].trip, {"CONFIRMED"})
                                    THEN "CANCELLED_BY_ADMIN" ELSE status[b]]
  /\ manual' = [manual EXCEPT ![req[r].trip] = "CANCELLED"]
  /\ Done(r)
  /\ UNCHANGED <<available, capacity, schedule, origin, debited, reap>>

\* A ticket of the list has been refunded meanwhile.
CancelTripFails(r) ==
  /\ req[r].op = "cancelTrip"
  /\ RevenueUnlocked
  /\ \E b \in ToRefund(r) : refunds[b] > 0
  /\ Done(r)
  /\ UNCHANGED <<tables, schedule, reap>>

\* The second RefundTicket asks GetSystemWalletByName for the revenue wallet.  Its
\* upsert runs on a connection of its own and waits for the row this transaction
\* locked in the first.
CancelTripHangs(r) ==
  /\ req[r].op = "cancelTrip"
  /\ RevenueUnlocked
  /\ Cardinality(ToRefund(r)) >= 2
  /\ \E b \in ToRefund(r) : refunds[b] = 0
  /\ req' = [req EXCEPT ![r] = [op |-> "hung", trip |-> req[r].trip]]
  /\ UNCHANGED <<tables, schedule, reap>>

UpdateTripManualStatus(t) ==
  /\ \E s \in ManualStatus : manual' = [manual EXCEPT ![t] = s]
  /\ UNCHANGED <<available, capacity, schedule, status, origin, debited, refunds, funds,
                 req, reap>>

\* UpdateTrip counts the confirmed tickets, in a statement of its own.
GetTripBookingCount(r) ==
  /\ req[r] = Idle
  /\ \E t \in Trip, n \in NewCapacity :
       /\ n >= Cardinality(On(t, {"CONFIRMED"}))
       /\ req' = [req EXCEPT ![r] = [op |-> "updateTrip", trip |-> t, capacity |-> n]]
  /\ UNCHANGED <<tables, schedule, reap>>

\* GREATEST(0, available_seats + ($5 - total_capacity)), and the departure and offsets of
\* the form, which are not compared with anything.
UpdateTrip(r) ==
  /\ req[r].op = "updateTrip"
  /\ LET t == req[r].trip
         seats == available[t] + req[r].capacity - capacity[t]
     IN /\ available' = [available EXCEPT ![t] = IF seats < 0 THEN 0 ELSE seats]
        /\ capacity' = [capacity EXCEPT ![t] = req[r].capacity]
        /\ \E k \in NewWeek \cup {departs[t]}, w \in Window :
             /\ k < week => w = "closed"
             /\ departs' = [departs EXCEPT ![t] = k]
             /\ window' = [window EXCEPT ![t] = w]
             /\ moved' = IF k = departs[t] THEN moved ELSE moved \cup {t}
  /\ Done(r)
  /\ UNCHANGED <<week, manual, status, origin, debited, refunds, funds, reap>>

-----------------------------------------------------------------------------
(* The cleaner, time, and failures                                         *)

\* CleanupExpiredHolds lists what it will process: at most ReapLimit holds.
GetExpiredHolds ==
  /\ reap = {}
  /\ With({"EXPIRED"}) # {}
  /\ \E S \in SUBSET With({"EXPIRED"}) :
       /\ Cardinality(S) = Smaller(ReapLimit, Cardinality(With({"EXPIRED"})))
       /\ reap' = S
  /\ UNCHANGED <<tables, schedule, req>>

\* A cleaner that does not look whether the hold is still there.
CleanupSingleHoldUnlocked(b) ==
  /\ b \in reap
  /\ reap' = reap \ {b}
  /\ status' = [status EXCEPT ![b] = IF @ = "EXPIRED" THEN "RELEASED" ELSE @]
  /\ available' = [available EXCEPT ![trip[b]] = Incremented(trip[b], 1)]
  /\ UNCHANGED <<capacity, manual, schedule, origin, debited, refunds, funds, req>>

\* A cleaner that takes pgx.ErrNoRows for a failure and tries the same hold again.
CleanupSingleHoldStuck(b) ==
  /\ b \in reap
  /\ status[b] = "EXPIRED"
  /\ reap' = reap \ {b}
  /\ status' = [status EXCEPT ![b] = "RELEASED"]
  /\ available' = [available EXCEPT ![trip[b]] = Incremented(trip[b], 1)]
  /\ UNCHANGED <<capacity, manual, schedule, origin, debited, refunds, funds, req>>

\* One listed hold: it is locked, found or not, and its seat returned.
CleanupSingleHold(b) ==
  /\ b \in reap
  /\ reap' = reap \ {b}
  /\ IF status[b] = "EXPIRED"
       THEN /\ status' = [status EXCEPT ![b] = "RELEASED"]
            /\ available' = [available EXCEPT ![trip[b]] = Incremented(trip[b], 1)]
       ELSE UNCHANGED <<status, available>>
  /\ UNCHANGED <<capacity, manual, schedule, origin, debited, refunds, funds, req>>

\* The error is logged and the next hold is processed.
CleanupFails(b) ==
  /\ b \in reap
  /\ reap' = reap \ {b}
  /\ UNCHANGED <<tables, schedule, req>>

\* expires_at passes.
Expire(b) ==
  /\ status[b] = "HELD"
  /\ status' = [status EXCEPT ![b] = "EXPIRED"]
  /\ UNCHANGED <<available, capacity, manual, schedule, origin, debited, refunds, funds,
                 req, reap>>

\* The booking window of a trip opens, then closes.
TimePasses(t) ==
  /\ window[t] # "closed"
  /\ window' = [window EXCEPT ![t] = IF @ = "before" THEN "open" ELSE "closed"]
  /\ UNCHANGED <<tables, week, departs, moved, req, reap>>

\* Sunday turns to Monday.
WeekPasses ==
  /\ week < MaxWeek
  /\ \A t \in Trip : departs[t] = week => window[t] = "closed"
  /\ week' = week + 1
  /\ UNCHANGED <<tables, departs, window, moved, req, reap>>

\* A statement fails, the client hangs up, the connection is lost: rollback.
Fail(r) ==
  /\ req[r] # Idle
  /\ Done(r)
  /\ UNCHANGED <<tables, schedule, reap>>

\* The server process stops and starts again.
Restart ==
  /\ req' = [r \in Request |-> Idle]
  /\ reap' = {}
  /\ UNCHANGED <<tables, schedule>>

-----------------------------------------------------------------------------
(* Specification                                                           *)

Init ==
  /\ available = Seat
  /\ capacity = Seat
  /\ manual = [t \in Trip |-> ""]
  /\ window \in [Trip -> {"before", "open"}]
  /\ status = [b \in Booking |-> "none"]
  /\ trip = [b \in Booking |-> CHOOSE t \in Trip : TRUE]
  /\ user = [b \in Booking |-> CHOOSE u \in User : TRUE]
  /\ debited = {}
  /\ refunds = [b \in Booking |-> 0]
  /\ funds = Funds
  /\ req = [r \in Request |-> Idle]
  /\ reap = {}
  /\ week = 0
  /\ departs = Week
  /\ moved = {} /\ counted = {} /\ repeated = {}

\* What a request in progress does next.
Proceed(r) ==
  \/ HoldTake(r)
  \/ TripFull(r)
  \/ ReleaseAllHolds(r)
  \/ CancelTicket(r)
  \/ RefundFailed(r)
  \/ CancelTrip(r)
  \/ CancelTripFails(r)
  \/ CancelTripHangs(r)
  \/ UpdateTrip(r)

Begin(r) ==
  \/ HoldCheck(r)
  \/ BeginRelease(r)
  \/ GetTicketForCancellation(r)
  \/ GetConfirmedTicketsForTrip(r)
  \/ GetTripBookingCount(r)

Next ==
  \/ \E r \in Request : Begin(r) \/ Proceed(r) \/ Fail(r)
  \/ \E u \in User : ConfirmBatch(u)
  \/ \E t \in Trip : UpdateTripManualStatus(t) \/ TimePasses(t)
  \/ \E b \in Booking : Expire(b) \/ CleanupSingleHold(b) \/ CleanupFails(b)
  \/ GetExpiredHolds
  \/ WeekPasses
  \/ Restart

Spec == Init /\ [][Next]_vars

\* The goroutine of a request goes on; time passes for a hold; the cleaner's ticker
\* ticks, and it does not fail for ever on the same hold.  No user has to do anything
\* and no client hangs up.
FairSpec ==
  /\ Spec
  /\ \A r \in Request : WF_vars(Proceed(r))
  /\ \A b \in Booking : WF_vars(Expire(b)) /\ SF_vars(CleanupSingleHold(b))
  /\ WF_vars(GetExpiredHolds)

-----------------------------------------------------------------------------
(* Correctness                                                             *)

ConservedOn(t) ==
  LET occupied == Cardinality(On(t, {"HELD", "EXPIRED", "CONFIRMED"}))
      voided == Cardinality(On(t, {"CANCELLED_BY_ADMIN"}))
      oversold == Cardinality({b \in repeated : trip[b] = t})
  IN capacity[t] - occupied - available[t] \in -oversold..voided

\* The free seats of a trip and those that a hold or a ticket occupies add up to its
\* capacity: no seat is sold twice, except one for each time a confirmed batch named a
\* hold again, and none is lost, except those of the tickets the trip's cancellation
\* voided, which may or may not have come back.  HoldSeats, ConfirmBatch,
\* ReleaseAllHolds, cancellation and the cleaner each keep the counter available_seats in
\* step with the rows, in whatever order they meet.
SeatsConserved == \A t \in Trip : ConservedOn(t)

\* The seats a user booked for week k, in one direction, during that week, on trips that
\* were always of that week.
Counted(u, d, k) ==
  {b \in counted \cap With({"CONFIRMED", "HELD"}) :
     /\ user[b] = u /\ Direction[trip[b]] = d
     /\ departs[trip[b]] = k /\ trip[b] \notin moved}

\* No user has more seats of one direction and week, held or confirmed, than the weekly
\* quota by HoldSeats calls of that week: concurrent calls of one user, or one that waited
\* while the week turned, cannot both pass the check.
QuotaRespected ==
  \A u \in User : \A d \in {Direction[t] : t \in Trip} : \A k \in 0..MaxWeek :
    Cardinality(Counted(u, d, k)) <= WeeklyLimit

Priced(b) == IsStudent(user[b]) /\ Price[trip[b]] > 0

\* A student's ticket is paid while it is valid and refunded exactly once when the
\* student cancels it; nothing is refunded that was not debited.
TicketsPaid ==
  \A b \in Booking :
    /\ refunds[b] <= 1
    /\ refunds[b] = 1 => b \in debited /\ status[b] \in {"CANCELLED", "CANCELLED_BY_ADMIN"}
    /\ status[b] = "CONFIRMED" /\ Priced(b) => b \in debited
    /\ status[b] = "CANCELLED" /\ Priced(b) => refunds[b] = 1

\* What a booking may become: a hold that was given back never becomes a ticket, and a
\* ticket that was cancelled stays as it was cancelled, whoever else cancels it.
Successors ==
  [none |-> {"HELD", "CONFIRMED"}, HELD |-> {"EXPIRED", "RELEASED", "CONFIRMED"}, EXPIRED |-> {"RELEASED"},
   RELEASED |-> {}, CONFIRMED |-> {"CANCELLED", "CANCELLED_BY_ADMIN"}, CANCELLED |-> {},
   CANCELLED_BY_ADMIN |-> {}]

BookingsMoveForward ==
  [][\A b \in Booking : status'[b] # status[b] => status'[b] \in Successors[status[b]]]_vars

\* A hold does not block its seat for ever: it is confirmed, released or reclaimed by
\* the cleaner, through failures and restarts.
HoldsEnd ==
  \A b \in Booking : status[b] = "HELD" ~> status[b] \notin {"HELD", "EXPIRED"}

-----------------------------------------------------------------------------
(* What the repository says of the program and the code does not keep      *)

\* The administrator's form takes total_capacity - available_seats for the number of
\* tickets sold: it is never less than that.
SoldTicketsKnown ==
  \A t \in Trip : capacity[t] - available[t] >= Cardinality(On(t, {"CONFIRMED"}))

\* UpdateTrip does not reduce the capacity below the number of tickets sold.
CapacityCoversSold ==
  \A t \in Trip : capacity[t] >= Cardinality(On(t, {"CONFIRMED"}))

\* "Full refunds will be credited to student wallets" when a trip is cancelled.
CancelledTicketsRefunded ==
  \A b \in Booking : status[b] = "CANCELLED_BY_ADMIN" /\ b \in debited => refunds[b] = 1

\* "All confirmed tickets will be immediately cancelled" with the trip, and no ticket of
\* a cancelled trip is confirmed afterwards.
NoTicketOnCancelledTrip ==
  \A t \in Trip : manual[t] = "CANCELLED" => On(t, {"CONFIRMED"}) = {}

\* A request to cancel a trip comes to an end.
CancelTripEnds ==
  \A r \in Request : req[r].op = "cancelTrip" ~> req[r] = Idle
=============================================================================
