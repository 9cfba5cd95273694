------------------------------ MODULE SeatsInv -------------------------------
(***************************************************************************)
(* The inductive invariants of Seats: why its properties hold.             *)
(***************************************************************************)
EXTENDS Seats

Occupying == {"HELD", "EXPIRED", "CONFIRMED"}
Ticketed == {"CONFIRMED", "CANCELLED", "CANCELLED_BY_ADMIN"}

\* What a cancellation has read without a lock are tickets still, of the same trip; what
\* the history names are rows.
RequestInv ==
  /\ \A b \in counted : status[b] # "none"
  /\ \A b \in repeated : status[b] \in Ticketed
  /\ \A r \in Request :
       /\ req[r].op = "cancel" => status[req[r].ticket] \in Ticketed
       /\ req[r].op = "cancelTrip" =>
            \A b \in req[r].tickets : status[b] \in Ticketed /\ trip[b] = req[r].trip

\* The tickets debited are those of students that cost something, whatever became of
\* them.
PaidInv ==
  /\ TicketsPaid
  /\ \A b \in Booking : b \in debited <=> status[b] \in Ticketed /\ Priced(b)

\* What HoldSeats is about to take will count for the week of its NOW().
WillCount(r) == departs[req[r].trip] = req[r].now /\ req[r].trip \notin moved

\* The advisory lock: at most one HoldSeats per user is past the quota check, and
\* there is room in the quota for what it will take.
QuotaInv ==
  /\ \A r, s \in Request :
       req[r].op = "hold" /\ req[s].op = "hold" /\ req[r].user = req[s].user => r = s
  /\ \A r \in Request :
       req[r].op = "hold" /\ WillCount(r) =>
         Cardinality(Counted(req[r].user, Direction[req[r].trip], req[r].now)) + req[r].count
           <= WeeklyLimit
  /\ QuotaRespected

\* The inductive invariant: the types, what cancellations have read, payments and quotas.
\* Each part needs the types; the payments also need what has been read, because a refund
\* is decided on a ticket that was read without a lock.
IInv == TypeOK /\ RequestInv /\ PaidInv /\ QuotaInv

-----------------------------------------------------------------------------
(* Seats are conserved on the trips that only students take, and pay for.  *)

MayBook(u, t) == Role[u] # "TRANSPORT_ADMIN" => BusType[t] = Role[u]

PaidTrip(t) == Price[t] > 0 /\ \A u \in User : MayBook(u, t) => IsStudent(u)

\* All its bookings, and those on their way, are a student's.
StudentInv(t) ==
  /\ \A b \in Booking : status[b] # "none" /\ trip[b] = t => IsStudent(user[b])
  /\ \A r \in Request : req[r].op = "hold" /\ req[r].trip = t => IsStudent(req[r].user)

Unrefunded(t) == {b \in On(t, {"CANCELLED_BY_ADMIN"}) : refunds[b] = 0}

\* The tickets of the trip that a batch got for a hold it had already named.
Oversold(t) == {b \in repeated : trip[b] = t}

\* The seats that are neither free nor occupied are those of voided tickets; a voided
\* ticket that has not been refunded has not given its seat back.  A hold named again in a
\* batch takes one seat that is not there.
SlackInv(t) ==
  LET slack == capacity[t] - Cardinality(On(t, Occupying)) - available[t]
  IN slack \in Cardinality(Unrefunded(t)) - Cardinality(Oversold(t))
                 .. Cardinality(On(t, {"CANCELLED_BY_ADMIN"}))

TripInv(t) == StudentInv(t) /\ SlackInv(t)

\* A step that does not reduce the capacity of the trip.
NotReduced(t) == capacity'[t] >= capacity[t]

\* On a trip that only paying students take, the seats a cancellation of the trip has
\* voided come back at most once each, with the refund: whoever cancels such a ticket
\* again returns its seat only if it was not refunded (CancelTicketWithRole calls
\* IncrementTripSeat whether or not SetTicketCancelled changed the row).
PaidTripsInv == \A t \in Trip : PaidTrip(t) => TripInv(t)
=============================================================================
