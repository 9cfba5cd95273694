----------------------------- MODULE SeatsProofs -----------------------------
(***************************************************************************)
(* The properties of Seats, for any users, trips, requests and number of   *)
(* bookings.                                                               *)
(***************************************************************************)
EXTENDS SeatsInv, FiniteSetTheorems, TLAPS

USE DEF schedule, origin

-----------------------------------------------------------------------------
(* Sets of bookings                                                        *)

LEMMA Counts == MaxCount \in Nat /\ WeeklyLimit \in Nat /\ MaxRepeat \in Nat /\ MaxWeek \in Nat
  BY SeatAssumption

LEMMA BookingsFinite ==
  ASSUME NEW S \in SUBSET Booking
  PROVE  IsFiniteSet(S) /\ Cardinality(S) \in Nat
  BY SeatAssumption, FS_Subset, FS_CardinalityType

LEMMA SubsetCardinality ==
  ASSUME NEW S \in SUBSET Booking, NEW T \in SUBSET S
  PROVE  Cardinality(T) <= Cardinality(S)
  BY BookingsFinite, FS_Subset

LEMMA DisjointCardinality ==
  ASSUME NEW S \in SUBSET Booking, NEW T \in SUBSET Booking, S \cap T = {}
  PROVE  Cardinality(S \cup T) = Cardinality(S) + Cardinality(T)
<1>1. Cardinality(S \cap T) = 0
  BY FS_EmptySet
<1>2. QED
  BY <1>1, BookingsFinite, FS_Union

LEMMA UnionCardinality ==
  ASSUME NEW S \in SUBSET Booking, NEW T \in SUBSET Booking
  PROVE  Cardinality(S \cup T) <= Cardinality(S) + Cardinality(T)
<1>1. S \cap T \in SUBSET Booking
  OBVIOUS
<1>2. Cardinality(S \cap T) \in Nat /\ Cardinality(S) \in Nat /\ Cardinality(T) \in Nat
  BY <1>1, BookingsFinite
<1>3. Cardinality(S \cup T) = Cardinality(S) + Cardinality(T) - Cardinality(S \cap T)
  BY BookingsFinite, FS_Union
<1>4. QED
  BY <1>2, <1>3

LEMMA OneBooking ==
  ASSUME NEW b \in Booking
  PROVE  Cardinality({b}) = 1
  BY FS_Singleton

\* A finite set has subsets of every size up to its own.
LEMMA SubsetOfSize ==
  ASSUME NEW S, IsFiniteSet(S), NEW n \in Nat, n <= Cardinality(S)
  PROVE  \E T \in SUBSET S : Cardinality(T) = n
<1>1. PICK f \in Bijection(1..Cardinality(S), S) : TRUE
  BY FS_CardinalityType DEF ExistsBijection
<1>2. Cardinality(S) \in Nat
  BY FS_CardinalityType
<1> DEFINE T == {f[i] : i \in 1..n}
           g == [i \in 1..n |-> f[i]]
<1>3. T \in SUBSET S
  BY <1>1, <1>2 DEF Bijection, Injection, Surjection
<1>4. g \in Bijection(1..n, T)
  BY <1>1, <1>2 DEF Bijection, Injection, Surjection, IsInjective
<1>5. Cardinality(T) = n
  BY <1>4, FS_CountingElements DEF ExistsBijection
<1>6. QED
  BY <1>3, <1>5

LEMMA FreshIdsExist ==
  ASSUME NEW n \in Nat, n <= Cardinality(With({"none"}))
  PROVE  FreshIds(n) \in SUBSET With({"none"}) /\ Cardinality(FreshIds(n)) = n
<1>1. IsFiniteSet(With({"none"}))
  BY BookingsFinite DEF With
<1>2. \E S \in SUBSET With({"none"}) : Cardinality(S) = n
  BY <1>1, SubsetOfSize
<1>3. QED
  BY <1>2 DEF FreshIds

\* A batch costs some number of rupees.
LEMMA CostType ==
  ASSUME TypeOK, NEW S \in SUBSET Booking, NEW again \in SUBSET Booking,
         NEW hold \in [S \cup again -> S]
  PROVE  Cost(hold) \in Nat
<1> DEFINE D == S \cup again
           f == [b \in D |-> {b} \X (1..Price[trip[hold[b]]])]
           T == {{b} \X (1..Price[trip[hold[b]]]) : b \in D}
<1>1. f \in Surjection(D, T)
  BY DEF Surjection
<1>2. IsFiniteSet(T)
  BY <1>1, BookingsFinite, FS_Surjection
<1>3. ASSUME NEW b \in D PROVE IsFiniteSet({b} \X (1..Price[trip[hold[b]]]))
  <2>1. Price[trip[hold[b]]] \in Nat
    BY SeatAssumption DEF TypeOK
  <2>2. IsFiniteSet({b})
    BY FS_Singleton
  <2>3. IsFiniteSet(1..Price[trip[hold[b]]])
    BY <2>1, FS_Interval
  <2>4. QED
    BY <2>2, <2>3, FS_Product
<1>4. \A U \in T : IsFiniteSet(U)
  BY <1>3
<1>5. QED
  BY <1>2, <1>4, FS_UNION, FS_CardinalityType DEF Cost

-----------------------------------------------------------------------------
(* What a step does to a booking                                           *)

LEMMA RequestShape ==
  ASSUME TypeOK, NEW r \in Request
  PROVE  /\ req[r] = Idle \/ req[r].op \in {"hold", "release", "cancel", "cancelTrip", "hung", "updateTrip"}
         /\ req[r].op = "hold" => req[r].user \in User /\ req[r].trip \in Trip /\ req[r].count \in 1..MaxCount /\ req[r].now \in 0..MaxWeek
         /\ req[r].op = "release" => req[r].user \in User /\ req[r].expired \subseteq Booking
         /\ req[r].op = "cancel" => req[r].ticket \in Booking
         /\ req[r].op = "cancelTrip" => req[r].trip \in Trip /\ req[r].tickets \subseteq Booking
         /\ req[r].op = "hung" => req[r].trip \in Trip
         /\ req[r].op = "updateTrip" => req[r].trip \in Trip /\ req[r].capacity \in NewCapacity
<1>1. req[r] \in RequestState
  BY DEF TypeOK
<1>2. QED
  BY <1>1 DEF RequestState, Idle

Forward(b) ==
  /\ status'[b] # status[b] => status'[b] \in Successors[status[b]]
  /\ status[b] # "none" => trip'[b] = trip[b] /\ user'[b] = user[b]

LEMMA HoldForward ==
  ASSUME TypeOK, NEW r \in Request, HoldTake(r), NEW b \in Booking
  PROVE  Forward(b)
<1> DEFINE n == req[r].count
<1>1. n \in Nat /\ n <= Cardinality(With({"none"}))
  <2>1. n \in 1..MaxCount
    BY RequestShape DEF HoldTake
  <2>2. Cardinality(With({"none"})) \in Nat
    BY BookingsFinite DEF With
  <2>3. Cardinality(With({"none"})) >= n
    BY DEF HoldTake, IdsLeft
  <2>4. MaxCount \in Nat
    BY SeatAssumption
  <2>5. QED
    BY <2>1, <2>2, <2>3, <2>4
<1>2. FreshIds(n) \subseteq With({"none"})
  BY <1>1, FreshIdsExist
<1>3. QED
  BY <1>2 DEF HoldTake, Forward, Successors, With

\* What ConfirmBatch does to the rows: a ticket for each hold named, and new tickets for
\* the holds named again.
SoldAs(u, S, again, hold) ==
  /\ \A b \in S : hold[b] = b /\ user[b] = u
  /\ IsStudent(u) => funds[u] >= Cost(hold)
  /\ status' = [b \in Booking |-> IF b \in S \cup again THEN "CONFIRMED" ELSE status[b]]
  /\ trip' = [b \in Booking |-> IF b \in again THEN trip[hold[b]] ELSE trip[b]]
  /\ user' = [b \in Booking |-> IF b \in again THEN u ELSE user[b]]
  /\ debited' = IF IsStudent(u) THEN debited \cup PricedOf(hold) ELSE debited
  /\ funds' = IF IsStudent(u) THEN [funds EXCEPT ![u] = @ - Cost(hold)] ELSE funds
  /\ repeated' = repeated \cup again

LEMMA ConfirmRows ==
  ASSUME TypeOK, NEW u \in User, ConfirmBatch(u)
  PROVE  /\ UNCHANGED <<available, capacity, manual, schedule, counted, refunds, req, reap>>
         /\ \E S \in SUBSET With({"HELD"}), again \in SUBSET With({"none"}) :
              \E hold \in [S \cup again -> S] : SoldAs(u, S, again, hold)
<1>1. PICK S \in SUBSET With({"HELD"}), n \in 0..MaxRepeat :
        /\ n <= Cardinality(With({"none"}))
        /\ \A b \in S : user[b] = u
        /\ \E hold \in Batches(S, FreshIds(n)) :
             /\ IsStudent(u) => funds[u] >= Cost(hold)
             /\ status' = [b \in Booking |-> IF b \in DOMAIN hold THEN "CONFIRMED" ELSE status[b]]
             /\ trip' = [b \in Booking |-> IF b \in FreshIds(n) THEN trip[hold[b]] ELSE trip[b]]
             /\ user' = [b \in Booking |-> IF b \in FreshIds(n) THEN u ELSE user[b]]
             /\ debited' = IF IsStudent(u) THEN debited \cup PricedOf(hold) ELSE debited
             /\ funds' = IF IsStudent(u) THEN [funds EXCEPT ![u] = @ - Cost(hold)] ELSE funds
        /\ repeated' = repeated \cup FreshIds(n)
  BY DEF ConfirmBatch
<1> DEFINE again == FreshIds(n)
<1>2. again \in SUBSET With({"none"})
  <2>1. n \in Nat
    BY Counts
  <2>2. QED
    BY <1>1, <2>1, FreshIdsExist
<1> HIDE DEF again
<1>3. PICK hold \in Batches(S, again) :
        /\ IsStudent(u) => funds[u] >= Cost(hold)
        /\ status' = [b \in Booking |-> IF b \in DOMAIN hold THEN "CONFIRMED" ELSE status[b]]
        /\ trip' = [b \in Booking |-> IF b \in again THEN trip[hold[b]] ELSE trip[b]]
        /\ user' = [b \in Booking |-> IF b \in again THEN u ELSE user[b]]
        /\ debited' = IF IsStudent(u) THEN debited \cup PricedOf(hold) ELSE debited
        /\ funds' = IF IsStudent(u) THEN [funds EXCEPT ![u] = @ - Cost(hold)] ELSE funds
  BY <1>1 DEF again
<1>4. hold \in [S \cup again -> S] /\ DOMAIN hold = S \cup again /\ \A b \in S : hold[b] = b
  BY DEF Batches
<1>5. SoldAs(u, S, again, hold)
  BY <1>1, <1>3, <1>4 DEF SoldAs, again
<1>6. QED
  BY <1>2, <1>4, <1>5 DEF ConfirmBatch

LEMMA ConfirmForward ==
  ASSUME TypeOK, NEW u \in User, ConfirmBatch(u), NEW b \in Booking
  PROVE  Forward(b)
<1>1. PICK S \in SUBSET With({"HELD"}), again \in SUBSET With({"none"}) :
        \E hold \in [S \cup again -> S] : SoldAs(u, S, again, hold)
  BY ConfirmRows
<1>2. QED
  BY <1>1 DEF SoldAs, Forward, Successors, With

LEMMA ReleaseForward ==
  ASSUME TypeOK, NEW r \in Request, ReleaseAllHolds(r), NEW b \in Booking
  PROVE  Forward(b)
  BY DEF ReleaseAllHolds, Forward, Successors, With

LEMMA CancelForward ==
  ASSUME TypeOK, NEW r \in Request, CancelTicket(r), NEW b \in Booking
  PROVE  Forward(b)
<1> DEFINE c == req[r].ticket
<1>1. c \in Booking /\ status \in [Booking -> Status]
  BY RequestShape DEF CancelTicket, TypeOK
<1>2. status' = [status EXCEPT ![c] = IF status[c] = "CONFIRMED" THEN "CANCELLED" ELSE status[c]]
  BY DEF CancelTicket, ReturnSeat
<1> HIDE DEF c
<1>3. status'[b] = status[b] \/ (status[b] = "CONFIRMED" /\ status'[b] = "CANCELLED")
  BY <1>1, <1>2
<1>4. UNCHANGED <<trip, user>>
  BY DEF CancelTicket
<1>5. QED
  BY <1>3, <1>4 DEF Forward, Successors

LEMMA CancelTripForward ==
  ASSUME TypeOK, NEW r \in Request, CancelTrip(r), NEW b \in Booking
  PROVE  Forward(b)
  BY DEF CancelTrip, Forward, Successors, On, With

LEMMA OneForward ==
  ASSUME TypeOK, NEW c \in Booking, Expire(c) \/ CleanupSingleHold(c), NEW b \in Booking
  PROVE  Forward(b)
<1>1. /\ \/ status'[b] = status[b]
         \/ status[b] = "HELD" /\ status'[b] = "EXPIRED"
         \/ status[b] = "EXPIRED" /\ status'[b] = "RELEASED"
      /\ UNCHANGED <<trip, user>>
  BY DEF TypeOK, Expire, CleanupSingleHold
<1>2. QED
  BY <1>1 DEF Forward, Successors

\* The steps that leave the tables as they are.
Rest ==
  \/ \E r \in Request :
       Begin(r) \/ TripFull(r) \/ RefundFailed(r) \/ CancelTripFails(r) \/ CancelTripHangs(r) \/ Fail(r)
  \/ \E t \in Trip : TimePasses(t)
  \/ \E b \in Booking : CleanupFails(b)
  \/ GetExpiredHolds
  \/ WeekPasses
  \/ Restart
  \/ UNCHANGED vars

LEMMA RestUnchanged ==
  ASSUME Rest
  PROVE  UNCHANGED tables
  BY DEF Rest, Begin, HoldCheck, BeginRelease, GetTicketForCancellation, GetConfirmedTicketsForTrip,
         GetTripBookingCount, TripFull, RefundFailed, CancelTripFails, CancelTripHangs, Fail,
         TimePasses, WeekPasses, CleanupFails, GetExpiredHolds, Restart, vars

\* One case for each action that writes the tables.
LEMMA Cases ==
  ASSUME [Next]_vars
  PROVE  \/ \E r \in Request : HoldTake(r) \/ ReleaseAllHolds(r) \/ CancelTicket(r) \/ CancelTrip(r)
                               \/ UpdateTrip(r)
         \/ \E u \in User : ConfirmBatch(u)
         \/ \E t \in Trip : UpdateTripManualStatus(t)
         \/ \E b \in Booking : Expire(b) \/ CleanupSingleHold(b)
         \/ Rest
  BY DEF Next, Proceed, Rest

LEMMA StepForward ==
  ASSUME TypeOK, [Next]_vars, NEW b \in Booking
  PROVE  Forward(b)
<1>1. CASE Rest
  BY <1>1, RestUnchanged DEF tables, Forward
<1>2. CASE (\E r \in Request : UpdateTrip(r)) \/ (\E t \in Trip : UpdateTripManualStatus(t))
  BY <1>2 DEF UpdateTrip, UpdateTripManualStatus, Forward
<1>3. QED
  BY <1>1, <1>2, Cases, HoldForward, ConfirmForward, ReleaseForward, CancelForward, CancelTripForward,
     OneForward

-----------------------------------------------------------------------------
(* Types                                                                   *)

RowTypes ==
  /\ available \in [Trip -> Nat]
  /\ capacity \in [Trip -> Nat]
  /\ manual \in [Trip -> {"", "OPEN", "CLOSED", "CANCELLED"}]
  /\ status \in [Booking -> Status]
  /\ trip \in [Booking -> Trip]
  /\ user \in [Booking -> User]
  /\ debited \subseteq Booking
  /\ refunds \in [Booking -> Nat]
  /\ funds \in [User -> Nat]
  /\ counted \subseteq Booking
  /\ repeated \subseteq Booking

ScheduleTypes ==
  /\ week \in 0..MaxWeek
  /\ departs \in [Trip -> Nat]
  /\ window \in [Trip -> Window]
  /\ moved \subseteq Trip

ProcessTypes ==
  /\ req \in [Request -> RequestState]
  /\ reap \subseteq Booking

LEMMA RowType ==
  ASSUME TypeOK, NEW b \in Booking
  PROVE  /\ status[b] \in Status /\ trip[b] \in Trip /\ user[b] \in User
         /\ refunds[b] \in Nat /\ funds[user[b]] \in Nat
         /\ Price[trip[b]] \in Nat
  BY SeatAssumption DEF TypeOK

LEMMA TripType ==
  ASSUME TypeOK, NEW t \in Trip
  PROVE  available[t] \in Nat /\ capacity[t] \in Nat
  BY DEF TypeOK

LEMMA TypeParts == TypeOK <=> RowTypes /\ ProcessTypes /\ ScheduleTypes
  BY DEF TypeOK, RowTypes, ProcessTypes, ScheduleTypes

LEMMA DoneTypes ==
  ASSUME TypeOK, NEW r \in Request, Done(r), UNCHANGED reap
  PROVE  ProcessTypes'
  BY DEF TypeOK, Done, ProcessTypes, RequestState

LEMMA BeginTypes ==
  ASSUME TypeOK, NEW r \in Request, Begin(r)
  PROVE  ProcessTypes'
<1>1. ASSUME NEW q \in RequestState, req' = [req EXCEPT ![r] = q], UNCHANGED reap
      PROVE  ProcessTypes'
  BY <1>1 DEF TypeOK, ProcessTypes
<1>2. CASE HoldCheck(r)
  <2>1. PICK u \in User, t \in Trip, n \in 1..MaxCount, now \in 0..week :
          req' = [req EXCEPT ![r] = [op |-> "hold", user |-> u, trip |-> t, count |-> n, now |-> now]]
    BY <1>2 DEF HoldCheck
  <2>2. now \in 0..MaxWeek
    <3>1. week \in 0..MaxWeek
      BY DEF TypeOK
    <3>2. QED
      BY <3>1, Counts
  <2>3. QED
    BY <1>1, <1>2, <2>1, <2>2 DEF HoldCheck, RequestState
<1>3. CASE BeginRelease(r)
  <2>1. PICK u \in User :
          req' = [req EXCEPT ![r] = [op |-> "release", user |-> u, expired |-> With({"EXPIRED"})]]
    BY <1>3 DEF BeginRelease
  <2>2. With({"EXPIRED"}) \in SUBSET Booking
    BY DEF With
  <2>3. [op |-> "release", user |-> u, expired |-> With({"EXPIRED"})] \in RequestState
    BY <2>2 DEF RequestState
  <2>4. QED
    BY <1>1, <1>3, <2>1, <2>3 DEF BeginRelease
<1>4. CASE GetTicketForCancellation(r)
  BY <1>1, <1>4 DEF GetTicketForCancellation, RequestState, With
<1>5. CASE GetConfirmedTicketsForTrip(r)
  <2>1. PICK t \in Trip :
          req' = [req EXCEPT ![r] = [op |-> "cancelTrip", trip |-> t, tickets |-> On(t, {"CONFIRMED"})]]
    BY <1>5 DEF GetConfirmedTicketsForTrip
  <2>2. On(t, {"CONFIRMED"}) \in SUBSET Booking
    BY DEF On, With
  <2>3. [op |-> "cancelTrip", trip |-> t, tickets |-> On(t, {"CONFIRMED"})] \in RequestState
    BY <2>2 DEF RequestState
  <2>4. QED
    BY <1>1, <1>5, <2>1, <2>3 DEF GetConfirmedTicketsForTrip
<1>6. CASE GetTripBookingCount(r)
  BY <1>1, <1>6 DEF GetTripBookingCount, RequestState
<1>7. QED
  BY <1>2, <1>3, <1>4, <1>5, <1>6 DEF Begin

LEMMA RestTypes ==
  ASSUME TypeOK, Rest
  PROVE  RowTypes' /\ ProcessTypes'
<1>1. RowTypes'
  BY TypeParts, RestUnchanged DEF RowTypes, tables
<1>2. ASSUME NEW r \in Request, TripFull(r) \/ RefundFailed(r) \/ CancelTripFails(r) \/ Fail(r)
      PROVE  ProcessTypes'
  BY <1>2, DoneTypes DEF TripFull, RefundFailed, CancelTripFails, Fail
<1>3. ASSUME NEW r \in Request, CancelTripHangs(r)
      PROVE  ProcessTypes'
  <2>1. req[r].trip \in Trip
    BY <1>3, RequestShape DEF CancelTripHangs
  <2>2. [op |-> "hung", trip |-> req[r].trip] \in RequestState
    BY <2>1 DEF RequestState
  <2>3. QED
    BY <1>3, <2>2 DEF CancelTripHangs, TypeOK, ProcessTypes
<1>4. ASSUME (\E t \in Trip : TimePasses(t)) \/ WeekPasses
      PROVE  ProcessTypes'
  BY <1>4 DEF TimePasses, WeekPasses, TypeOK, ProcessTypes
<1>5. ASSUME NEW b \in Booking, CleanupFails(b)
      PROVE  ProcessTypes'
  BY <1>5 DEF CleanupFails, TypeOK, ProcessTypes
<1>6. ASSUME GetExpiredHolds
      PROVE  ProcessTypes'
  <2>1. reap' \subseteq Booking
    BY <1>6 DEF GetExpiredHolds, With
  <2>2. UNCHANGED req
    BY <1>6 DEF GetExpiredHolds
  <2>3. QED
    BY <2>1, <2>2 DEF TypeOK, ProcessTypes
<1>7. ASSUME Restart
      PROVE  ProcessTypes'
  <2>1. Idle \in RequestState
    BY DEF RequestState
  <2>2. QED
    BY <1>7, <2>1 DEF Restart, TypeOK, ProcessTypes
<1>8. ASSUME UNCHANGED vars
      PROVE  ProcessTypes'
  BY <1>8 DEF vars, TypeOK, ProcessTypes
<1>9. ProcessTypes'
  BY BeginTypes, <1>2, <1>3, <1>4, <1>5, <1>6, <1>7, <1>8 DEF Rest
<1>10. QED
  BY <1>1, <1>9

LEMMA IncrementedType ==
  ASSUME TypeOK, NEW t \in Trip, NEW n \in Nat
  PROVE  Incremented(t, n) \in Nat
<1>1. available[t] \in Nat /\ capacity[t] \in Nat
  BY DEF TypeOK
<1>2. QED
  BY <1>1 DEF Incremented, Smaller

LEMMA HoldTypes ==
  ASSUME TypeOK, NEW r \in Request, HoldTake(r)
  PROVE  RowTypes' /\ ProcessTypes'
<1>1. req[r].user \in User /\ req[r].trip \in Trip /\ req[r].count \in 1..MaxCount
  BY RequestShape DEF HoldTake
<1>2. available[req[r].trip] - req[r].count \in Nat
  <2>1. req[r].count \in Nat
    BY <1>1, Counts
  <2>2. available[req[r].trip] >= req[r].count
    BY DEF HoldTake, SeatsFree
  <2>3. QED
    BY <1>1, <2>1, <2>2, TripType
<1>3. available' \in [Trip -> Nat]
  BY <1>1, <1>2 DEF HoldTake, TypeOK
<1>4. /\ status' \in [Booking -> Status] /\ trip' \in [Booking -> Trip] /\ user' \in [Booking -> User]
  BY <1>1 DEF HoldTake, TypeOK, Status
<1>5. ProcessTypes'
  BY DoneTypes DEF HoldTake
<1>6. UNCHANGED <<capacity, manual, repeated, debited, refunds, funds>> /\ counted' \subseteq Booking
  <2>1. FreshIds(req[r].count) \subseteq Booking
    <3>1. req[r].count \in Nat
      BY <1>1, Counts
    <3>2. Cardinality(With({"none"})) \in Nat /\ req[r].count <= Cardinality(With({"none"}))
      BY <3>1, BookingsFinite DEF HoldTake, IdsLeft, With
    <3>3. QED
      BY <3>1, <3>2, FreshIdsExist DEF With
  <2>2. QED
    BY <2>1 DEF HoldTake, TypeOK
<1>7. QED
  BY <1>3, <1>4, <1>5, <1>6 DEF TypeOK, RowTypes, ProcessTypes

LEMMA ConfirmTypes ==
  ASSUME TypeOK, NEW u \in User, ConfirmBatch(u)
  PROVE  RowTypes' /\ ProcessTypes'
<1>1. PICK S \in SUBSET With({"HELD"}), again \in SUBSET With({"none"}) :
        \E hold \in [S \cup again -> S] : SoldAs(u, S, again, hold)
  BY ConfirmRows
<1>2. PICK hold \in [S \cup again -> S] : SoldAs(u, S, again, hold)
  BY <1>1
<1>3. S \in SUBSET Booking /\ again \in SUBSET Booking
  BY DEF With
<1>4. Cost(hold) \in Nat
  BY <1>3, CostType
<1>5. status' \in [Booking -> Status] /\ debited' \subseteq Booking /\ repeated' \subseteq Booking
  BY <1>2, <1>3 DEF SoldAs, TypeOK, Status, PricedOf
<1>6. trip' \in [Booking -> Trip] /\ user' \in [Booking -> User]
  BY <1>2, <1>3 DEF SoldAs, TypeOK
<1>7. funds' \in [User -> Nat]
  <2>1. funds[u] \in Nat
    BY DEF TypeOK
  <2>2. IsStudent(u) => funds[u] - Cost(hold) \in Nat
    BY <1>2, <1>4, <2>1 DEF SoldAs
  <2>3. QED
    BY <1>2, <2>2 DEF SoldAs, TypeOK
<1>8. UNCHANGED <<available, capacity, manual, schedule, counted, refunds, req, reap>>
  BY ConfirmRows
<1>9. QED
  BY <1>5, <1>6, <1>7, <1>8 DEF TypeOK, RowTypes, ProcessTypes

LEMMA ReleaseTypes ==
  ASSUME TypeOK, NEW r \in Request, ReleaseAllHolds(r)
  PROVE  RowTypes' /\ ProcessTypes'
<1> DEFINE S == {b \in With({"HELD", "EXPIRED"}) \ req[r].expired : user[b] = req[r].user}
<1>1. \A t \in Trip : Incremented(t, Cardinality({b \in S : trip[b] = t})) \in Nat
  <2> TAKE t \in Trip
  <2>1. {b \in S : trip[b] = t} \in SUBSET Booking
    BY DEF With
  <2>2. Cardinality({b \in S : trip[b] = t}) \in Nat
    BY <2>1, BookingsFinite
  <2>3. QED
    BY <2>2, IncrementedType
<1>2. /\ status' = [b \in Booking |-> IF b \in S THEN "RELEASED" ELSE status[b]]
      /\ available' = [t \in Trip |-> Incremented(t, Cardinality({b \in S : trip[b] = t}))]
      /\ Done(r)
      /\ UNCHANGED <<capacity, manual, schedule, origin, debited, refunds, funds, reap>>
  BY DEF ReleaseAllHolds
<1> HIDE DEF S
<1>3. status' \in [Booking -> Status] /\ available' \in [Trip -> Nat]
  BY <1>1, <1>2 DEF TypeOK, Status
<1>4. ProcessTypes'
  BY <1>2, DoneTypes
<1>5. QED
  BY <1>2, <1>3, <1>4 DEF TypeOK, RowTypes, ProcessTypes

LEMMA RefundTypes ==
  ASSUME TypeOK, NEW b \in Booking, RefundTicket(b) \/ UNCHANGED <<refunds, funds>>
  PROVE  refunds' \in [Booking -> Nat] /\ funds' \in [User -> Nat]
<1>1. funds[user[b]] + Price[trip[b]] \in Nat /\ refunds[b] + 1 \in Nat
  BY RowType
<1>2. refunds \in [Booking -> Nat] /\ funds \in [User -> Nat]
  BY DEF TypeOK
<1>3. \/ /\ refunds' = [refunds EXCEPT ![b] = refunds[b] + 1]
         /\ funds' = [funds EXCEPT ![user[b]] = funds[user[b]] + Price[trip[b]]]
      \/ UNCHANGED <<refunds, funds>>
  BY DEF RefundTicket
<1>4. QED
  BY <1>1, <1>2, <1>3

LEMMA CancelTypes ==
  ASSUME TypeOK, NEW r \in Request, CancelTicket(r)
  PROVE  RowTypes' /\ ProcessTypes'
<1> DEFINE b == req[r].ticket
<1>1. b \in Booking
  BY RequestShape DEF CancelTicket
<1>2. /\ status' = [status EXCEPT ![b] = IF @ = "CONFIRMED" THEN "CANCELLED" ELSE @]
      /\ available' = [available EXCEPT ![trip[b]] = Incremented(trip[b], 1)]
      /\ RefundTicket(b) \/ UNCHANGED <<refunds, funds>>
      /\ Done(r)
      /\ UNCHANGED <<capacity, manual, schedule, origin, debited, reap>>
  BY DEF CancelTicket, ReturnSeat
<1> HIDE DEF b
<1>3. trip[b] \in Trip /\ Incremented(trip[b], 1) \in Nat
  BY <1>1, IncrementedType DEF TypeOK
<1>4. status' \in [Booking -> Status]
  BY <1>1, <1>2 DEF TypeOK, Status
<1>5. available' \in [Trip -> Nat]
  BY <1>2, <1>3 DEF TypeOK
<1>6. refunds' \in [Booking -> Nat] /\ funds' \in [User -> Nat]
  BY <1>1, <1>2, RefundTypes
<1>7. ProcessTypes'
  BY <1>2, DoneTypes
<1>8. QED
  BY <1>2, <1>4, <1>5, <1>6, <1>7 DEF TypeOK, RowTypes, ProcessTypes

LEMMA CancelTripTypes ==
  ASSUME TypeOK, NEW r \in Request, CancelTrip(r)
  PROVE  RowTypes' /\ ProcessTypes'
<1>1. req[r].trip \in Trip /\ req[r].tickets \subseteq Booking
  BY RequestShape DEF CancelTrip
<1>2. refunds' \in [Booking -> Nat] /\ funds' \in [User -> Nat]
  <2>1. CASE UNCHANGED <<refunds, funds>>
    BY <2>1 DEF TypeOK
  <2>2. CASE \E b \in ToRefund(r) : RefundTicket(b)
    BY <1>1, <2>2, RefundTypes DEF ToRefund
  <2>3. QED
    BY <2>1, <2>2 DEF CancelTrip
<1>3. status' \in [Booking -> Status]
  BY DEF CancelTrip, TypeOK, Status
<1>4. manual' \in [Trip -> {"", "OPEN", "CLOSED", "CANCELLED"}]
  BY DEF CancelTrip, TypeOK
<1>5. ProcessTypes'
  BY DoneTypes DEF CancelTrip
<1>6. UNCHANGED <<available, capacity, origin, debited>>
  BY DEF CancelTrip
<1>7. QED
  BY <1>2, <1>3, <1>4, <1>5, <1>6 DEF TypeOK, RowTypes, ProcessTypes

LEMMA UpdateTypes ==
  ASSUME TypeOK, NEW r \in Request, UpdateTrip(r)
  PROVE  RowTypes' /\ ProcessTypes'
<1> DEFINE t == req[r].trip
           seats == available[t] + req[r].capacity - capacity[t]
<1>1. t \in Trip /\ req[r].capacity \in NewCapacity /\ NewCapacity \subseteq Nat
  BY RequestShape, SeatAssumption DEF UpdateTrip
<1>2. (IF seats < 0 THEN 0 ELSE seats) \in Nat
  <2>1. available[t] \in Nat /\ capacity[t] \in Nat /\ req[r].capacity \in Nat
    BY <1>1, TripType
  <2>2. QED
    BY <2>1
<1>3. /\ available' = [available EXCEPT ![t] = IF seats < 0 THEN 0 ELSE seats]
      /\ capacity' = [capacity EXCEPT ![t] = req[r].capacity]
  BY DEF UpdateTrip
<1> HIDE DEF seats, t
<1>4. available' \in [Trip -> Nat] /\ capacity' \in [Trip -> Nat]
  BY <1>1, <1>2, <1>3 DEF TypeOK
<1>5. ProcessTypes'
  BY DoneTypes DEF UpdateTrip
<1>6. UNCHANGED <<manual, status, origin, debited, refunds, funds>>
  BY DEF UpdateTrip
<1>7. QED
  BY <1>4, <1>5, <1>6 DEF TypeOK, RowTypes, ProcessTypes

LEMMA OneTypes ==
  ASSUME TypeOK, NEW b \in Booking, Expire(b) \/ CleanupSingleHold(b)
  PROVE  RowTypes' /\ ProcessTypes'
<1>1. trip[b] \in Trip /\ Incremented(trip[b], 1) \in Nat
  BY IncrementedType DEF TypeOK
<1>2. CASE Expire(b)
  BY <1>2 DEF Expire, TypeOK, Status, RowTypes, ProcessTypes
<1>3. CASE CleanupSingleHold(b)
  <2>1. status' \in [Booking -> Status]
    <3>1. status' = status \/ status' = [status EXCEPT ![b] = "RELEASED"]
      BY <1>3 DEF CleanupSingleHold
    <3>2. status \in [Booking -> Status] /\ "RELEASED" \in Status
      BY DEF TypeOK, Status
    <3>3. QED
      BY <3>1, <3>2
  <2>2. available' \in [Trip -> Nat]
    BY <1>1, <1>3 DEF CleanupSingleHold, TypeOK
  <2>3. QED
    BY <1>3, <2>1, <2>2 DEF CleanupSingleHold, TypeOK, RowTypes, ProcessTypes
<1>4. QED
  BY <1>2, <1>3

\* What a step does to the trips in time.
LEMMA ScheduleStep ==
  ASSUME TypeOK, [Next]_vars
  PROVE  /\ ScheduleTypes'
         /\ moved \subseteq moved'
         /\ \A t \in Trip \ moved' : departs'[t] = departs[t]
<1>1. CASE UNCHANGED schedule
  BY <1>1 DEF TypeOK, ScheduleTypes
<1>2. CASE UNCHANGED <<week, departs, moved>> /\ window' \in [Trip -> Window]
  BY <1>2 DEF TypeOK, ScheduleTypes
<1>3. CASE WeekPasses
  <2>1. week + 1 \in 0..MaxWeek
    <3>1. week \in 0..MaxWeek /\ week < MaxWeek
      BY <1>3 DEF WeekPasses, TypeOK
    <3>2. QED
      BY <3>1, Counts
  <2>2. QED
    BY <1>3, <2>1 DEF WeekPasses, TypeOK, ScheduleTypes
<1>4. ASSUME NEW r \in Request, UpdateTrip(r)
      PROVE  /\ ScheduleTypes'
             /\ moved \subseteq moved'
             /\ \A t \in Trip \ moved' : departs'[t] = departs[t]
  <2> DEFINE x == req[r].trip
  <2>1. x \in Trip
    BY <1>4, RequestShape DEF UpdateTrip
  <2>2. PICK k \in NewWeek \cup {departs[x]}, w \in Window :
          /\ departs' = [departs EXCEPT ![x] = k]
          /\ window' = [window EXCEPT ![x] = w]
          /\ moved' = IF k = departs[x] THEN moved ELSE moved \cup {x}
    BY <1>4 DEF UpdateTrip
  <2> HIDE DEF x
  <2>3. k \in Nat /\ UNCHANGED week
    <3>1. departs[x] \in Nat /\ NewWeek \subseteq Nat
      BY <2>1, SeatAssumption DEF TypeOK
    <3>2. QED
      BY <1>4, <3>1 DEF UpdateTrip
  <2>4. departs \in [Trip -> Nat] /\ window \in [Trip -> Window] /\ moved \subseteq Trip /\ week \in 0..MaxWeek
    BY DEF TypeOK
  <2>5. ScheduleTypes'
    BY <2>1, <2>2, <2>3, <2>4 DEF ScheduleTypes
  <2>6. \A t \in Trip \ moved' : departs'[t] = departs[t]
    BY <2>1, <2>2, <2>4
  <2>7. QED
    BY <2>2, <2>5, <2>6
<1>5. ASSUME NEW t \in Trip, TimePasses(t)
      PROVE  UNCHANGED <<week, departs, moved>> /\ window' \in [Trip -> Window]
  BY <1>5 DEF TimePasses, TypeOK, Window
<1>6. \/ UNCHANGED schedule
      \/ \E t \in Trip : TimePasses(t)
      \/ WeekPasses
      \/ \E r \in Request : UpdateTrip(r)
  <2>1. ASSUME NEW r \in Request, Begin(r) \/ Fail(r) PROVE UNCHANGED schedule
    BY <2>1 DEF Begin, HoldCheck, BeginRelease, GetTicketForCancellation, GetConfirmedTicketsForTrip,
                GetTripBookingCount, Fail
  <2>2. ASSUME NEW r \in Request, Proceed(r) PROVE UpdateTrip(r) \/ UNCHANGED schedule
    BY <2>2 DEF Proceed, HoldTake, TripFull, ReleaseAllHolds, CancelTicket, RefundFailed, CancelTrip,
                CancelTripFails, CancelTripHangs
  <2>3. ASSUME NEW u \in User, ConfirmBatch(u) PROVE UNCHANGED schedule
    BY <2>3 DEF ConfirmBatch
  <2>4. ASSUME NEW t \in Trip, UpdateTripManualStatus(t) PROVE UNCHANGED schedule
    BY <2>4 DEF UpdateTripManualStatus
  <2>5. ASSUME NEW b \in Booking, Expire(b) \/ CleanupSingleHold(b) \/ CleanupFails(b) PROVE UNCHANGED schedule
    BY <2>5 DEF Expire, CleanupSingleHold, CleanupFails
  <2>6. ASSUME GetExpiredHolds \/ Restart \/ UNCHANGED vars PROVE UNCHANGED schedule
    BY <2>6 DEF GetExpiredHolds, Restart, vars
  <2>7. QED
    BY <2>1, <2>2, <2>3, <2>4, <2>5, <2>6 DEF Next
<1>7. QED
  BY <1>1, <1>2, <1>3, <1>4, <1>5, <1>6

LEMMA TypeStep ==
  ASSUME TypeOK, [Next]_vars
  PROVE  TypeOK'
<1>1. ASSUME NEW t \in Trip, UpdateTripManualStatus(t)
      PROVE  RowTypes' /\ ProcessTypes'
  <2>1. PICK m \in ManualStatus : manual' = [manual EXCEPT ![t] = m]
    BY <1>1 DEF UpdateTripManualStatus
  <2>2. m \in {"", "OPEN", "CLOSED", "CANCELLED"}
    BY SeatAssumption
  <2>3. QED
    BY <1>1, <2>1, <2>2 DEF UpdateTripManualStatus, TypeOK, RowTypes, ProcessTypes
<1>2. RowTypes' /\ ProcessTypes'
  BY <1>1, Cases, HoldTypes, ConfirmTypes, ReleaseTypes, CancelTypes, CancelTripTypes, UpdateTypes,
     OneTypes, RestTypes
<1>3. QED
  BY <1>2, ScheduleStep DEF TypeOK, RowTypes, ProcessTypes, ScheduleTypes

-----------------------------------------------------------------------------
(* Requests                                                                *)

NewHold(r, u, t, n, now) ==
  /\ req[r] = Idle
  /\ UserUnlocked(u) /\ MayBook(u, t)
  /\ Usage(u, Direction[t], now) + n <= WeeklyLimit
  /\ req' = [req EXCEPT ![r] = [op |-> "hold", user |-> u, trip |-> t, count |-> n, now |-> now]]

\* What a step does to a request.
RequestMoves(r) ==
  \/ req'[r] \in {req[r], Idle}
  \/ req'[r].op \in {"release", "hung", "updateTrip"}
  \/ /\ UNCHANGED <<tables, schedule>>
     /\ \/ \E u \in User, t \in Trip, n \in 1..MaxCount, now \in 0..MaxWeek : NewHold(r, u, t, n, now)
        \/ \E b \in With({"CONFIRMED"}) : req'[r] = [op |-> "cancel", ticket |-> b]
        \/ \E t \in Trip : req'[r] = [op |-> "cancelTrip", trip |-> t, tickets |-> On(t, {"CONFIRMED"})]

LEMMA DoneMoves ==
  ASSUME TypeOK, NEW q \in Request, Done(q), NEW r \in Request
  PROVE  RequestMoves(r)
<1>1. req'[r] \in {req[r], Idle}
  BY DEF Done, TypeOK
<1>2. QED
  BY <1>1 DEF RequestMoves

LEMMA BeginMoves ==
  ASSUME TypeOK, NEW q \in Request, Begin(q), NEW r \in Request
  PROVE  RequestMoves(r)
<1>1. req \in [Request -> RequestState]
  BY DEF TypeOK
<1>2. UNCHANGED <<tables, schedule>>
  BY DEF Begin, HoldCheck, BeginRelease, GetTicketForCancellation, GetConfirmedTicketsForTrip,
         GetTripBookingCount
<1>3. CASE r # q
  <2>1. req'[r] = req[r]
    BY <1>1, <1>3 DEF Begin, HoldCheck, BeginRelease, GetTicketForCancellation, GetConfirmedTicketsForTrip,
                      GetTripBookingCount
  <2>2. QED
    BY <2>1 DEF RequestMoves
<1>4. CASE r = q
  <2>1. CASE HoldCheck(r)
    <3>1. \E u \in User, t \in Trip, n \in 1..MaxCount, now \in 0..MaxWeek : NewHold(r, u, t, n, now)
      <4>1. week \in 0..MaxWeek /\ MaxWeek \in Nat
        BY SeatAssumption DEF TypeOK
      <4>2. 0..week \subseteq 0..MaxWeek
        BY <4>1
      <4>3. QED
        BY <2>1, <4>2 DEF HoldCheck, NewHold, MayBook
    <3>2. QED
      BY <1>2, <3>1 DEF RequestMoves
  <2>2. CASE BeginRelease(r)
    BY <1>1, <2>2 DEF BeginRelease, RequestMoves
  <2>3. CASE GetTicketForCancellation(r)
    BY <1>1, <1>2, <2>3 DEF GetTicketForCancellation, RequestMoves
  <2>4. CASE GetConfirmedTicketsForTrip(r)
    BY <1>1, <1>2, <2>4 DEF GetConfirmedTicketsForTrip, RequestMoves
  <2>5. CASE GetTripBookingCount(r)
    BY <1>1, <2>5 DEF GetTripBookingCount, RequestMoves
  <2>6. QED
    BY <1>4, <2>1, <2>2, <2>3, <2>4, <2>5 DEF Begin
<1>5. QED
  BY <1>3, <1>4

LEMMA StepMoves ==
  ASSUME TypeOK, [Next]_vars, NEW r \in Request
  PROVE  RequestMoves(r)
<1>1. ASSUME UNCHANGED req PROVE RequestMoves(r)
  BY <1>1 DEF RequestMoves
<1>2. ASSUME NEW q \in Request, CancelTripHangs(q) PROVE RequestMoves(r)
  BY <1>2 DEF CancelTripHangs, TypeOK, RequestMoves
<1>3. ASSUME Restart PROVE RequestMoves(r)
  BY <1>3 DEF Restart, RequestMoves
<1>4. ASSUME NEW q \in Request, Proceed(q) \/ Fail(q) PROVE RequestMoves(r)
  BY <1>2, <1>4, DoneMoves
     DEF Proceed, Fail, HoldTake, TripFull, ReleaseAllHolds, CancelTicket, RefundFailed, CancelTrip,
         CancelTripFails, UpdateTrip
<1>5. ASSUME \/ \E u \in User : ConfirmBatch(u)
             \/ \E t \in Trip : UpdateTripManualStatus(t) \/ TimePasses(t)
             \/ \E b \in Booking : Expire(b) \/ CleanupSingleHold(b) \/ CleanupFails(b)
             \/ GetExpiredHolds
             \/ WeekPasses
             \/ UNCHANGED vars
      PROVE  RequestMoves(r)
  <2>1. UNCHANGED req
    BY <1>5 DEF ConfirmBatch, UpdateTripManualStatus, TimePasses, Expire, CleanupSingleHold, CleanupFails,
                GetExpiredHolds, WeekPasses, vars
  <2>2. QED
    BY <1>1, <2>1
<1>6. QED
  BY <1>3, <1>4, <1>5, BeginMoves DEF Next

LEMMA TicketsStay ==
  ASSUME TypeOK, [Next]_vars, NEW b \in Booking, status[b] \in Ticketed
  PROVE  status'[b] \in Ticketed /\ trip'[b] = trip[b] /\ user'[b] = user[b]
<1>1. Forward(b)
  BY StepForward
<1>2. QED
  BY <1>1 DEF Forward, Successors, Ticketed

\* Only HoldTake adds to the bookings that count, only ConfirmBatch to the repeated ones.
LEMMA HistoryStep ==
  ASSUME TypeOK, [Next]_vars, NEW b \in Booking
  PROVE  /\ b \in counted' => b \in counted \/ ((\E r \in Request : HoldTake(r)) /\ status'[b] = "HELD")
         /\ b \in repeated' => b \in repeated \/ status'[b] = "CONFIRMED"
<1>1. ASSUME NEW r \in Request, HoldTake(r)
      PROVE  repeated' = repeated /\ (b \in counted' => b \in counted \/ status'[b] = "HELD")
  BY <1>1 DEF HoldTake
<1>2. ASSUME NEW u \in User, ConfirmBatch(u)
      PROVE  counted' = counted /\ (b \in repeated' => b \in repeated \/ status'[b] = "CONFIRMED")
  <2>1. PICK S \in SUBSET With({"HELD"}), again \in SUBSET With({"none"}) :
          \E hold \in [S \cup again -> S] : SoldAs(u, S, again, hold)
    BY <1>2, ConfirmRows
  <2>2. QED
    BY <1>2, <2>1 DEF SoldAs, ConfirmBatch
<1>4. CASE Rest
  BY <1>4, RestUnchanged DEF tables
<1>5. CASE \/ \E r \in Request : ReleaseAllHolds(r) \/ CancelTicket(r) \/ CancelTrip(r) \/ UpdateTrip(r)
           \/ \E t \in Trip : UpdateTripManualStatus(t)
           \/ \E c \in Booking : Expire(c) \/ CleanupSingleHold(c)
  <2>1. UNCHANGED origin
    BY <1>5 DEF ReleaseAllHolds, CancelTicket, CancelTrip, UpdateTrip, UpdateTripManualStatus, Expire,
                CleanupSingleHold
  <2>2. QED
    BY <2>1
<1>6. QED
  BY <1>1, <1>2, <1>4, <1>5, Cases

LEMMA RowsStay ==
  ASSUME TypeOK, [Next]_vars, NEW b \in Booking, status[b] # "none"
  PROVE  status'[b] # "none"
<1>1. Forward(b) /\ status[b] \in Status
  BY StepForward DEF TypeOK
<1>2. QED
  BY <1>1 DEF Forward, Successors, Status

LEMMA RequestStep ==
  ASSUME TypeOK, TypeOK', RequestInv, [Next]_vars
  PROVE  RequestInv'
<1>a. ASSUME NEW b \in counted' PROVE status'[b] # "none"
  <2>1. b \in Booking
    BY DEF TypeOK
  <2>2. QED
    BY <2>1, HistoryStep, RowsStay DEF RequestInv
<1>b. ASSUME NEW b \in repeated' PROVE status'[b] \in Ticketed
  <2>1. b \in Booking
    BY DEF TypeOK
  <2>2. QED
    BY <2>1, HistoryStep, TicketsStay DEF RequestInv, Ticketed
<1> SUFFICES ASSUME NEW r \in Request
             PROVE  /\ req'[r].op = "cancel" => status'[req'[r].ticket] \in Ticketed
                    /\ req'[r].op = "cancelTrip" =>
                         \A b \in req'[r].tickets : status'[b] \in Ticketed /\ trip'[b] = req'[r].trip
  BY <1>a, <1>b DEF RequestInv
<1>1. RequestMoves(r)
  BY StepMoves
<1>2. CASE req'[r] = req[r]
  BY <1>2, RequestShape, TicketsStay DEF RequestInv
<1>3. CASE req'[r] = Idle \/ req'[r].op \in {"release", "hung", "updateTrip"}
  BY <1>3 DEF Idle
<1>4. CASE \E u \in User, t \in Trip, n \in 1..MaxCount, now \in 0..MaxWeek : NewHold(r, u, t, n, now)
  <2>1. req'[r].op = "hold"
    <3>1. req \in [Request -> RequestState]
      BY DEF TypeOK
    <3>2. PICK u \in User, t \in Trip, n \in 1..MaxCount, now \in 0..MaxWeek : NewHold(r, u, t, n, now)
      BY <1>4
    <3>3. req'[r] = [op |-> "hold", user |-> u, trip |-> t, count |-> n, now |-> now]
      BY <3>1, <3>2 DEF NewHold
    <3>4. QED
      BY <3>3
  <2>2. QED
    BY <2>1
<1>5. CASE \E b \in With({"CONFIRMED"}) : req'[r] = [op |-> "cancel", ticket |-> b]
  BY <1>5, TicketsStay DEF With, Ticketed
<1>6. CASE \E t \in Trip : req'[r] = [op |-> "cancelTrip", trip |-> t, tickets |-> On(t, {"CONFIRMED"})]
  BY <1>6, TicketsStay DEF On, With, Ticketed
<1>7. QED
  BY <1>1, <1>2, <1>3, <1>4, <1>5, <1>6 DEF RequestMoves

-----------------------------------------------------------------------------
(* Payments                                                                *)

PaidRow(b) ==
  /\ refunds[b] <= 1
  /\ refunds[b] = 1 => b \in debited /\ status[b] \in {"CANCELLED", "CANCELLED_BY_ADMIN"}
  /\ status[b] = "CONFIRMED" /\ Priced(b) => b \in debited
  /\ status[b] = "CANCELLED" /\ Priced(b) => refunds[b] = 1
  /\ b \in debited <=> status[b] \in Ticketed /\ Priced(b)

LEMMA PaidRows == TypeOK => (PaidInv <=> \A b \in Booking : PaidRow(b))
  BY DEF PaidInv, TicketsPaid, PaidRow

\* A booking that keeps its row and its payments, or whose row is no ticket.
LEMMA PaidKept ==
  ASSUME TypeOK, NEW b \in Booking, PaidRow(b), UNCHANGED <<debited, refunds>>,
         \/ status'[b] = status[b] /\ trip'[b] = trip[b] /\ user'[b] = user[b]
         \/ status[b] \notin Ticketed /\ status'[b] \notin Ticketed
  PROVE  PaidRow(b)'
  BY DEF PaidRow, Priced, IsStudent, Ticketed

LEMMA HoldPaid ==
  ASSUME TypeOK, NEW b \in Booking, PaidRow(b), [Next]_vars,
         \/ \E r \in Request : HoldTake(r) \/ ReleaseAllHolds(r) \/ UpdateTrip(r)
         \/ \E t \in Trip : UpdateTripManualStatus(t)
         \/ \E c \in Booking : Expire(c) \/ CleanupSingleHold(c)
         \/ Rest
  PROVE  PaidRow(b)'
<1>1. UNCHANGED <<debited, refunds>>
  BY RestUnchanged DEF HoldTake, ReleaseAllHolds, UpdateTrip, UpdateTripManualStatus, Expire,
                       CleanupSingleHold, tables
<1>2. Forward(b)
  BY StepForward
<1>3. status'[b] \in {"CONFIRMED", "CANCELLED", "CANCELLED_BY_ADMIN"} => status'[b] = status[b]
  <2>1. CASE \E r \in Request : HoldTake(r) \/ ReleaseAllHolds(r) \/ UpdateTrip(r)
    BY <2>1 DEF HoldTake, ReleaseAllHolds, UpdateTrip
  <2>2. CASE \E t \in Trip : UpdateTripManualStatus(t)
    BY <2>2 DEF UpdateTripManualStatus
  <2>3. CASE \E c \in Booking : Expire(c) \/ CleanupSingleHold(c)
    BY <2>3 DEF TypeOK, Expire, CleanupSingleHold
  <2>4. CASE Rest
    BY <2>4, RestUnchanged DEF tables
  <2>5. QED
    BY <2>1, <2>2, <2>3, <2>4
<1>4. \/ status'[b] = status[b] /\ trip'[b] = trip[b] /\ user'[b] = user[b]
      \/ status[b] \notin Ticketed /\ status'[b] \notin Ticketed
  <2>1. CASE status'[b] = status[b]
    BY <1>2, <2>1 DEF Forward, Ticketed
  <2>2. CASE status'[b] # status[b]
    BY <1>2, <1>3, <2>2 DEF Forward, Successors, Ticketed
  <2>3. QED
    BY <2>1, <2>2
<1>5. QED
  BY <1>1, <1>4, PaidKept

LEMMA ConfirmPaid ==
  ASSUME TypeOK, NEW b \in Booking, PaidRow(b), NEW u \in User, ConfirmBatch(u)
  PROVE  PaidRow(b)'
<1>1. PICK S \in SUBSET With({"HELD"}), again \in SUBSET With({"none"}) :
        \E hold \in [S \cup again -> S] : SoldAs(u, S, again, hold)
  BY ConfirmRows
<1>2. PICK hold \in [S \cup again -> S] : SoldAs(u, S, again, hold)
  BY <1>1
<1>3. UNCHANGED refunds
  BY DEF ConfirmBatch
<1>4. PricedOf(hold) = {c \in S \cup again : Price[trip[hold[c]]] > 0}
  BY DEF PricedOf
<1>5. CASE b \in S \cup again
  <2>1. /\ status[b] \in {"HELD", "none"} /\ status'[b] = "CONFIRMED" /\ user'[b] = u
        /\ trip'[b] = trip[hold[b]]
    BY <1>2, <1>5 DEF SoldAs, With, TypeOK
  <2>2. refunds[b] # 1 /\ b \notin debited
    BY <2>1 DEF PaidRow, Ticketed
  <2>3. Priced(b)' <=> b \in debited'
    <3>1. Priced(b)' <=> IsStudent(u) /\ Price[trip[hold[b]]] > 0
      BY <2>1 DEF Priced, IsStudent
    <3>2. debited' = IF IsStudent(u) THEN debited \cup PricedOf(hold) ELSE debited
      BY <1>2 DEF SoldAs
    <3>3. QED
      BY <1>4, <1>5, <2>2, <3>1, <3>2
  <2>4. QED
    BY <1>3, <2>1, <2>2, <2>3 DEF PaidRow, Ticketed
<1>6. CASE b \notin S \cup again
  <2>1. /\ status'[b] = status[b] /\ trip'[b] = trip[b] /\ user'[b] = user[b]
        /\ b \in debited' <=> b \in debited
    BY <1>2, <1>4, <1>6 DEF SoldAs
  <2>2. QED
    BY <1>3, <2>1 DEF PaidRow, Priced, IsStudent
<1>7. QED
  BY <1>5, <1>6

LEMMA CancelPaid ==
  ASSUME TypeOK, RequestInv, NEW b \in Booking, PaidRow(b), NEW r \in Request, CancelTicket(r)
  PROVE  PaidRow(b)'
<1> DEFINE c == req[r].ticket
<1>1. c \in Booking /\ status[c] \in Ticketed
  BY RequestShape DEF CancelTicket, RequestInv
<1>2. UNCHANGED <<trip, user, debited>>
  BY DEF CancelTicket
<1>3. /\ status' = [status EXCEPT ![c] = IF status[c] = "CONFIRMED" THEN "CANCELLED" ELSE status[c]]
      /\ IF Refundable(c) THEN RefundTicket(c) ELSE refunds' = refunds
  BY DEF CancelTicket, ReturnSeat
<1>4. status \in [Booking -> Status] /\ refunds \in [Booking -> Nat]
  BY DEF TypeOK
<1> HIDE DEF c
<1>5. CASE b # c
  <2>1. status'[b] = status[b] /\ refunds'[b] = refunds[b]
    BY <1>1, <1>3, <1>4, <1>5 DEF RefundTicket
  <2>2. QED
    BY <1>2, <2>1 DEF PaidRow, Priced, IsStudent
<1>6. CASE b = c
  <2>1. status'[b] = IF status[b] = "CONFIRMED" THEN "CANCELLED" ELSE status[b]
    BY <1>1, <1>3, <1>4, <1>6
  <2>2. IF Refundable(b) THEN refunds[b] = 0 /\ refunds'[b] = 1 ELSE refunds'[b] = refunds[b]
    BY <1>1, <1>3, <1>4, <1>6 DEF RefundTicket
  <2>3. Priced(b)' <=> Priced(b)
    BY <1>2 DEF Priced, IsStudent
  <2>4. Refundable(b) <=> Priced(b) /\ b \in debited
    BY DEF Refundable, Priced
  <2>5. CASE Refundable(b)
    BY <1>1, <1>2, <1>6, <2>1, <2>2, <2>3, <2>4, <2>5 DEF PaidRow, Ticketed
  <2>6. CASE ~ Refundable(b)
    BY <1>1, <1>2, <1>6, <2>1, <2>2, <2>3, <2>4, <2>6 DEF PaidRow, Ticketed
  <2>7. QED
    BY <2>5, <2>6
<1>7. QED
  BY <1>5, <1>6

LEMMA CancelTripPaid ==
  ASSUME TypeOK, RequestInv, NEW b \in Booking, PaidRow(b), NEW r \in Request, CancelTrip(r)
  PROVE  PaidRow(b)'
<1>1. UNCHANGED <<trip, user, debited>>
  BY DEF CancelTrip
<1>2. status'[b] = IF b \in On(req[r].trip, {"CONFIRMED"}) THEN "CANCELLED_BY_ADMIN" ELSE status[b]
  BY DEF CancelTrip
<1>3. Priced(b)' <=> Priced(b)
  BY <1>1 DEF Priced, IsStudent
<1>4. CASE refunds'[b] = refunds[b]
  BY <1>1, <1>2, <1>3, <1>4 DEF PaidRow, On, With, Ticketed
<1>5. CASE refunds'[b] # refunds[b]
  <2>1. b \in ToRefund(r) /\ refunds[b] = 0 /\ refunds'[b] = 1
    <3>1. PICK c \in ToRefund(r) : RefundTicket(c)
      BY <1>5 DEF CancelTrip
    <3>2. refunds[c] = 0 /\ refunds' = [refunds EXCEPT ![c] = refunds[c] + 1]
      BY <3>1 DEF RefundTicket
    <3>3. refunds \in [Booking -> Nat]
      BY DEF TypeOK
    <3>4. b = c
      BY <1>5, <3>2, <3>3
    <3>5. QED
      BY <3>2, <3>3, <3>4
  <2>2. b \in debited /\ status[b] \in Ticketed /\ trip[b] = req[r].trip
    BY <2>1 DEF ToRefund, RequestInv, CancelTrip
  <2>3. status[b] = "CONFIRMED" => b \in On(req[r].trip, {"CONFIRMED"})
    BY <2>2 DEF On, With
  <2>4. QED
    BY <1>1, <1>2, <1>3, <2>1, <2>2, <2>3 DEF PaidRow, Ticketed
<1>6. QED
  BY <1>4, <1>5

LEMMA PaidStep ==
  ASSUME TypeOK, TypeOK', RequestInv, PaidInv, [Next]_vars
  PROVE  PaidInv'
<1>1. ASSUME NEW b \in Booking
      PROVE  PaidRow(b)'
  <2>1. PaidRow(b)
    BY PaidRows
  <2>2. QED
    BY <2>1, Cases, HoldPaid, ConfirmPaid, CancelPaid, CancelTripPaid
<1>2. QED
  BY <1>1 DEF TypeOK, PaidInv, TicketsPaid, PaidRow

-----------------------------------------------------------------------------
(* The weekly quota                                                        *)

Using == {"CONFIRMED", "HELD"}

Uses(u, d, k) ==
  {b \in With(Using) : user[b] = u /\ Direction[trip[b]] = d /\ departs[trip[b]] = k}

LEMMA CountedType ==
  ASSUME NEW u, NEW d, NEW k
  PROVE  Counted(u, d, k) \in SUBSET Booking /\ Cardinality(Counted(u, d, k)) \in Nat
<1>1. Counted(u, d, k) \in SUBSET Booking
  BY DEF Counted, With
<1>2. QED
  BY <1>1, BookingsFinite

LEMMA CountedTypeNext ==
  ASSUME NEW u, NEW d, NEW k
  PROVE  Counted(u, d, k)' \in SUBSET Booking /\ Cardinality(Counted(u, d, k)') \in Nat
<1>1. Counted(u, d, k)' \in SUBSET Booking
  BY DEF Counted, With
<1>2. QED
  BY <1>1, BookingsFinite

\* What the query of HoldSeats counts covers what counts.
LEMMA CountedUsed ==
  ASSUME NEW u, NEW d, NEW k
  PROVE  Usage(u, d, k) \in Nat /\ Cardinality(Counted(u, d, k)) <= Usage(u, d, k)
<1>1. Uses(u, d, k) \in SUBSET Booking /\ Counted(u, d, k) \in SUBSET Uses(u, d, k)
  BY DEF Uses, Counted, With, Using
<1>2. Usage(u, d, k) = Cardinality(Uses(u, d, k))
  BY DEF Usage, Uses, Using
<1>3. QED
  BY <1>1, <1>2, BookingsFinite, SubsetCardinality

\* Only HoldTake and ConfirmBatch bring new seats to a user, and only HoldTake ones that
\* count.
LEMMA NoNewUse ==
  ASSUME TypeOK, [Next]_vars, \A r \in Request : ~ HoldTake(r), NEW b \in Booking,
         status[b] # "none", status'[b] \in Using
  PROVE  status[b] \in Using /\ trip'[b] = trip[b] /\ user'[b] = user[b]
<1>1. Forward(b)
  BY StepForward
<1>2. status'[b] = "HELD" => status[b] = "HELD"
  <2>1. CASE \E r \in Request : ReleaseAllHolds(r) \/ CancelTicket(r) \/ CancelTrip(r) \/ UpdateTrip(r)
    <3>1. ASSUME NEW r \in Request, CancelTicket(r)
          PROVE  status'[b] \in {status[b], "CANCELLED"}
      <4>1. status' = [status EXCEPT ![req[r].ticket] = IF @ = "CONFIRMED" THEN "CANCELLED" ELSE @]
        BY <3>1 DEF CancelTicket, ReturnSeat
      <4>2. QED
        BY <4>1 DEF TypeOK
    <3>2. QED
      BY <2>1, <3>1 DEF ReleaseAllHolds, CancelTrip, UpdateTrip
  <2>2. CASE \E u \in User : ConfirmBatch(u)
    BY <2>2 DEF ConfirmBatch
  <2>3. CASE \E t \in Trip : UpdateTripManualStatus(t)
    BY <2>3 DEF UpdateTripManualStatus
  <2>4. CASE \E c \in Booking : Expire(c) \/ CleanupSingleHold(c)
    BY <2>4 DEF TypeOK, Expire, CleanupSingleHold
  <2>5. CASE Rest
    BY <2>5, RestUnchanged DEF tables
  <2>6. QED
    BY <2>1, <2>2, <2>3, <2>4, <2>5, Cases
<1>3. QED
  <2>1. status[b] \in Status
    BY RowType
  <2>2. status'[b] = "CONFIRMED" => status[b] \in Using
    BY <1>1, <2>1 DEF Forward, Successors, Using, Status
  <2>3. QED
    BY <1>1, <1>2, <2>2 DEF Forward, Using

LEMMA CountedKept ==
  ASSUME TypeOK, RequestInv, [Next]_vars, \A r \in Request : ~ HoldTake(r), NEW u, NEW d, NEW k
  PROVE  Cardinality(Counted(u, d, k)') <= Cardinality(Counted(u, d, k))
<1>1. Counted(u, d, k)' \subseteq Counted(u, d, k)
  <2>1. ASSUME NEW b \in Counted(u, d, k)' PROVE b \in Counted(u, d, k)
    <3>1. /\ b \in Booking /\ b \in counted' /\ status'[b] \in Using /\ user'[b] = u
          /\ Direction[trip'[b]] = d /\ departs'[trip'[b]] = k /\ trip'[b] \notin moved'
      BY <2>1 DEF Counted, With, Using
    <3>2. b \in counted /\ status[b] # "none"
      BY <3>1, HistoryStep DEF RequestInv
    <3>3. status[b] \in Using /\ trip'[b] = trip[b] /\ user'[b] = user[b]
      BY <3>1, <3>2, NoNewUse
    <3>4. trip[b] \in Trip \ moved'
      BY <3>1, <3>3 DEF TypeOK
    <3>5. trip[b] \notin moved /\ departs'[trip[b]] = departs[trip[b]]
      BY <3>4, ScheduleStep
    <3>6. QED
      BY <3>1, <3>2, <3>3, <3>5 DEF Counted, With, Using
  <2>2. QED
    BY <2>1
<1>2. QED
  BY <1>1, CountedType, SubsetCardinality

LEMMA CountedGrows ==
  ASSUME TypeOK, RequestInv, NEW r \in Request, HoldTake(r), NEW u, NEW d, NEW k
  PROVE  /\ Cardinality(Counted(u, d, k)') <= Cardinality(Counted(u, d, k)) + req[r].count
         /\ u # req[r].user \/ d # Direction[req[r].trip] \/ k # req[r].now \/ ~ WillCount(r)
              => Cardinality(Counted(u, d, k)') <= Cardinality(Counted(u, d, k))
<1> DEFINE n == req[r].count
           x == req[r].trip
           ids == FreshIds(n)
<1>1. n \in Nat /\ n <= Cardinality(With({"none"}))
  <2>1. n \in 1..MaxCount
    BY RequestShape DEF HoldTake
  <2>2. Cardinality(With({"none"})) \in Nat
    BY BookingsFinite DEF With
  <2>3. Cardinality(With({"none"})) >= n
    BY DEF HoldTake, IdsLeft
  <2>4. QED
    BY <2>1, <2>2, <2>3, Counts
<1>2. ids \in SUBSET With({"none"}) /\ ids \in SUBSET Booking /\ Cardinality(ids) = n
  BY <1>1, FreshIdsExist DEF With
<1>3. ASSUME NEW b \in Booking
      PROVE  /\ status'[b] = IF b \in ids THEN "HELD" ELSE status[b]
             /\ trip'[b] = IF b \in ids THEN x ELSE trip[b]
             /\ user'[b] = IF b \in ids THEN req[r].user ELSE user[b]
  BY DEF HoldTake
<1>4. counted' = IF req[r].now = departs[x] THEN counted \cup ids ELSE counted
  BY DEF HoldTake
<1>5. UNCHANGED schedule
  BY DEF HoldTake
<1> HIDE DEF ids, x, n
<1>6. ids \cap counted = {}
  BY <1>2 DEF RequestInv, With
<1>7. ASSUME NEW b \in Counted(u, d, k)', b \notin ids PROVE b \in Counted(u, d, k)
  BY <1>3, <1>4, <1>5, <1>7 DEF Counted, With
<1>8. ASSUME NEW b \in Counted(u, d, k)', b \in ids
      PROVE  u = req[r].user /\ d = Direction[x] /\ k = req[r].now /\ WillCount(r)
  <2>1. /\ b \in Booking /\ b \in counted' /\ user'[b] = u /\ Direction[trip'[b]] = d
        /\ departs'[trip'[b]] = k /\ trip'[b] \notin moved'
    BY <1>8 DEF Counted, With
  <2>2. trip'[b] = x /\ user'[b] = req[r].user /\ req[r].now = departs[x]
    BY <1>3, <1>4, <1>6, <1>8, <2>1
  <2>3. QED
    BY <1>5, <2>1, <2>2 DEF WillCount, x
<1>9. Counted(u, d, k)' \in SUBSET Booking /\ Counted(u, d, k) \cup ids \in SUBSET Booking
  BY <1>2, CountedType, CountedTypeNext
<1>10. Cardinality(Counted(u, d, k)') <= Cardinality(Counted(u, d, k)) + n
  <2>1. Counted(u, d, k)' \subseteq Counted(u, d, k) \cup ids
    BY <1>7
  <2>2. Cardinality(Counted(u, d, k)') <= Cardinality(Counted(u, d, k) \cup ids)
    BY <1>9, <2>1, SubsetCardinality
  <2>3. Cardinality(Counted(u, d, k) \cup ids) <= Cardinality(Counted(u, d, k)) + n
    BY <1>2, CountedType, UnionCardinality
  <2>4. Cardinality(Counted(u, d, k) \cup ids) \in Nat
    BY <1>9, BookingsFinite
  <2>5. QED
    BY <1>1, <2>2, <2>3, <2>4, CountedType, CountedTypeNext
<1>11. ASSUME u # req[r].user \/ d # Direction[x] \/ k # req[r].now \/ ~ WillCount(r)
       PROVE  Cardinality(Counted(u, d, k)') <= Cardinality(Counted(u, d, k))
  <2>1. Counted(u, d, k)' \subseteq Counted(u, d, k)
    BY <1>7, <1>8, <1>11
  <2>2. QED
    BY <2>1, CountedType, SubsetCardinality
<1>12. QED
  BY <1>10, <1>11 DEF n, x

LEMMA HoldOrigin ==
  ASSUME TypeOK, [Next]_vars, NEW r \in Request, req'[r].op = "hold"
  PROVE  \/ req'[r] = req[r]
         \/ UNCHANGED <<tables, schedule>> /\ \E u \in User, t \in Trip, n \in 1..MaxCount, now \in 0..MaxWeek : NewHold(r, u, t, n, now)
<1>1. RequestMoves(r)
  BY StepMoves
<1>2. CASE req'[r] \in {req[r], Idle}
  BY <1>2 DEF Idle
<1>3. CASE req'[r].op \in {"release", "hung", "updateTrip"}
  BY <1>3
<1>4. CASE \E b \in With({"CONFIRMED"}) : req'[r] = [op |-> "cancel", ticket |-> b]
  BY <1>4
<1>5. CASE \E t \in Trip : req'[r] = [op |-> "cancelTrip", trip |-> t, tickets |-> On(t, {"CONFIRMED"})]
  BY <1>5
<1>6. QED
  BY <1>1, <1>2, <1>3, <1>4, <1>5 DEF RequestMoves

LEMMA NewHoldShape ==
  ASSUME TypeOK, NEW r \in Request, NEW u \in User, NEW t \in Trip, NEW n \in 1..MaxCount,
         NEW now \in 0..MaxWeek, NewHold(r, u, t, n, now)
  PROVE  /\ req'[r].user = u /\ req'[r].trip = t /\ req'[r].count = n /\ req'[r].now = now
         /\ \A s \in Request : s # r => req'[s] = req[s]
<1>1. req \in [Request -> RequestState]
  BY DEF TypeOK
<1>2. req' = [req EXCEPT ![r] = [op |-> "hold", user |-> u, trip |-> t, count |-> n, now |-> now]]
  BY DEF NewHold
<1>3. req'[r] = [op |-> "hold", user |-> u, trip |-> t, count |-> n, now |-> now]
  BY <1>1, <1>2
<1>4. QED
  BY <1>1, <1>2, <1>3

\* The advisory lock excludes.
LEMMA HoldUnique ==
  ASSUME TypeOK, QuotaInv, [Next]_vars, NEW r \in Request, NEW s \in Request,
         req'[r].op = "hold", req'[s].op = "hold", req'[r].user = req'[s].user
  PROVE  r = s
<1>1. ASSUME NEW p \in Request, NEW q \in Request, p # q, req'[p].user = req'[q].user,
             req'[q].op = "hold",
             NEW u \in User, NEW t \in Trip, NEW n \in 1..MaxCount, NEW now \in 0..MaxWeek, NewHold(p, u, t, n, now)
      PROVE  FALSE
  <2>1. req'[p].user = u /\ req'[q] = req[q]
    BY <1>1, NewHoldShape
  <2>2. QED
    BY <1>1, <2>1 DEF NewHold, UserUnlocked
<1>2. CASE req'[r] = req[r] /\ req'[s] = req[s]
  BY <1>2 DEF QuotaInv
<1>3. QED
  BY <1>1, <1>2, HoldOrigin

\* A hold on its way leaves room for itself.
LEMMA RoomKept ==
  ASSUME TypeOK, TypeOK', RequestInv, QuotaInv, [Next]_vars,
         NEW r \in Request, req'[r].op = "hold", WillCount(r)',
         NEW u, NEW d, NEW k, u = req'[r].user, d = Direction[req'[r].trip], k = req'[r].now
  PROVE  Cardinality(Counted(u, d, k)') + req'[r].count <= WeeklyLimit
<1>1. /\ Cardinality(Counted(u, d, k)) \in Nat /\ Cardinality(Counted(u, d, k)') \in Nat
      /\ req'[r].count \in Nat /\ req'[r].trip \in Trip
  <2>1. req'[r] \in RequestState
    BY DEF TypeOK
  <2>2. req'[r].count \in 1..MaxCount /\ req'[r].trip \in Trip
    BY <2>1 DEF RequestState, Idle
  <2>3. QED
    BY <2>2, CountedType, CountedTypeNext, Counts
<1>2. CASE req'[r] = req[r]
  <2>1. WillCount(r)
    <3>1. req[r].trip \in Trip \ moved' /\ departs'[req[r].trip] = req[r].now
      BY <1>1, <1>2 DEF WillCount
    <3>2. QED
      BY <3>1, ScheduleStep DEF WillCount
  <2>2. Cardinality(Counted(u, d, k)) + req'[r].count <= WeeklyLimit
    BY <1>2, <2>1 DEF QuotaInv
  <2>3. Cardinality(Counted(u, d, k)') <= Cardinality(Counted(u, d, k))
    <3>1. CASE \A q \in Request : ~ HoldTake(q)
      BY <3>1, CountedKept
    <3>2. ASSUME NEW q \in Request, HoldTake(q)
          PROVE  Cardinality(Counted(u, d, k)') <= Cardinality(Counted(u, d, k))
      <4>1. req'[q] = Idle /\ req[q].op = "hold"
        BY <3>2 DEF HoldTake, Done, TypeOK
      <4>2. q # r
        BY <4>1 DEF Idle
      <4>3. u # req[q].user
        BY <1>2, <4>1, <4>2 DEF QuotaInv
      <4>4. QED
        BY <3>2, <4>3, CountedGrows
    <3>3. QED
      BY <3>1, <3>2
  <2>4. QED
    BY <1>1, <2>2, <2>3, Counts
<1>3. CASE UNCHANGED <<tables, schedule>> /\ \E v \in User, t \in Trip, n \in 1..MaxCount, now \in 0..MaxWeek : NewHold(r, v, t, n, now)
  <2>1. PICK v \in User, t \in Trip, n \in 1..MaxCount, now \in 0..MaxWeek : NewHold(r, v, t, n, now)
    BY <1>3
  <2>2. v = u /\ Direction[t] = d /\ now = k /\ req'[r].count = n
    BY <2>1, NewHoldShape
  <2>3. Counted(u, d, k)' = Counted(u, d, k)
    BY <1>3 DEF tables, Counted, With
  <2>4. Usage(u, d, k) + n <= WeeklyLimit
    <3>1. Usage(v, Direction[t], now) + n <= WeeklyLimit
      BY <2>1 DEF NewHold
    <3>2. QED
      BY <2>2, <3>1
  <2>5. QED
    BY <1>1, <2>2, <2>3, <2>4, CountedUsed, Counts
<1>4. QED
  BY <1>2, <1>3, HoldOrigin

LEMMA QuotaStep ==
  ASSUME TypeOK, TypeOK', RequestInv, QuotaInv, [Next]_vars
  PROVE  QuotaInv'
<1>1. \A r, s \in Request :
        req'[r].op = "hold" /\ req'[s].op = "hold" /\ req'[r].user = req'[s].user => r = s
  BY HoldUnique
<1>2. ASSUME NEW u \in User, NEW d \in {Direction[t] : t \in Trip}, NEW k \in 0..MaxWeek
      PROVE  Cardinality(Counted(u, d, k)') <= WeeklyLimit
  <2>1. /\ Cardinality(Counted(u, d, k)) \in Nat /\ Cardinality(Counted(u, d, k)') \in Nat
        /\ Cardinality(Counted(u, d, k)) <= WeeklyLimit
    BY CountedType, CountedTypeNext DEF QuotaInv, QuotaRespected
  <2>2. CASE \A r \in Request : ~ HoldTake(r)
    BY <2>1, <2>2, CountedKept, Counts
  <2>3. ASSUME NEW r \in Request, HoldTake(r)
        PROVE  Cardinality(Counted(u, d, k)') <= WeeklyLimit
    <3>1. req[r].op = "hold" /\ req[r].count \in Nat
      BY <2>3, RequestShape, Counts DEF HoldTake
    <3>2. CASE u # req[r].user \/ d # Direction[req[r].trip] \/ k # req[r].now \/ ~ WillCount(r)
      BY <2>1, <2>3, <3>2, CountedGrows, Counts
    <3>3. CASE u = req[r].user /\ d = Direction[req[r].trip] /\ k = req[r].now /\ WillCount(r)
      <4>1. Cardinality(Counted(u, d, k)) + req[r].count <= WeeklyLimit
        BY <3>1, <3>3 DEF QuotaInv
      <4>2. Cardinality(Counted(u, d, k)') <= Cardinality(Counted(u, d, k)) + req[r].count
        BY <2>3, CountedGrows
      <4>3. QED
        BY <2>1, <3>1, <4>1, <4>2, Counts
    <3>4. QED
      BY <3>2, <3>3
  <2>4. QED
    BY <2>2, <2>3
<1>3. QuotaRespected'
  BY <1>2 DEF QuotaRespected
<1>4. ASSUME NEW r \in Request, req'[r].op = "hold", WillCount(r)'
      PROVE  (Cardinality(Counted(req[r].user, Direction[req[r].trip], req[r].now)) + req[r].count
                <= WeeklyLimit)'
  BY <1>4, RoomKept
<1>5. QED
  BY <1>1, <1>3, <1>4 DEF QuotaInv

-----------------------------------------------------------------------------
(* The invariant                                                           *)

LEMMA InitInvariant ==
  ASSUME Init
  PROVE  IInv
<1>1. TypeOK
  <2>1. (CHOOSE t \in Trip : TRUE) \in Trip /\ (CHOOSE u \in User : TRUE) \in User
    BY SeatAssumption
  <2>2. /\ available \in [Trip -> Nat] /\ capacity \in [Trip -> Nat] /\ funds \in [User -> Nat]
        /\ manual \in [Trip -> {"", "OPEN", "CLOSED", "CANCELLED"}]
        /\ window \in [Trip -> Window]
    BY SeatAssumption DEF Init, Window
  <2>3. /\ status \in [Booking -> Status] /\ refunds \in [Booking -> Nat]
        /\ debited \subseteq Booking /\ reap \subseteq Booking
    BY DEF Init, Status
  <2>4. trip \in [Booking -> Trip] /\ user \in [Booking -> User]
    BY <2>1 DEF Init
  <2>5. req \in [Request -> RequestState]
    BY DEF Init, RequestState
  <2>6. /\ week \in 0..MaxWeek /\ departs \in [Trip -> Nat] /\ moved \subseteq Trip
        /\ counted \subseteq Booking /\ repeated \subseteq Booking
    <3>1. week = 0 /\ departs = Week /\ moved = {} /\ counted = {} /\ repeated = {}
      BY DEF Init
    <3>2. Week \in [Trip -> Nat]
      BY SeatAssumption
    <3>3. QED
      BY <3>1, <3>2, Counts
  <2>7. QED
    BY <2>2, <2>3, <2>4, <2>5, <2>6 DEF TypeOK
<1>2. RequestInv
  BY DEF Init, Idle, RequestInv
<1>3. PaidInv
  <2>1. ASSUME NEW b \in Booking PROVE PaidRow(b)
    <3>1. status[b] = "none" /\ refunds[b] = 0 /\ debited = {}
      BY DEF Init
    <3>2. QED
      BY <3>1 DEF PaidRow, Ticketed
  <2>2. QED
    BY <1>1, <2>1, PaidRows
<1>4. \A u, d, k : Cardinality(Counted(u, d, k)) = 0
  <2>1. \A u, d, k : Counted(u, d, k) = {}
    BY DEF Init, Counted
  <2>2. QED
    BY <2>1, FS_EmptySet
<1>5. QuotaInv
  <2>1. QuotaRespected
    BY <1>4, Counts DEF QuotaRespected
  <2>2. \A r \in Request : req[r].op # "hold"
    BY DEF Init, Idle
  <2>3. QED
    BY <2>1, <2>2 DEF QuotaInv
<1>6. QED
  BY <1>1, <1>2, <1>3, <1>5 DEF IInv

LEMMA StepInvariant ==
  ASSUME IInv, [Next]_vars
  PROVE  IInv'
  BY TypeStep, RequestStep, PaidStep, QuotaStep DEF IInv

-----------------------------------------------------------------------------
(* The seats of the trips that only paying students take                   *)

Voided(t) == On(t, {"CANCELLED_BY_ADMIN"})

\* The same sets, named for a state and the next.
LEMMA SeatCounts ==
  ASSUME TypeOK, NEW t \in Trip
  PROVE  /\ On(t, Occupying) \in SUBSET Booking /\ Cardinality(On(t, Occupying)) \in Nat
         /\ Voided(t) \in SUBSET Booking /\ Cardinality(Voided(t)) \in Nat
         /\ Unrefunded(t) \in SUBSET Booking /\ Cardinality(Unrefunded(t)) \in Nat
         /\ Oversold(t) \in SUBSET Booking /\ Cardinality(Oversold(t)) \in Nat
<1>1. /\ On(t, Occupying) \in SUBSET Booking /\ Voided(t) \in SUBSET Booking
      /\ Unrefunded(t) \in SUBSET Booking /\ Oversold(t) \in SUBSET Booking
  BY DEF On, With, Voided, Unrefunded, Oversold, TypeOK
<1>2. QED
  BY <1>1, BookingsFinite

LEMMA SeatCountsNext ==
  ASSUME TypeOK', NEW t \in Trip
  PROVE  /\ On(t, Occupying)' \in SUBSET Booking /\ Cardinality(On(t, Occupying)') \in Nat
         /\ Voided(t)' \in SUBSET Booking /\ Cardinality(Voided(t)') \in Nat
         /\ Unrefunded(t)' \in SUBSET Booking /\ Cardinality(Unrefunded(t)') \in Nat
         /\ Oversold(t)' \in SUBSET Booking /\ Cardinality(Oversold(t)') \in Nat
<1>1. /\ On(t, Occupying)' \in SUBSET Booking /\ Voided(t)' \in SUBSET Booking
      /\ Unrefunded(t)' \in SUBSET Booking /\ Oversold(t)' \in SUBSET Booking
  BY DEF On, With, Voided, Unrefunded, Oversold, TypeOK
<1>2. QED
  BY <1>1, BookingsFinite

LEMMA Slack ==
  ASSUME TypeOK, NEW t \in Trip
  PROVE  SlackInv(t)
           <=> /\ available[t] + Cardinality(On(t, Occupying)) + Cardinality(Unrefunded(t))
                    <= capacity[t] + Cardinality(Oversold(t))
               /\ capacity[t] <= available[t] + Cardinality(On(t, Occupying)) + Cardinality(Voided(t))
<1>1. SlackInv(t) <=> capacity[t] - Cardinality(On(t, Occupying)) - available[t]
                        \in Cardinality(Unrefunded(t)) - Cardinality(Oversold(t)) .. Cardinality(Voided(t))
  BY DEF SlackInv, Voided
<1>2. QED
  BY <1>1, SeatCounts, TripType

LEMMA SlackNext ==
  ASSUME TypeOK', NEW t \in Trip
  PROVE  SlackInv(t)'
           <=> /\ available'[t] + Cardinality(On(t, Occupying)') + Cardinality(Unrefunded(t)')
                    <= capacity'[t] + Cardinality(Oversold(t)')
               /\ capacity'[t] <= available'[t] + Cardinality(On(t, Occupying)') + Cardinality(Voided(t)')
<1>1. SlackInv(t)' <=> capacity'[t] - Cardinality(On(t, Occupying)') - available'[t]
                        \in Cardinality(Unrefunded(t)') - Cardinality(Oversold(t)') .. Cardinality(Voided(t)')
  BY DEF SlackInv, Voided
<1>2. available'[t] \in Nat /\ capacity'[t] \in Nat
  BY DEF TypeOK
<1>3. QED
  BY <1>1, <1>2, SeatCountsNext

\* The seats a step gives back are cut off by the capacity, at worst.
LEMMA IncrementsFit ==
  ASSUME TypeOK, NEW t \in Trip, NEW n \in Nat
  PROVE  /\ Incremented(t, n) \in available[t]..(available[t] + n)
         /\ Incremented(t, n) = available[t] + n \/ Incremented(t, n) >= capacity[t]
  BY TripType DEF Incremented, Smaller

\* What a step that makes no ticket of a repeated hold leaves of these.
LEMMA OversoldKept ==
  ASSUME TypeOK, RequestInv, [Next]_vars, NEW t \in Trip, \A u \in User : ~ ConfirmBatch(u)
  PROVE  Oversold(t)' = Oversold(t)
<1>1. repeated' = repeated
  <2>1. CASE Rest
    BY <2>1, RestUnchanged DEF tables
  <2>2. QED
    BY <2>1, Cases DEF HoldTake, ReleaseAllHolds, CancelTicket, CancelTrip, UpdateTrip, UpdateTripManualStatus,
                       Expire, CleanupSingleHold
<1>2. ASSUME NEW b \in repeated PROVE trip'[b] = trip[b]
  <2>1. b \in Booking /\ status[b] # "none"
    BY DEF TypeOK, RequestInv, Ticketed
  <2>2. QED
    BY <2>1, StepForward DEF Forward
<1>3. QED
  BY <1>1, <1>2 DEF Oversold

\* The rows of the trip keep their kind.
LEMMA SlackKept ==
  ASSUME TypeOK, TypeOK', NEW t \in Trip, SlackInv(t),
         capacity'[t] - available'[t] = capacity[t] - available[t],
         On(t, Occupying)' = On(t, Occupying), Voided(t)' = Voided(t),
         Unrefunded(t)' \subseteq Unrefunded(t), Oversold(t)' = Oversold(t)
  PROVE  SlackInv(t)'
<1>1. Cardinality(Unrefunded(t)') <= Cardinality(Unrefunded(t))
  BY SeatCounts, SubsetCardinality
<1>2. available'[t] \in Nat /\ capacity'[t] \in Nat
  BY DEF TypeOK
<1>3. QED
  BY <1>1, <1>2, Slack, SlackNext, SeatCounts, SeatCountsNext, TripType

\* Some of its holds and tickets end, and their seats are returned.
LEMMA SlackReturned ==
  ASSUME TypeOK, TypeOK', NEW t \in Trip, SlackInv(t), NEW S \in SUBSET On(t, Occupying),
         capacity'[t] = capacity[t], available'[t] = Incremented(t, Cardinality(S)),
         On(t, Occupying)' = On(t, Occupying) \ S, Voided(t)' = Voided(t),
         Unrefunded(t)' \subseteq Unrefunded(t), Oversold(t)' = Oversold(t)
  PROVE  SlackInv(t)'
<1>1. Cardinality(Unrefunded(t)') <= Cardinality(Unrefunded(t))
  BY SeatCounts, SubsetCardinality
<1>2. S \in SUBSET Booking /\ On(t, Occupying) \ S \in SUBSET Booking
  BY SeatCounts
<1>3. Cardinality(On(t, Occupying)) = Cardinality(On(t, Occupying)') + Cardinality(S)
  <2>1. On(t, Occupying) = (On(t, Occupying) \ S) \cup S
    OBVIOUS
  <2>2. Cardinality((On(t, Occupying) \ S) \cup S) = Cardinality(On(t, Occupying) \ S) + Cardinality(S)
    BY <1>2, DisjointCardinality
  <2>3. QED
    BY <2>1, <2>2
<1>4. Cardinality(S) \in Nat
  BY <1>2, BookingsFinite
<1>5. /\ available[t] + Cardinality(On(t, Occupying)) + Cardinality(Unrefunded(t))
            <= capacity[t] + Cardinality(Oversold(t))
      /\ capacity[t] <= available[t] + Cardinality(On(t, Occupying)) + Cardinality(Voided(t))
  BY Slack
<1>6. /\ Cardinality(On(t, Occupying)) \in Nat /\ Cardinality(Unrefunded(t)) \in Nat
      /\ Cardinality(Voided(t)) \in Nat /\ Cardinality(Oversold(t)) \in Nat
      /\ available[t] \in Nat /\ capacity[t] \in Nat
  BY SeatCounts, TripType
<1>7. Cardinality(On(t, Occupying)') \in Nat /\ Cardinality(Unrefunded(t)') \in Nat
  BY SeatCountsNext
<1>8. /\ available'[t] \in available[t]..(available[t] + Cardinality(S))
      /\ available'[t] = available[t] + Cardinality(S) \/ available'[t] >= capacity[t]
  BY <1>4, IncrementsFit
<1>9. available'[t] + Cardinality(On(t, Occupying)') + Cardinality(Unrefunded(t)')
         <= capacity'[t] + Cardinality(Oversold(t)')
  BY <1>1, <1>3, <1>4, <1>5, <1>6, <1>7, <1>8
<1>10. capacity'[t] <= available'[t] + Cardinality(On(t, Occupying)') + Cardinality(Voided(t)')
  BY <1>3, <1>4, <1>5, <1>6, <1>7, <1>8
<1>11. QED
  BY <1>9, <1>10, SlackNext

\* What HoldTake does to the rows, the ids it takes named.
LEMMA HoldRows ==
  ASSUME TypeOK, NEW r \in Request, HoldTake(r)
  PROVE  /\ req[r].op = "hold" /\ req[r].trip \in Trip /\ req[r].user \in User /\ req[r].count \in Nat
         /\ available[req[r].trip] >= req[r].count
         /\ available' = [available EXCEPT ![req[r].trip] = @ - req[r].count]
         /\ UNCHANGED <<capacity, refunds>>
         /\ \E ids \in SUBSET With({"none"}) :
              /\ Cardinality(ids) = req[r].count
              /\ \A b \in Booking :
                   /\ status'[b] = IF b \in ids THEN "HELD" ELSE status[b]
                   /\ trip'[b] = IF b \in ids THEN req[r].trip ELSE trip[b]
                   /\ user'[b] = IF b \in ids THEN req[r].user ELSE user[b]
<1> DEFINE n == req[r].count
<1>1. req[r].op = "hold" /\ req[r].trip \in Trip /\ req[r].user \in User /\ n \in Nat
  BY RequestShape, Counts DEF HoldTake
<1>2. available[req[r].trip] >= n /\ n <= Cardinality(With({"none"}))
  <2>1. Cardinality(With({"none"})) \in Nat
    BY BookingsFinite DEF With
  <2>2. QED
    BY <1>1, <2>1 DEF HoldTake, SeatsFree, IdsLeft
<1>3. FreshIds(n) \in SUBSET With({"none"}) /\ Cardinality(FreshIds(n)) = n
  BY <1>1, <1>2, FreshIdsExist
<1>4. ASSUME NEW b \in Booking
      PROVE  /\ status'[b] = IF b \in FreshIds(n) THEN "HELD" ELSE status[b]
             /\ trip'[b] = IF b \in FreshIds(n) THEN req[r].trip ELSE trip[b]
             /\ user'[b] = IF b \in FreshIds(n) THEN req[r].user ELSE user[b]
  BY DEF HoldTake
<1>5. available' = [available EXCEPT ![req[r].trip] = @ - n] /\ UNCHANGED <<capacity, refunds>>
  BY DEF HoldTake
<1>6. QED
  BY <1>1, <1>2, <1>3, <1>4, <1>5

LEMMA HoldSlack ==
  ASSUME TypeOK, TypeOK', NEW t \in Trip, SlackInv(t), NEW r \in Request, HoldTake(r),
         Oversold(t)' = Oversold(t)
  PROVE  SlackInv(t)'
<1> DEFINE n == req[r].count
           x == req[r].trip
<1>1. PICK ids \in SUBSET With({"none"}) :
        /\ Cardinality(ids) = n
        /\ \A b \in Booking :
             /\ status'[b] = IF b \in ids THEN "HELD" ELSE status[b]
             /\ trip'[b] = IF b \in ids THEN x ELSE trip[b]
  BY HoldRows
<1>2. /\ x \in Trip /\ n \in Nat /\ available[x] >= n
      /\ available' = [available EXCEPT ![x] = available[x] - n]
      /\ UNCHANGED <<capacity, refunds>>
  BY HoldRows
<1> HIDE DEF n, x
<1>3. ids \in SUBSET Booking /\ \A b \in ids : status[b] = "none"
  BY DEF With
<1>4. Voided(t)' = Voided(t)
  BY <1>1, <1>3 DEF Voided, On, With
<1>5. Unrefunded(t)' = Unrefunded(t)
  BY <1>2, <1>4 DEF Voided, Unrefunded
<1>6. available \in [Trip -> Nat]
  BY DEF TypeOK
<1>7. CASE x # t
  <2>1. On(t, Occupying)' = On(t, Occupying)
    BY <1>1, <1>3, <1>7 DEF On, With, Occupying
  <2>2. available'[t] = available[t]
    BY <1>2, <1>6, <1>7
  <2>3. QED
    BY <1>2, <1>4, <1>5, <2>1, <2>2, SlackKept
<1>8. CASE x = t
  <2>1. On(t, Occupying)' = On(t, Occupying) \cup ids /\ On(t, Occupying) \cap ids = {}
    BY <1>1, <1>3, <1>8 DEF On, With, Occupying
  <2>2. Cardinality(On(t, Occupying)') = Cardinality(On(t, Occupying)) + n
    BY <1>1, <1>3, <2>1, SeatCounts, DisjointCardinality
  <2>3. available'[t] = available[t] - n
    BY <1>2, <1>6, <1>8
  <2>4. /\ available[t] + Cardinality(On(t, Occupying)) + Cardinality(Unrefunded(t))
             <= capacity[t] + Cardinality(Oversold(t))
        /\ capacity[t] <= available[t] + Cardinality(On(t, Occupying)) + Cardinality(Voided(t))
    BY Slack
  <2>5. /\ Cardinality(On(t, Occupying)) \in Nat /\ Cardinality(Unrefunded(t)) \in Nat
        /\ Cardinality(Voided(t)) \in Nat /\ Cardinality(Oversold(t)) \in Nat /\ available[t] \in Nat /\ capacity[t] \in Nat
    BY SeatCounts, TripType
  <2>6. QED
    BY <1>2, <1>4, <1>5, <2>2, <2>3, <2>4, <2>5, SlackNext
<1>9. QED
  BY <1>7, <1>8

\* Each new ticket of a repeated hold takes a seat that is not there, and nothing else
\* changes.
LEMMA ConfirmSlack ==
  ASSUME TypeOK, TypeOK', RequestInv, NEW t \in Trip, SlackInv(t), NEW u \in User, ConfirmBatch(u)
  PROVE  SlackInv(t)'
<1>1. PICK S \in SUBSET With({"HELD"}), again \in SUBSET With({"none"}) :
        \E hold \in [S \cup again -> S] : SoldAs(u, S, again, hold)
  BY ConfirmRows
<1> DEFINE N == {b \in again : trip'[b] = t}
<1>2. /\ \A b \in Booking : status'[b] = IF b \in S \cup again THEN "CONFIRMED" ELSE status[b]
      /\ \A b \in Booking \ again : trip'[b] = trip[b]
      /\ repeated' = repeated \cup again
  BY <1>1 DEF SoldAs
<1>3. /\ S \in SUBSET Booking /\ again \in SUBSET Booking
      /\ \A b \in S : status[b] = "HELD"
      /\ \A b \in again : status[b] = "none"
  BY DEF With
<1>4. UNCHANGED <<available, capacity, refunds>>
  BY DEF ConfirmBatch
<1>5. again \cap repeated = {} /\ repeated \in SUBSET Booking
  BY <1>3 DEF RequestInv, Ticketed, TypeOK
<1>6. /\ On(t, Occupying)' = On(t, Occupying) \cup N
      /\ On(t, Occupying) \cap N = {}
  BY <1>2, <1>3 DEF On, With, Occupying
<1>7. Oversold(t)' = Oversold(t) \cup N /\ Oversold(t) \cap N = {}
  BY <1>2, <1>5 DEF Oversold
<1>8. Voided(t)' = Voided(t)
  BY <1>2, <1>3 DEF On, With, Voided
<1>9. Unrefunded(t)' = Unrefunded(t)
  BY <1>4, <1>8 DEF Voided, Unrefunded
<1>10. N \in SUBSET Booking
  BY <1>3
<1> HIDE DEF N
<1>11. /\ Cardinality(On(t, Occupying)') = Cardinality(On(t, Occupying)) + Cardinality(N)
       /\ Cardinality(Oversold(t)') = Cardinality(Oversold(t)) + Cardinality(N)
       /\ Cardinality(N) \in Nat
  BY <1>6, <1>7, <1>10, SeatCounts, DisjointCardinality, BookingsFinite
<1>12. /\ available[t] + Cardinality(On(t, Occupying)) + Cardinality(Unrefunded(t))
             <= capacity[t] + Cardinality(Oversold(t))
       /\ capacity[t] <= available[t] + Cardinality(On(t, Occupying)) + Cardinality(Voided(t))
  BY Slack
<1>13. /\ Cardinality(On(t, Occupying)) \in Nat /\ Cardinality(Unrefunded(t)) \in Nat
       /\ Cardinality(Voided(t)) \in Nat /\ Cardinality(Oversold(t)) \in Nat
       /\ available[t] \in Nat /\ capacity[t] \in Nat
  BY SeatCounts, TripType
<1>14. QED
  BY <1>4, <1>8, <1>9, <1>11, <1>12, <1>13, SlackNext

LEMMA ReleaseSlack ==
  ASSUME TypeOK, TypeOK', NEW t \in Trip, SlackInv(t), NEW r \in Request, ReleaseAllHolds(r),
         Oversold(t)' = Oversold(t)
  PROVE  SlackInv(t)'
<1> DEFINE S == {b \in With({"HELD", "EXPIRED"}) \ req[r].expired : user[b] = req[r].user}
           T == {b \in S : trip[b] = t}
<1>1. /\ \A b \in Booking : status'[b] = IF b \in S THEN "RELEASED" ELSE status[b]
      /\ available'[t] = Incremented(t, Cardinality(T))
      /\ UNCHANGED <<capacity, trip, refunds>>
  BY DEF ReleaseAllHolds
<1>2. S \in SUBSET Booking /\ \A b \in S : status[b] \in {"HELD", "EXPIRED"}
  BY DEF With
<1> HIDE DEF S
<1>3. T \in SUBSET On(t, Occupying) /\ On(t, Occupying)' = On(t, Occupying) \ T
  BY <1>1, <1>2 DEF On, With, Occupying
<1>4. Voided(t)' = Voided(t)
  BY <1>1, <1>2 DEF On, With, Voided
<1>5. Unrefunded(t)' = Unrefunded(t)
  BY <1>1, <1>4 DEF Voided, Unrefunded
<1> HIDE DEF T
<1>6. QED
  BY <1>1, <1>3, <1>4, <1>5, SlackReturned

LEMMA UpdateSlack ==
  ASSUME TypeOK, TypeOK', NEW t \in Trip, SlackInv(t), NotReduced(t), NEW r \in Request, UpdateTrip(r),
         Oversold(t)' = Oversold(t)
  PROVE  SlackInv(t)'
<1> DEFINE x == req[r].trip
           n == req[r].capacity
           seats == available[x] + n - capacity[x]
<1>1. x \in Trip /\ n \in Nat
  BY RequestShape, SeatAssumption DEF UpdateTrip
<1>2. /\ available' = [available EXCEPT ![x] = IF seats < 0 THEN 0 ELSE seats]
      /\ capacity' = [capacity EXCEPT ![x] = n]
      /\ UNCHANGED <<status, trip, refunds>>
  BY DEF UpdateTrip
<1>3. available \in [Trip -> Nat] /\ capacity \in [Trip -> Nat]
  BY DEF TypeOK
<1>4. capacity'[t] - available'[t] = capacity[t] - available[t]
  <2>1. CASE x # t
    <3>1. available'[t] = available[t] /\ capacity'[t] = capacity[t]
      BY <1>2, <1>3, <2>1
    <3>2. QED
      BY <3>1
  <2>2. CASE x = t
    <3>1. available'[t] = (IF seats < 0 THEN 0 ELSE seats) /\ capacity'[t] = n
      BY <1>2, <1>3, <2>2
    <3>2. n >= capacity[t] /\ seats = available[t] + n - capacity[t]
      BY <2>2, <3>1 DEF NotReduced
    <3>3. available[t] \in Nat /\ capacity[t] \in Nat
      BY TripType
    <3>4. QED
      BY <1>1, <3>1, <3>2, <3>3
  <2>3. QED
    BY <2>1, <2>2
<1>5. UNCHANGED <<On(t, Occupying), Voided(t), Unrefunded(t)>>
  BY <1>2 DEF On, With, Voided, Unrefunded
<1>6. QED
  BY <1>4, <1>5, SlackKept

LEMMA OneSlack ==
  ASSUME TypeOK, TypeOK', NEW t \in Trip, SlackInv(t), NEW b \in Booking, Expire(b) \/ CleanupSingleHold(b),
         Oversold(t)' = Oversold(t)
  PROVE  SlackInv(t)'
<1>1. status \in [Booking -> Status] /\ available \in [Trip -> Nat] /\ trip[b] \in Trip
  BY DEF TypeOK
<1>2. UNCHANGED <<capacity, trip, refunds>>
  BY DEF Expire, CleanupSingleHold
<1>3. /\ status[b] \in {"HELD", "EXPIRED"} \/ status'[b] = status[b]
      /\ status'[b] \in {status[b], "EXPIRED", "RELEASED"}
      /\ \A c \in Booking : c # b => status'[c] = status[c]
  BY <1>1 DEF Expire, CleanupSingleHold
<1>4. Voided(t)' = Voided(t)
  BY <1>2, <1>3 DEF On, With, Voided
<1>5. Unrefunded(t)' = Unrefunded(t)
  BY <1>2, <1>4 DEF Voided, Unrefunded
<1>6. CASE available'[t] = available[t] /\ On(t, Occupying)' = On(t, Occupying)
  BY <1>2, <1>4, <1>5, <1>6, SlackKept
<1>7. CASE \/ Expire(b)
           \/ status[b] # "EXPIRED" /\ CleanupSingleHold(b)
  <2>1. /\ UNCHANGED available
        /\ status'[b] = status[b] \/ (status[b] = "HELD" /\ status'[b] = "EXPIRED")
    BY <1>1, <1>7 DEF Expire, CleanupSingleHold
  <2>2. On(t, Occupying)' = On(t, Occupying)
    BY <1>2, <1>3, <2>1 DEF On, With, Occupying
  <2>3. QED
    BY <1>6, <2>1, <2>2
<1>8. CASE status[b] = "EXPIRED" /\ CleanupSingleHold(b)
  <2>1. /\ status'[b] = "RELEASED"
        /\ available' = [available EXCEPT ![trip[b]] = Incremented(trip[b], 1)]
    BY <1>1, <1>8 DEF CleanupSingleHold
  <2>2. CASE trip[b] # t
    <3>1. available'[t] = available[t]
      BY <1>1, <2>1, <2>2
    <3>2. On(t, Occupying)' = On(t, Occupying)
      BY <1>2, <1>3, <2>2 DEF On, With
    <3>3. QED
      BY <1>6, <3>1, <3>2
  <2>3. CASE trip[b] = t
    <3>1. available'[t] = Incremented(t, Cardinality({b}))
      BY <1>1, <2>1, <2>3, OneBooking
    <3>2. {b} \in SUBSET On(t, Occupying) /\ On(t, Occupying)' = On(t, Occupying) \ {b}
      BY <1>2, <1>3, <1>8, <2>1, <2>3 DEF On, With, Occupying
    <3>3. QED
      BY <1>2, <1>4, <1>5, <3>1, <3>2, SlackReturned
  <2>4. QED
    BY <2>2, <2>3
<1>9. QED
  BY <1>7, <1>8

\* A ticket that is cancelled a second time has not been refunded, and then its trip
\* still misses its seat.
LEMMA CancelSlack ==
  ASSUME TypeOK, TypeOK', RequestInv, PaidInv, NEW t \in Trip, PaidTrip(t), TripInv(t),
         NEW r \in Request, CancelTicket(r),
         Oversold(t)' = Oversold(t)
  PROVE  SlackInv(t)'
<1> DEFINE b == req[r].ticket
<1>1. b \in Booking /\ status[b] \in Ticketed
  BY RequestShape DEF CancelTicket, RequestInv
<1>2. /\ IF Refundable(b) THEN RefundTicket(b) ELSE UNCHANGED <<refunds, funds>>
      /\ status' = [status EXCEPT ![b] = IF @ = "CONFIRMED" THEN "CANCELLED" ELSE @]
      /\ available' = [available EXCEPT ![trip[b]] = Incremented(trip[b], 1)]
      /\ UNCHANGED <<capacity, trip, user, debited>>
  BY DEF CancelTicket, ReturnSeat
<1> HIDE DEF b
<1>3. /\ status \in [Booking -> Status] /\ available \in [Trip -> Nat] /\ trip[b] \in Trip
      /\ refunds \in [Booking -> Nat]
  BY <1>1 DEF TypeOK
<1>4. /\ status'[b] = IF status[b] = "CONFIRMED" THEN "CANCELLED" ELSE status[b]
      /\ \A c \in Booking : c # b => status'[c] = status[c] /\ refunds'[c] = refunds[c]
      /\ \A x \in Trip : x # trip[b] => available'[x] = available[x]
      /\ available'[trip[b]] = Incremented(trip[b], 1)
  BY <1>1, <1>2, <1>3 DEF RefundTicket
<1>5. Voided(t)' = Voided(t)
  BY <1>2, <1>4 DEF On, With, Voided
<1>6. Unrefunded(t)' \subseteq Unrefunded(t)
  <2>1. refunds'[b] = 0 => refunds[b] = 0
    BY <1>1, <1>2, <1>3 DEF RefundTicket
  <2>2. QED
    BY <1>4, <1>5, <2>1 DEF Voided, Unrefunded, On, With
<1>7. CASE trip[b] # t
  <2>1. On(t, Occupying)' = On(t, Occupying)
    BY <1>2, <1>4, <1>7 DEF On, With
  <2>2. QED
    BY <1>2, <1>4, <1>5, <1>6, <1>7, <2>1, SlackKept DEF TripInv
<1>8. CASE trip[b] = t /\ status[b] = "CONFIRMED"
  <2>1. available'[t] = Incremented(t, Cardinality({b}))
    BY <1>1, <1>4, <1>8, OneBooking
  <2>2. {b} \in SUBSET On(t, Occupying) /\ On(t, Occupying)' = On(t, Occupying) \ {b}
    BY <1>1, <1>2, <1>4, <1>8 DEF On, With, Occupying
  <2>3. QED
    BY <1>2, <1>5, <1>6, <2>1, <2>2, SlackReturned DEF TripInv
<1>9. CASE trip[b] = t /\ status[b] # "CONFIRMED"
  <2>1. Priced(b)
    BY <1>1, <1>9 DEF TripInv, StudentInv, PaidTrip, Priced, Ticketed
  <2>2. b \in debited /\ Refundable(b)
    BY <1>1, <2>1 DEF PaidInv, Priced, Refundable
  <2>3. refunds[b] = 0 /\ refunds'[b] = 1
    BY <1>1, <1>2, <1>3, <2>2 DEF RefundTicket
  <2>4. status[b] = "CANCELLED_BY_ADMIN"
    BY <1>1, <1>9, <2>1, <2>3 DEF PaidInv, TicketsPaid, Ticketed
  <2>5. b \in Unrefunded(t) /\ Unrefunded(t)' = Unrefunded(t) \ {b}
    BY <1>1, <1>2, <1>4, <1>9, <2>3, <2>4 DEF Unrefunded, On, With
  <2>6. On(t, Occupying)' = On(t, Occupying)
    BY <1>2, <1>4, <1>9 DEF On, With
  <2>7. Cardinality(Unrefunded(t)) = Cardinality(Unrefunded(t)') + 1
    <3>1. (Unrefunded(t) \ {b}) \cup {b} = Unrefunded(t)
      BY <2>5
    <3>2. Unrefunded(t) \ {b} \in SUBSET Booking
      BY SeatCounts
    <3>3. Cardinality((Unrefunded(t) \ {b}) \cup {b}) = Cardinality(Unrefunded(t) \ {b}) + Cardinality({b})
      BY <1>1, <3>2, DisjointCardinality
    <3>4. QED
      BY <1>1, <2>5, <3>1, <3>3, OneBooking
  <2>8. /\ available[t] + Cardinality(On(t, Occupying)) + Cardinality(Unrefunded(t))
             <= capacity[t] + Cardinality(Oversold(t))
        /\ capacity[t] <= available[t] + Cardinality(On(t, Occupying)) + Cardinality(Voided(t))
    BY Slack DEF TripInv
  <2>9. /\ Cardinality(On(t, Occupying)) \in Nat /\ Cardinality(Unrefunded(t)) \in Nat
        /\ Cardinality(Unrefunded(t)') \in Nat
        /\ Cardinality(Voided(t)) \in Nat /\ Cardinality(Oversold(t)) \in Nat /\ available[t] \in Nat /\ capacity[t] \in Nat
    BY SeatCounts, SeatCountsNext, TripType
  <2>10. available'[t] \in available[t]..(available[t] + 1)
    BY <1>4, <1>9, IncrementsFit
  <2>11. capacity'[t] = capacity[t]
    BY <1>2
  <2>12. QED
    BY <1>5, <2>6, <2>7, <2>8, <2>9, <2>10, <2>11, SlackNext
<1>10. QED
  BY <1>7, <1>8, <1>9

\* The confirmed tickets become voided ones, and their seats stay with them.
LEMMA CancelTripSlack ==
  ASSUME TypeOK, TypeOK', RequestInv, NEW t \in Trip, SlackInv(t), NEW r \in Request, CancelTrip(r),
         Oversold(t)' = Oversold(t)
  PROVE  SlackInv(t)'
<1> DEFINE x == req[r].trip
           C == On(x, {"CONFIRMED"})
<1>1. /\ \A b \in Booking : status'[b] = IF b \in C THEN "CANCELLED_BY_ADMIN" ELSE status[b]
      /\ UNCHANGED <<available, capacity, trip>>
  BY DEF CancelTrip
<1>2. ASSUME NEW b \in Booking
      PROVE  /\ refunds'[b] = 0 => refunds[b] = 0
             /\ refunds'[b] # refunds[b] => trip[b] = x
  <2>1. CASE UNCHANGED refunds
    BY <2>1
  <2>2. CASE \E c \in ToRefund(r) : RefundTicket(c)
    <3>1. PICK c \in ToRefund(r) : RefundTicket(c)
      BY <2>2
    <3>2. refunds \in [Booking -> Nat]
      BY DEF TypeOK
    <3>3. refunds' = [refunds EXCEPT ![c] = refunds[c] + 1] /\ refunds[c] = 0
      BY <3>1 DEF RefundTicket
    <3>4. trip[c] = x
      BY <3>1 DEF ToRefund, RequestInv, CancelTrip
    <3>5. QED
      BY <3>2, <3>3, <3>4
  <2>3. QED
    BY <2>1, <2>2 DEF CancelTrip
<1>3. C \in SUBSET Booking /\ \A b \in C : status[b] = "CONFIRMED" /\ trip[b] = x
  BY DEF On, With
<1>4. CASE x # t
  <2>1. On(t, Occupying)' = On(t, Occupying) /\ Voided(t)' = Voided(t)
    BY <1>1, <1>3, <1>4 DEF On, With, Voided
  <2>2. Unrefunded(t)' \subseteq Unrefunded(t)
    <3>1. \A b \in Voided(t)' : b \in Voided(t) /\ b \in Booking
      BY <2>1, SeatCounts
    <3>2. QED
      BY <1>2, <3>1 DEF Voided, Unrefunded
  <2>3. QED
    BY <1>1, <2>1, <2>2, SlackKept
<1>5. CASE x = t
  <2>1. /\ On(t, Occupying) = On(t, Occupying)' \cup C /\ On(t, Occupying)' \cap C = {}
        /\ Voided(t)' = Voided(t) \cup C /\ Voided(t) \cap C = {}
    <3>1. \A b \in C : b \in On(t, Occupying) /\ b \notin On(t, Occupying)' /\ b \in Voided(t)' /\ b \notin Voided(t)
      BY <1>1, <1>3, <1>5 DEF On, With, Occupying, Voided
    <3>2. \A b \in Booking \ C : /\ b \in On(t, Occupying)' <=> b \in On(t, Occupying)
                                 /\ b \in Voided(t)' <=> b \in Voided(t)
      BY <1>1 DEF On, With, Voided
    <3>3. /\ On(t, Occupying) \in SUBSET Booking /\ On(t, Occupying)' \in SUBSET Booking
          /\ Voided(t) \in SUBSET Booking /\ Voided(t)' \in SUBSET Booking
      BY SeatCounts, SeatCountsNext
    <3>4. \A b \in Booking : /\ b \in On(t, Occupying) <=> b \in On(t, Occupying)' \/ b \in C
                             /\ ~ (b \in On(t, Occupying)' /\ b \in C)
                             /\ b \in Voided(t)' <=> b \in Voided(t) \/ b \in C
                             /\ ~ (b \in Voided(t) /\ b \in C)
      <4> HIDE DEF C
      <4> SUFFICES ASSUME NEW b \in Booking
                   PROVE  /\ b \in On(t, Occupying) <=> b \in On(t, Occupying)' \/ b \in C
                          /\ ~ (b \in On(t, Occupying)' /\ b \in C)
                          /\ b \in Voided(t)' <=> b \in Voided(t) \/ b \in C
                          /\ ~ (b \in Voided(t) /\ b \in C)
        OBVIOUS
      <4>1. CASE b \in C
        BY <3>1, <4>1
      <4>2. CASE b \notin C
        BY <3>2, <4>2
      <4>3. QED
        BY <4>1, <4>2
    <3>5. C \in SUBSET Booking
      BY <1>3
    <3> HIDE DEF C
    <3>6. On(t, Occupying) = On(t, Occupying)' \cup C /\ On(t, Occupying)' \cap C = {}
      BY <3>3, <3>4, <3>5
    <3>7. Voided(t)' = Voided(t) \cup C /\ Voided(t) \cap C = {}
      BY <3>3, <3>4, <3>5
    <3>8. QED
      BY <3>6, <3>7
  <2>2. Unrefunded(t)' \subseteq Unrefunded(t) \cup C
    <3>1. \A b \in Voided(t)' : b \in Voided(t) \cup C /\ b \in Booking
      BY <2>1, SeatCountsNext
    <3>2. QED
      BY <1>2, <3>1 DEF Voided, Unrefunded
  <2>3. Cardinality(On(t, Occupying)) = Cardinality(On(t, Occupying)') + Cardinality(C)
    BY <1>3, <2>1, SeatCountsNext, DisjointCardinality
  <2>4. Cardinality(Voided(t)') = Cardinality(Voided(t)) + Cardinality(C)
    BY <1>3, <2>1, SeatCounts, DisjointCardinality
  <2>5. Cardinality(Unrefunded(t)') <= Cardinality(Unrefunded(t)) + Cardinality(C)
    <3>1. Unrefunded(t) \cup C \in SUBSET Booking
      BY <1>3, SeatCounts
    <3>2. Cardinality(Unrefunded(t)') <= Cardinality(Unrefunded(t) \cup C)
      BY <2>2, <3>1, SubsetCardinality
    <3>3. Cardinality(Unrefunded(t) \cup C) <= Cardinality(Unrefunded(t)) + Cardinality(C)
      BY <1>3, SeatCounts, UnionCardinality
    <3>4. /\ Cardinality(Unrefunded(t)') \in Nat /\ Cardinality(Unrefunded(t) \cup C) \in Nat
          /\ Cardinality(Unrefunded(t)) \in Nat /\ Cardinality(C) \in Nat
      BY <1>3, <3>1, SeatCounts, SeatCountsNext, BookingsFinite
    <3>5. QED
      BY <3>2, <3>3, <3>4
  <2>6. /\ available[t] + Cardinality(On(t, Occupying)) + Cardinality(Unrefunded(t))
             <= capacity[t] + Cardinality(Oversold(t))
        /\ capacity[t] <= available[t] + Cardinality(On(t, Occupying)) + Cardinality(Voided(t))
    BY Slack
  <2>7. /\ Cardinality(On(t, Occupying)) \in Nat /\ Cardinality(On(t, Occupying)') \in Nat
        /\ Cardinality(Unrefunded(t)) \in Nat /\ Cardinality(Unrefunded(t)') \in Nat
        /\ Cardinality(Voided(t)) \in Nat /\ Cardinality(Oversold(t)) \in Nat /\ Cardinality(C) \in Nat
        /\ available[t] \in Nat /\ capacity[t] \in Nat
    BY <1>3, SeatCounts, SeatCountsNext, TripType, BookingsFinite
  <2>8. available'[t] = available[t] /\ capacity'[t] = capacity[t]
    BY <1>1
  <2>9. QED
    BY <2>3, <2>4, <2>5, <2>6, <2>7, <2>8, SlackNext
<1>6. QED
  BY <1>4, <1>5

\* Rows are made by HoldTake and ConfirmBatch.
LEMMA NewRows ==
  ASSUME TypeOK, [Next]_vars, NEW b \in Booking, status[b] = "none", status'[b] # "none"
  PROVE  (\E r \in Request : HoldTake(r)) \/ (\E u \in User : ConfirmBatch(u))
<1>1. ASSUME NEW r \in Request, ReleaseAllHolds(r) \/ CancelTrip(r) \/ UpdateTrip(r)
      PROVE  FALSE
  BY <1>1 DEF ReleaseAllHolds, CancelTrip, UpdateTrip, On, With
<1>2. ASSUME NEW r \in Request, CancelTicket(r)
      PROVE  FALSE
  <2>1. status' = [status EXCEPT ![req[r].ticket] = IF @ = "CONFIRMED" THEN "CANCELLED" ELSE @]
    BY <1>2 DEF CancelTicket, ReturnSeat
  <2>2. QED
    BY <2>1 DEF TypeOK
<1>3. ASSUME NEW c \in Booking, Expire(c) \/ CleanupSingleHold(c)
      PROVE  FALSE
  BY <1>3 DEF TypeOK, Expire, CleanupSingleHold
<1>4. CASE Rest
  BY <1>4, RestUnchanged DEF tables
<1>5. CASE \E t \in Trip : UpdateTripManualStatus(t)
  BY <1>5 DEF UpdateTripManualStatus
<1>6. QED
  BY <1>1, <1>2, <1>3, <1>4, <1>5, Cases

LEMMA StudentStep ==
  ASSUME TypeOK, NEW t \in Trip, PaidTrip(t), StudentInv(t), [Next]_vars
  PROVE  StudentInv(t)'
<1>1. ASSUME NEW b \in Booking, status'[b] # "none", trip'[b] = t
      PROVE  Role[user'[b]] = "STUDENT"
  <2>1. CASE status[b] # "none"
    BY <1>1, <2>1, StepForward DEF Forward, StudentInv, IsStudent
  <2>2. CASE status[b] = "none"
    <3>1. ASSUME NEW r \in Request, HoldTake(r) PROVE Role[user'[b]] = "STUDENT"
      <4>1. /\ req[r].op = "hold"
            /\ \/ status'[b] = status[b]
               \/ trip'[b] = req[r].trip /\ user'[b] = req[r].user
        BY <3>1, HoldRows
      <4>2. QED
        BY <1>1, <2>2, <4>1 DEF StudentInv, IsStudent
    <3>2. ASSUME NEW u \in User, ConfirmBatch(u) PROVE Role[user'[b]] = "STUDENT"
      <4>1. PICK S \in SUBSET With({"HELD"}), again \in SUBSET With({"none"}) :
              \E hold \in [S \cup again -> S] : SoldAs(u, S, again, hold)
        BY <3>2, ConfirmRows
      <4>2. PICK hold \in [S \cup again -> S] : SoldAs(u, S, again, hold)
        BY <4>1
      <4>3. b \in again /\ user'[b] = u /\ trip'[b] = trip[hold[b]]
        BY <1>1, <2>2, <4>2 DEF SoldAs, With
      <4>4. hold[b] \in S /\ hold[b] \in Booking /\ status[hold[b]] = "HELD" /\ user[hold[b]] = u
        BY <4>2, <4>3 DEF SoldAs, With
      <4>5. QED
        BY <1>1, <4>3, <4>4 DEF StudentInv, IsStudent
    <3>3. QED
      BY <1>1, <2>2, <3>1, <3>2, NewRows
  <2>3. QED
    BY <2>1, <2>2
<1>2. ASSUME NEW r \in Request, req'[r].op = "hold", req'[r].trip = t
      PROVE  Role[req'[r].user] = "STUDENT"
  <2>1. CASE req'[r] = req[r]
    BY <1>2, <2>1 DEF StudentInv, IsStudent
  <2>2. ASSUME NEW u \in User, NEW x \in Trip, NEW n \in 1..MaxCount, NEW now \in 0..MaxWeek, NewHold(r, u, x, n, now)
        PROVE  Role[req'[r].user] = "STUDENT"
    <3>1. req'[r].user = u /\ x = t
      BY <1>2, <2>2, NewHoldShape
    <3>2. MayBook(u, t)
      BY <2>2, <3>1 DEF NewHold
    <3>3. QED
      BY <3>1, <3>2 DEF PaidTrip, IsStudent
  <2>3. QED
    BY <1>2, <2>1, <2>2, HoldOrigin
<1>3. QED
  BY <1>1, <1>2 DEF StudentInv, IsStudent

LEMMA TripStep ==
  ASSUME IInv, NEW t \in Trip, PaidTrip(t), TripInv(t), [Next]_vars, NotReduced(t)
  PROVE  TripInv(t)'
<1>1. TypeOK /\ TypeOK' /\ RequestInv /\ PaidInv /\ SlackInv(t) /\ StudentInv(t)
  BY StepInvariant DEF IInv, TripInv
<1>2. StudentInv(t)'
  BY <1>1, StudentStep
<1>3. CASE UNCHANGED tables
  <2>1. /\ UNCHANGED <<available, capacity>>
        /\ UNCHANGED <<On(t, Occupying), Voided(t), Unrefunded(t), Oversold(t)>>
    BY <1>3 DEF tables, On, With, Voided, Unrefunded, Oversold
  <2>2. QED
    BY <1>1, <1>2, <2>1, SlackKept DEF TripInv
<1>4. CASE \E x \in Trip : UpdateTripManualStatus(x)
  <2>1. /\ UNCHANGED <<available, capacity>>
        /\ UNCHANGED <<On(t, Occupying), Voided(t), Unrefunded(t), Oversold(t)>>
    BY <1>4 DEF UpdateTripManualStatus, On, With, Voided, Unrefunded, Oversold
  <2>2. QED
    BY <1>1, <1>2, <2>1, SlackKept DEF TripInv
<1>5. SlackInv(t)'
  <2>1. CASE \E u \in User : ConfirmBatch(u)
    BY <1>1, <2>1, ConfirmSlack
  <2>2. CASE \A u \in User : ~ ConfirmBatch(u)
    <3>1. Oversold(t)' = Oversold(t)
      BY <1>1, <2>2, OversoldKept
    <3>2. QED
      BY <1>1, <1>3, <1>4, <2>2, <3>1, Cases, RestUnchanged, HoldSlack, ReleaseSlack, UpdateSlack, OneSlack,
         CancelSlack, CancelTripSlack DEF TripInv
  <2>3. QED
    BY <2>1, <2>2
<1>6. QED
  BY <1>2, <1>5 DEF TripInv

LEMMA TripInit ==
  ASSUME Init, NEW t \in Trip
  PROVE  TripInv(t)
<1>1. TypeOK
  BY InitInvariant DEF IInv
<1>2. StudentInv(t)
  BY DEF Init, StudentInv, Idle
<1>3. On(t, Occupying) = {} /\ Voided(t) = {} /\ Unrefunded(t) = {} /\ Oversold(t) = {}
  BY DEF Init, On, With, Occupying, Voided, Unrefunded, Oversold
<1>4. available[t] = capacity[t] /\ capacity[t] \in Nat
  BY SeatAssumption DEF Init
<1>5. Cardinality(On(t, Occupying)) = 0 /\ Cardinality(Voided(t)) = 0 /\ Cardinality(Unrefunded(t)) = 0
      /\ Cardinality(Oversold(t)) = 0
  BY <1>3, FS_EmptySet
<1>6. /\ available[t] + Cardinality(On(t, Occupying)) + Cardinality(Unrefunded(t))
           <= capacity[t] + Cardinality(Oversold(t))
      /\ capacity[t] <= available[t] + Cardinality(On(t, Occupying)) + Cardinality(Voided(t))
  BY <1>4, <1>5
<1>7. QED
  BY <1>1, <1>2, <1>6, Slack DEF TripInv

LEMMA TripConserved ==
  ASSUME TypeOK, NEW t \in Trip, TripInv(t)
  PROVE  ConservedOn(t)
<1>1. capacity[t] - Cardinality(On(t, Occupying)) - available[t]
        \in Cardinality(Unrefunded(t)) - Cardinality(Oversold(t)) .. Cardinality(Voided(t))
  BY DEF TripInv, SlackInv, Voided
<1>2. /\ Cardinality(Unrefunded(t)) \in Nat /\ Cardinality(Oversold(t)) \in Nat
      /\ Cardinality(Voided(t)) \in Nat
  BY SeatCounts
<1>3. capacity[t] - Cardinality(On(t, Occupying)) - available[t]
        \in -Cardinality(Oversold(t)) .. Cardinality(Voided(t))
  BY <1>1, <1>2
<1>4. QED
  BY <1>3 DEF ConservedOn, Occupying, Voided, Oversold

-----------------------------------------------------------------------------
(* The theorems                                                            *)

\* Whatever requests, failures, restarts and expirations come between: the tables keep
\* their types, a cancellation that read a ticket without a lock still finds a ticket of
\* the same trip, payments agree with the rows, and the quota has room for the one
\* HoldSeats per user that is past its check.
THEOREM Invariance == Spec => []IInv
<1>1. Init => IInv
  BY InitInvariant
<1>2. IInv /\ [Next]_vars => IInv'
  BY StepInvariant
<1>3. QED
  BY <1>1, <1>2, PTL DEF Spec

\* A student's ticket is paid while it is valid, refunded exactly once when the student
\* cancels it, and nothing is refunded that was not debited: CancelTicketWithRole and
\* CancelTrip may both have read the ticket as CONFIRMED.
THEOREM Paid == Spec => []TicketsPaid
<1>1. IInv => TicketsPaid
  BY DEF IInv, PaidInv
<1>2. QED
  BY <1>1, Invariance, PTL

\* What a user books for a week during that week stays within the weekly quota, for any
\* number of concurrent HoldSeats calls and although the week may turn while one waits:
\* the advisory lock is taken before the count and kept to the commit.  Bookings of a
\* later week, trips moved to another week, and tickets of a hold named again in a batch
\* escape the count.
THEOREM Quota == Spec => []QuotaRespected
<1>1. IInv => QuotaRespected
  BY DEF IInv, QuotaInv
<1>2. QED
  BY <1>1, Invariance, PTL

\* No row goes back: a released hold never becomes a ticket, and a cancelled ticket stays
\* as it was cancelled.
THEOREM MoveForward == Spec => BookingsMoveForward
<1>1. IInv /\ [Next]_vars
        => [\A b \in Booking : status'[b] # status[b] => status'[b] \in Successors[status[b]]]_vars
  BY StepForward DEF IInv, Forward
<1>2. QED
  BY <1>1, Invariance, PTL DEF Spec, BookingsMoveForward

\* The counter available_seats never loses a seat of a trip that only paying students
\* take, and invents one only for a hold that a confirmed batch named again, as long as
\* nobody reduces its capacity: requests that hold, confirm, release and cancel, its
\* cancellation and the cleaner may meet in any order.  What happens on the other trips
\* does not matter.
THEOREM Conserved ==
  ASSUME NEW t \in Trip, PaidTrip(t)
  PROVE  Spec /\ [][NotReduced(t)]_vars => []ConservedOn(t)
<1>1. Init => TripInv(t)
  BY TripInit
<1>2. IInv /\ TripInv(t) /\ [Next]_vars /\ [NotReduced(t)]_vars => TripInv(t)'
  <2> SUFFICES ASSUME IInv, TripInv(t), [Next]_vars, [NotReduced(t)]_vars
               PROVE  TripInv(t)'
    OBVIOUS
  <2>1. NotReduced(t)
    <3>1. capacity[t] \in Nat
      BY TripType DEF IInv
    <3>2. UNCHANGED vars => capacity'[t] = capacity[t]
      BY DEF vars, tables
    <3>3. QED
      BY <3>1, <3>2 DEF NotReduced
  <2>2. QED
    BY <2>1, TripStep
<1>3. IInv /\ TripInv(t) => ConservedOn(t)
  BY TripConserved DEF IInv
<1>4. QED
  BY <1>1, <1>2, <1>3, Invariance, PTL DEF Spec

\* While capacities only grow, every trip that only paying students take keeps its students
\* and its slack: the voided tickets give their seats back once each, with the refund, and
\* no seat is sold twice but to a batch that names its hold again.
THEOREM PaidTripsKept ==
  Spec /\ [][\A t \in Trip : NotReduced(t)]_vars => []PaidTripsInv
<1>1. Init => PaidTripsInv
  BY TripInit DEF PaidTripsInv
<1>2. IInv /\ PaidTripsInv /\ [Next]_vars /\ [\A t \in Trip : NotReduced(t)]_vars => PaidTripsInv'
  <2> SUFFICES ASSUME IInv, PaidTripsInv, [Next]_vars, [\A t \in Trip : NotReduced(t)]_vars,
                      NEW t \in Trip, PaidTrip(t)
               PROVE  TripInv(t)'
    BY DEF PaidTripsInv, PaidTrip
  <2>1. NotReduced(t)
    <3>1. capacity[t] \in Nat
      BY TripType DEF IInv
    <3>2. UNCHANGED vars => capacity'[t] = capacity[t]
      BY DEF vars, tables
    <3>3. QED
      BY <3>1, <3>2 DEF NotReduced
  <2>2. TripInv(t)
    BY DEF PaidTripsInv
  <2>3. QED
    BY <2>1, <2>2, TripStep
<1>3. QED
  BY <1>1, <1>2, Invariance, PTL DEF Spec

\* All the trips of a term of paid student buses: no seat is lost, and none is sold twice
\* but for the holds a batch names again, while capacities only grow.
THEOREM AllConserved ==
  ASSUME \A t \in Trip : PaidTrip(t)
  PROVE  Spec /\ [][\A t \in Trip : NotReduced(t)]_vars => []SeatsConserved
<1>1. IInv /\ PaidTripsInv => SeatsConserved
  BY TripConserved DEF IInv, PaidTripsInv, SeatsConserved
<1>2. QED
  BY <1>1, Invariance, PaidTripsKept, PTL

\* In particular while UpdateTrip is asked for no capacity at all.
THEOREM FixedCapacity ==
  ASSUME NewCapacity = {}, \A t \in Trip : PaidTrip(t)
  PROVE  Spec => []SeatsConserved
<1>1. IInv /\ [Next]_vars => [\A t \in Trip : NotReduced(t)]_vars
  <2> SUFFICES ASSUME IInv, [Next]_vars, NEW t \in Trip
               PROVE  NotReduced(t)
    OBVIOUS
  <2>1. \A r \in Request : ~ UpdateTrip(r)
    BY RequestShape DEF IInv, UpdateTrip
  <2>2. UNCHANGED capacity
    BY <2>1, Cases, RestUnchanged
       DEF tables, HoldTake, ReleaseAllHolds, CancelTicket, CancelTrip, ConfirmBatch,
           UpdateTripManualStatus, Expire, CleanupSingleHold
  <2>3. capacity[t] \in Nat
    BY TripType DEF IInv
  <2>4. QED
    BY <2>2, <2>3 DEF NotReduced
<1>2. QED
  BY <1>1, Invariance, AllConserved, PTL DEF Spec
=============================================================================
