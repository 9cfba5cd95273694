------------------------------ MODULE MCSeats -------------------------------
(***************************************************************************)
(* Seats on one or two trips, two users and a few bookings.                *)
(***************************************************************************)
EXTENDS SeatsInv, TLC

CONSTANTS ali, sana, omar,    \* users; omar is an employee
          bus, van            \* trips; the van carries employees, free of charge

MCRole == ali :> "STUDENT" @@ sana :> "STUDENT" @@ omar :> "EMPLOYEE"

MCBusType == bus :> "STUDENT" @@ van :> "EMPLOYEE"

ThisWeek == [t \in Trip |-> 0]

NextWeek == [t \in Trip |-> 1]

MCDirection == [t \in Trip |-> "OUTBOUND"]

BusPrice == [t \in Trip |-> IF t = bus THEN 1 ELSE 0]

TwoSeats == [t \in Trip |-> 2]

RequestSymmetry == Permutations(Request)

OneSeat == [t \in Trip |-> 1]

TwoEach == [u \in User |-> 2]
=============================================================================
