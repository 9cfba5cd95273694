------------------------------ MODULE MCBooking ------------------------------
(* Booking with a seat of each direction, for an employee with two operations *)
(* in flight and for a student with one.                                      *)
EXTENDS BookingInv, TLC

CONSTANTS h1, h2, c1, c2, out, in

MCTripOf == (h1 :> out) @@ (h2 :> in)

\* A student differs only in where he confirms; one operation at a time shows it.
MCSlots == [student \in BOOLEAN |-> IF student THEN {c1} ELSE {c1, c2}]

\* One seat and one operation, for the expiry of a hold.
MCOneTripOf == h1 :> out
MCOneSlot == [student \in BOOLEAN |-> {c1}]

\* The code treats the directions alike: a seat may be exchanged with the other
\* one if their directions are.
SwapDirections == (h1 :> h2) @@ (h2 :> h1) @@ (out :> in) @@ (in :> out)

Symmetry == Permutations({c1, c2}) \cup {SwapDirections}

\* How a seat was lost makes a difference only while somebody still shows it,
\* and the expiry effect only while the cart has a seat.
Shown(h) == h \in activeHolds \/ \E o \in Call : h \in call[o].holds

UpToLostSeats ==
    <<[h \in Hold |-> IF seat[h] = "over" /\ ~Shown(h) THEN "gone" ELSE seat[h]],
      isStudent, dataVars, loading, flowVars, pageVars, timeLeft, due /\ activeHolds # {}, call, doubt>>
=============================================================================
