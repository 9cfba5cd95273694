------------------------------ MODULE BookingInv ------------------------------
(***************************************************************************)
(* The inductive invariant behind the properties of the booking pages.     *)
(***************************************************************************)
EXTENDS Booking

\* An addSelection knows its trip.
HoldInv == \A o \in Call : call[o].op = "hold" => call[o].trip \in Trip

\* Unless there is doubt, one operation at a time; the store has the cart until
\* the server has served it, and what a fetch has read is the cart.
DataInv ==
    doubt # "yes" =>
      /\ \A o, p \in Busy : o = p
      /\ doubt = "resolving" => \E o \in Busy : call[o].at \in {"fetching", "read"}
      /\ doubt = "no" /\ (\A o \in Busy : call[o].at = "asked") => activeHolds = Cart
      /\ \A o \in Busy : call[o].at = "read" => call[o].holds = Cart

\* A confirmation asks for the whole cart, and once it or a release has been
\* served the cart is empty.
EmptyInv ==
    doubt = "no" =>
      \A o \in Busy :
        /\ call[o].op = "confirm" /\ call[o].at = "asked" => call[o].holds = Cart
        /\ call[o].op \in {"leave", "confirm"} /\ call[o].at \in {"fetching", "read"} => Cart = {}

IInv == TypeOK /\ HoldInv /\ LoadingHasOwner /\ DataInv /\ EmptyInv
=============================================================================
