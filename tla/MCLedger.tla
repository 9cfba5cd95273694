------------------------------ MODULE MCLedger ------------------------------
(***************************************************************************)
(* Ledger on three transactions, which may be any of: a top-up, the        *)
(* booking of one seat, of two seats at once, a refund, a transfer of a    *)
(* negative amount.  With two of them alike a request is repeated (the     *)
(* card callback and the poller credit the same payment).  No request moves *)
(* the money of two passengers: CancelTrip is the only caller that would,  *)
(* and it does not get to its second refund (see Seats).                   *)
(***************************************************************************)
EXTENDS LedgerBank, TLC

CONSTANTS liability, alice, revenue,   \* the wallets, in the order of their ids
          topup, seat1, seat2, refund1, bad

T(from, to, amount, k) == [sender |-> from, receiver |-> to, amount |-> amount, key |-> k]

MCRank == liability :> 1 @@ alice :> 2 @@ revenue :> 3

MCKey == {topup, seat1, seat2, refund1, bad}

MCRequest ==
  { <<T(liability, alice, 2, topup)>>,
    <<T(alice, revenue, 2, seat1)>>,
    <<T(alice, revenue, 1, seat1), T(alice, revenue, 1, seat2)>>,
    <<T(revenue, alice, 1, refund1)>>,
    <<T(revenue, alice, -1, bad)>> }
=============================================================================
