-------------------------------- MODULE Bank --------------------------------
(***************************************************************************)
(* What the wallet service promises, with no database in sight: a journal  *)
(* of posted transfers that only grows, in which no (type, reference_id)   *)
(* occurs twice and under which no personal wallet is ever overdrawn.      *)
(* A balance is not stored: it is whatever the journal adds up to.         *)
(* Ledger implements this with rows, row locks and database transactions.  *)
(***************************************************************************)
EXTENDS Integers, FiniteSetsExt

CONSTANTS Wallet,     \* every wallet
          System,     \* the SYS_LIABILITY and SYS_REVENUE wallets, which may go negative
          Transfer    \* the transfers anyone may ever ask for

VARIABLE journal      \* the set of transfers posted so far

Balance(J, w) ==
  MapThenSumSet(LAMBDA tr : tr.amount, {tr \in J : tr.receiver = w})
    - MapThenSumSet(LAMBDA tr : tr.amount, {tr \in J : tr.sender = w})

KeysUnique(J) == \A t1, t2 \in J : t1.key = t2.key => t1 = t2

Covered(J) == \A w \in Wallet \ System : Balance(J, w) >= 0

Init == journal = {}

\* A request posts all of its transfers or none of them.
Post(batch) ==
  /\ batch # {}
  /\ batch \cap journal = {}
  /\ \A tr \in batch : tr.amount > 0
  /\ KeysUnique(journal \cup batch)
  /\ Covered(journal \cup batch)
  /\ journal' = journal \cup batch

Next == \E batch \in SUBSET Transfer : Post(batch)

Spec == Init /\ [][Next]_journal
=============================================================================
