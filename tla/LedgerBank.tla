------------------------------ MODULE LedgerBank ------------------------------
(***************************************************************************)
(* The ledger as an implementation of the bank.                             *)
(***************************************************************************)
EXTENDS LedgerInv, FiniteSetsExt

\* A wallet is a row of giki_wallet.wallets.
ASSUME FinitelyManyWallets == IsFiniteSet(Wallet)

\* The transfers any transaction may be asked for.
Asked == UNION {{req[i] : i \in 1..Len(req)} : req \in Request}

\* The transfers whose two rows are in the ledger.
Posted ==
  {tr \in Asked :
     \E d, c \in ledger :
       /\ d.key = tr.key /\ Legs(d, c)
       /\ d.wallet = tr.sender /\ c.wallet = tr.receiver /\ c.amount = tr.amount}

B == INSTANCE Bank WITH Transfer <- Asked, journal <- Posted

\* The ledger implements the bank: each commit posts whole transfers, once, and
\* never overdraws; every other step changes nothing the bank can see.
ImplementsBank == B!Spec

\* The stored balances are the bank's balances, and money is neither made nor lost:
\* what GetWalletBalanceSnapshot returns is what the posted transfers add up to,
\* and the balances of all wallets sum to zero.
BalancesAgree ==
  /\ \A w \in Wallet : BalanceOf(Of(ledger, w)) = B!Balance(Posted, w)
  /\ MapThenSumSet(LAMBDA w : BalanceOf(Of(ledger, w)), Wallet) = 0

-----------------------------------------------------------------------------
(* What both need beside IInv                                              *)

\* The transfer that a debit row and a credit row record.
Recorded(d, c) ==
  [sender |-> d.wallet, receiver |-> c.wallet, amount |-> c.amount, key |-> d.key]

\* Only what somebody has asked for is posted.
AskedInv ==
  /\ \A d, c \in ledger : Legs(d, c) => Recorded(d, c) \in Asked
  /\ \A t \in Txn :
       /\ \A i \in 1..Len(todo[t]) : todo[t][i] \in Asked
       /\ \A d, c \in rows[t] : Legs(d, c) => Recorded(d, c) \in Asked

\* Tables are finite.
FiniteInv ==
  /\ IsFiniteSet(ledger) /\ IsFiniteSet(headers)
  /\ \A t \in Txn : IsFiniteSet(rows[t]) /\ IsFiniteSet(keys[t])

BankInv == IInv /\ AskedInv /\ FiniteInv
=============================================================================
