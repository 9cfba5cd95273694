----------------------------- MODULE LedgerInv ------------------------------
(***************************************************************************)
(* The inductive invariant of Ledger: why the properties hold.             *)
(***************************************************************************)
EXTENDS Ledger

Posting == {"first", "second", "sender", "receiver", "header", "debit", "credit"}

\* The statements executed with both wallet rows locked.
Holding == {"sender", "receiver", "header", "debit", "credit"}

\* A transaction that posts has a transfer to post, between two wallets, and its
\* amount was validated before the first lock.
ControlInv(t) ==
  /\ pc[t] \in Posting => todo[t] # <<>>
  /\ \A i \in 1..Len(todo[t]) : todo[t][i].sender # todo[t][i].receiver
  /\ pc[t] \in Holding \cup {"second"} => Current(t).amount > 0

\* The locks it holds: those of its current transfer and of every row it wrote.
LockInv(t) ==
  /\ pc[t] = "second" => lock[LockOrder(Current(t))[1]] = t
  /\ pc[t] \in Holding => lock[Current(t).sender] = t /\ lock[Current(t).receiver] = t
  /\ \A r \in rows[t] : lock[r.wallet] = t

\* Timestamps lie in the past.
ClockInv(t) == \A r \in Visible(t) : r.created_at < clock

HasLatest(R) == R # {} => \E r \in R : \A q \in R : q.created_at <= r.created_at

\* The history of a wallet, as some reader sees it, is in order.
GoodHistory(R) == Ordered(R) /\ Chained(R) /\ HasLatest(R)

CommittedInv ==
  /\ \A w \in Wallet : GoodHistory(Of(ledger, w))
  /\ \A r \in ledger : r.created_at < clock
  /\ NeverOverdrawn

HistoryInv(t) ==
  /\ \A w \in Wallet : GoodHistory(Of(Visible(t), w))
  /\ \A r \in rows[t] : r.wallet \notin System => r.balance_after >= 0

\* What it read is still so when it writes.
SeenInv(t) ==
  /\ pc[t] \in {"receiver", "header", "debit"} =>
       seen[t].sender = GetWalletBalance(t, Current(t).sender)
  /\ pc[t] \in {"header", "debit", "credit"} =>
       seen[t].receiver = GetWalletBalance(t, Current(t).receiver)
  /\ pc[t] \in {"header", "debit"} => CheckBalance(Current(t), seen[t].sender)

Complete(R, k) ==
  \E d, c \in R : /\ d.key = k
                  /\ Legs(d, c)
                  /\ \A r \in R : r.key = k => r \in {d, c}

\* The transfer in hand is the only one it left incomplete.
KeyInv(t) ==
  /\ \A r \in rows[t] : r.key \in keys[t]
  /\ keys[t] \cap headers = {}
  /\ \A u \in Txn \ {t} : keys[t] \cap keys[u] = {}
  /\ pc[t] \in {"debit", "credit"} => Current(t).key \in keys[t]
  /\ pc[t] = "debit" => \A r \in rows[t] : r.key # Current(t).key
  /\ pc[t] = "credit" =>
       \E d \in rows[t] : /\ d.key = Current(t).key
                          /\ d.wallet = Current(t).sender
                          /\ d.amount = -Current(t).amount
                          /\ \A r \in rows[t] : r.key = d.key => r = d
  /\ \A k \in keys[t] :
       Complete(rows[t], k) \/ (pc[t] \in {"debit", "credit"} /\ k = Current(t).key)

TxnInv(t) ==
  /\ ControlInv(t)
  /\ LockInv(t)
  /\ ClockInv(t)
  /\ HistoryInv(t)
  /\ SeenInv(t)
  /\ KeyInv(t)

IInv == TypeOK /\ CommittedInv /\ DoubleEntry /\ \A t \in Txn : TxnInv(t)
=============================================================================
