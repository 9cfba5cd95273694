------------------------------- MODULE Ledger -------------------------------
(***************************************************************************)
(* The wallet's double-entry ledger (internal/wallet/service.go), one SQL  *)
(* statement per action, run by concurrent PostgreSQL transactions at READ *)
(* COMMITTED.  A transaction posts one or more transfers: a top-up or a    *)
(* refund posts one, the confirmation of a batch of seats one per ticket.  *)
(*                                                                         *)
(* What the database does is modelled from how the code relies on it: a    *)
(* row lock is held until the transaction ends, a statement sees what was  *)
(* committed before it and what its own transaction wrote, and an INSERT   *)
(* that would repeat a unique key waits for the transaction that holds the *)
(* key and then fails.                                                     *)
(***************************************************************************)
EXTENDS Integers, Sequences, FiniteSets

CONSTANTS
  Wallet,      \* the wallets; all exist (GetOrCreateWallet precedes every transfer)
  System,      \* those of type SYS_LIABILITY or SYS_REVENUE
  Rank,        \* the order of the wallets' ids as strings
  Key,         \* the pairs (type, reference_id) of transaction headers
  Txn,         \* database transactions; each runs at most once
  Request,     \* what a transaction may be asked to post: sequences of transfers
  NoTxn        \* owner of a wallet row nobody has locked

Transfer == [sender : Wallet, receiver : Wallet, amount : Int, key : Key]

ASSUME WalletAssumption ==
  /\ System \subseteq Wallet
  /\ Rank \in [Wallet -> Nat]
  /\ \A v, w \in Wallet : Rank[v] = Rank[w] => v = w

\* No caller transfers from a wallet to itself: one side is always a system
\* wallet and the other a user's.
ASSUME RequestAssumption ==
  \A req \in Request :
    /\ req \in Seq(Transfer)
    /\ req # <<>>
    /\ \A i \in 1..Len(req) : req[i].sender # req[i].receiver

ASSUME TxnAssumption == NoTxn \notin Txn

Row == [wallet : Wallet, amount : Int, balance_after : Int, key : Key, created_at : Nat]

VARIABLES
  ledger,      \* committed rows of giki_wallet.ledger
  headers,     \* committed keys of giki_wallet.transactions
  lock,        \* wallet row |-> the transaction that holds it FOR NO KEY UPDATE
  clock,       \* clock_timestamp(), which moves with every row written
  pc,          \* the statement a transaction executes next
  todo,        \* the transfers it still has to post
  rows,        \* ledger rows it wrote and has not committed
  keys,        \* headers it wrote and has not committed
  seen,        \* the two balances it read for the current transfer
  started      \* when it began, which is NOW() for all its statements

vars == <<ledger, headers, lock, clock, pc, todo, rows, keys, seen, started>>

Label == {"idle", "first", "second", "sender", "receiver", "header", "debit", "credit",
          "commit", "committed", "rolledback"}

Active(t) == pc[t] \notin {"idle", "committed", "rolledback"}

TypeOK ==
  /\ ledger \subseteq Row
  /\ headers \subseteq Key
  /\ lock \in [Wallet -> Txn \cup {NoTxn}]
  /\ clock \in Nat
  /\ pc \in [Txn -> Label]
  /\ todo \in [Txn -> Seq(Transfer)]
  /\ rows \in [Txn -> SUBSET Row]
  /\ keys \in [Txn -> SUBSET Key]
  /\ seen \in [Txn -> [sender : Int, receiver : Int]]
  /\ started \in [Txn -> Nat]

-----------------------------------------------------------------------------
(* Queries                                                                 *)

Of(R, w) == {r \in R : r.wallet = w}

\* The row that ORDER BY created_at DESC LIMIT 1 returns, of a non-empty set.
Latest(R) == CHOOSE r \in R : \A q \in R : q.created_at <= r.created_at

\* getWalletBalance on a result set: no row means 0.
BalanceOf(R) == IF R = {} THEN 0 ELSE Latest(R).balance_after

\* What a statement of t sees at READ COMMITTED.
Visible(t) == ledger \cup rows[t]

GetWalletBalance(t, w) == BalanceOf(Of(Visible(t), w))

Current(t) == Head(todo[t])

\* The rows locked as they come.
LockOrderUnsorted(tr) == <<tr.sender, tr.receiver>>

\* "Sort IDs to prevent AB/BA deadlocks"
LockOrder(tr) ==
  IF Rank[tr.sender] > Rank[tr.receiver]
    THEN <<tr.receiver, tr.sender>>
    ELSE <<tr.sender, tr.receiver>>

\* Its default before migration 021: NOW(), the same in the whole transaction.
CreatedAtNow(t) == started[t]

\* The default of ledger.created_at since schema migration 021.
CreatedAt(t) == clock

-----------------------------------------------------------------------------
(* One transaction                                                         *)

Goto(t, label) == pc' = [pc EXCEPT ![t] = label]

Release(t) == lock' = [w \in Wallet |-> IF lock[w] = t THEN NoTxn ELSE lock[w]]

NothingSeen == [sender |-> 0, receiver |-> 0]

\* The transaction ends: its locks go, and with it what the goroutine held.
End(t) ==
  /\ Release(t)
  /\ rows' = [rows EXCEPT ![t] = {}]
  /\ keys' = [keys EXCEPT ![t] = {}]
  /\ todo' = [todo EXCEPT ![t] = <<>>]
  /\ seen' = [seen EXCEPT ![t] = NothingSeen]
  /\ started' = [started EXCEPT ![t] = 0]

\* WithTransaction's deferred Rollback: nothing the transaction wrote remains.
Rollback(t) ==
  /\ Goto(t, "rolledback")
  /\ End(t)
  /\ UNCHANGED <<ledger, headers, clock>>

\* WithTransaction begins and the caller asks for its transfers.
Begin(t) ==
  /\ pc[t] = "idle"
  /\ \E req \in Request : todo' = [todo EXCEPT ![t] = req]
  /\ started' = [started EXCEPT ![t] = clock]
  /\ Goto(t, "first")
  /\ UNCHANGED <<ledger, headers, lock, clock, rows, keys, seen>>

\* GetWallet: reads the row and locks nothing.
GetWallet(t, w) == lock' = [lock EXCEPT ![w] = @]

\* GetWalletForUpdate: waits while another transaction holds the row.
GetWalletForUpdate(t, w) ==
  /\ lock[w] \in {t, NoTxn}
  /\ lock' = [lock EXCEPT ![w] = t]

AmountValid(tr) == tr.amount > 0

RejectAmount(t) ==
  /\ pc[t] = "first"
  /\ ~AmountValid(Current(t))
  /\ Rollback(t)

LockFirst(t) ==
  /\ pc[t] = "first"
  /\ AmountValid(Current(t))
  /\ GetWalletForUpdate(t, LockOrder(Current(t))[1])
  /\ Goto(t, "second")
  /\ UNCHANGED <<ledger, headers, clock, todo, rows, keys, seen, started>>

LockSecond(t) ==
  /\ pc[t] = "second"
  /\ GetWalletForUpdate(t, LockOrder(Current(t))[2])
  /\ Goto(t, "sender")
  /\ UNCHANGED <<ledger, headers, clock, todo, rows, keys, seen, started>>

ReadSenderBalance(t) ==
  /\ pc[t] = "sender"
  /\ seen' = [seen EXCEPT ![t].sender = GetWalletBalance(t, Current(t).sender)]
  /\ Goto(t, "receiver")
  /\ UNCHANGED <<ledger, headers, lock, clock, todo, rows, keys, started>>

\* The exemption decided on the other wallet's row.
CheckBalanceOfReceiver(tr, balance) == tr.receiver \in System \/ balance >= tr.amount

\* checkBalance, which system wallets are exempt from
CheckBalance(tr, balance) == tr.sender \in System \/ balance >= tr.amount

ReadReceiverBalance(t) ==
  /\ pc[t] = "receiver"
  /\ CheckBalance(Current(t), seen[t].sender)
  /\ seen' = [seen EXCEPT ![t].receiver = GetWalletBalance(t, Current(t).receiver)]
  /\ Goto(t, "header")
  /\ UNCHANGED <<ledger, headers, lock, clock, todo, rows, keys, started>>

InsufficientFunds(t) ==
  /\ pc[t] = "receiver"
  /\ ~CheckBalance(Current(t), seen[t].sender)
  /\ Rollback(t)

Taken(t, k) == k \in headers \cup keys[t]

\* No unique constraint on (type, reference_id).
CreateTransactionHeaderUnchecked(t) ==
  /\ pc[t] = "header"
  /\ keys' = [keys EXCEPT ![t] = @ \cup {Current(t).key}]
  /\ Goto(t, "debit")
  /\ UNCHANGED <<ledger, headers, lock, clock, todo, rows, seen, started>>

\* UNIQUE (type, reference_id): waits for an uncommitted header of the same key.
CreateTransactionHeader(t) ==
  /\ pc[t] = "header"
  /\ ~Taken(t, Current(t).key)
  /\ \A u \in Txn \ {t} : Current(t).key \notin keys[u]
  /\ keys' = [keys EXCEPT ![t] = @ \cup {Current(t).key}]
  /\ Goto(t, "debit")
  /\ UNCHANGED <<ledger, headers, lock, clock, todo, rows, seen, started>>

UniqueViolation(t) ==
  /\ pc[t] = "header"
  /\ Taken(t, Current(t).key)
  /\ Rollback(t)

\* CreateLedgerEntry
Insert(t, w, amount, balanceAfter) ==
  /\ rows' = [rows EXCEPT ![t] = @ \cup
       {[wallet |-> w, amount |-> amount, balance_after |-> balanceAfter,
         key |-> Current(t).key, created_at |-> CreatedAt(t)]}]
  /\ clock' = clock + 1

\* The debit written on the pool: it is committed at once.
CreateDebitEntryNoTx(t) ==
  LET tr == Current(t) IN
  /\ pc[t] = "debit"
  /\ ledger' = ledger \cup
       {[wallet |-> tr.sender, amount |-> -tr.amount,
         balance_after |-> seen[t].sender - tr.amount,
         key |-> tr.key, created_at |-> CreatedAt(t)]}
  /\ clock' = clock + 1
  /\ Goto(t, "credit")
  /\ UNCHANGED <<headers, lock, todo, rows, keys, seen, started>>

CreateDebitEntry(t) ==
  LET tr == Current(t) IN
  /\ pc[t] = "debit"
  /\ Insert(t, tr.sender, -tr.amount, seen[t].sender - tr.amount)
  /\ Goto(t, "credit")
  /\ UNCHANGED <<ledger, headers, lock, todo, keys, seen, started>>

\* The credit computed from the wrong balance.
CreateCreditEntryOfSender(t) ==
  LET tr == Current(t) IN
  /\ pc[t] = "credit"
  /\ Insert(t, tr.receiver, tr.amount, seen[t].sender + tr.amount)
  /\ todo' = [todo EXCEPT ![t] = Tail(@)]
  /\ Goto(t, IF Len(todo[t]) = 1 THEN "commit" ELSE "first")
  /\ UNCHANGED <<ledger, headers, lock, keys, seen, started>>

\* The transfer is complete: the caller goes on to the next one, or commits.
CreateCreditEntry(t) ==
  LET tr == Current(t) IN
  /\ pc[t] = "credit"
  /\ Insert(t, tr.receiver, tr.amount, seen[t].receiver + tr.amount)
  /\ todo' = [todo EXCEPT ![t] = Tail(@)]
  /\ Goto(t, IF Len(todo[t]) = 1 THEN "commit" ELSE "first")
  /\ UNCHANGED <<ledger, headers, lock, keys, seen, started>>

Commit(t) ==
  /\ pc[t] = "commit"
  /\ ledger' = ledger \cup rows[t]
  /\ headers' = headers \cup keys[t]
  /\ Goto(t, "committed")
  /\ End(t)
  /\ UNCHANGED clock

\* A statement fails, the request is cancelled, the connection or the server dies.
Fail(t) == Active(t) /\ Rollback(t)

-----------------------------------------------------------------------------
(* Specification                                                           *)

Init ==
  /\ ledger = {}
  /\ headers = {}
  /\ lock = [w \in Wallet |-> NoTxn]
  /\ clock = 0
  /\ pc = [t \in Txn |-> "idle"]
  /\ todo = [t \in Txn |-> <<>>]
  /\ rows = [t \in Txn |-> {}]
  /\ keys = [t \in Txn |-> {}]
  /\ seen = [t \in Txn |-> NothingSeen]
  /\ started = [t \in Txn |-> 0]

\* What a transaction that has begun does next.
Step(t) ==
  \/ RejectAmount(t)
  \/ LockFirst(t)
  \/ LockSecond(t)
  \/ ReadSenderBalance(t)
  \/ ReadReceiverBalance(t)
  \/ InsufficientFunds(t)
  \/ CreateTransactionHeader(t)
  \/ UniqueViolation(t)
  \/ CreateDebitEntry(t)
  \/ CreateCreditEntry(t)
  \/ Commit(t)

\* Every transaction has run: nothing is left to do.
Quiet == (\A t \in Txn : pc[t] \in {"committed", "rolledback"}) /\ UNCHANGED vars

Next ==
  \/ \E t \in Txn : Begin(t) \/ Step(t) \/ Fail(t)
  \/ Quiet

Spec == Init /\ [][Next]_vars

\* A goroutine inside a request goes on; no client has to make a request, and
\* nothing has to fail.
FairSpec == Spec /\ \A t \in Txn : WF_vars(Step(t))

-----------------------------------------------------------------------------
(* Correctness                                                             *)

Earlier(R, r) == {q \in R : q.created_at < r.created_at}

\* The rows of one wallet, in the order of their timestamps, carry the running sum
\* of their amounts.
Chained(R) == \A r \in R : r.balance_after = BalanceOf(Earlier(R, r)) + r.amount

\* No two rows of a wallet are simultaneous, so there is one latest row.
Ordered(R) == \A q, r \in R : q.created_at = r.created_at => q = r

\* The balance snapshots of the ledger are right: sorted as GetWalletBalanceSnapshot
\* sorts them, each row's balance_after is the one before it plus its amount.  A
\* balance read before the row lock, from a stale snapshot or in the wrong order
\* forks the chain and every later balance is wrong.
BalanceChain == \A w \in Wallet : Ordered(Of(ledger, w)) /\ Chained(Of(ledger, w))

\* No personal wallet is overdrawn, in any row it ever had: two bookings that each
\* pass checkBalance cannot both spend the same money.
NeverOverdrawn ==
  \A r \in ledger : r.wallet \notin System => r.balance_after >= 0

\* The two rows of one transfer.
Legs(d, c) ==
  /\ d.key = c.key
  /\ d.wallet # c.wallet
  /\ d.amount < 0
  /\ c.amount = -d.amount

\* Double entry: a committed header has one debit row and one credit row of the
\* same amount, and no ledger row exists without its header.  Neither a failed
\* statement nor a repeated request leaves half a transfer behind.
DoubleEntry ==
  /\ \A r \in ledger : r.key \in headers
  /\ \A k \in headers :
       \E d, c \in ledger :
         /\ d.key = k
         /\ Legs(d, c)
         /\ \A r \in ledger : r.key = k => r \in {d, c}

\* Every transaction that has begun commits or rolls back: the sorted row locks
\* leave no two transactions waiting for each other.
EveryTransactionEnds == \A t \in Txn : Active(t) ~> ~Active(t)
=============================================================================
