---------------------------- MODULE LedgerProofs ----------------------------
(***************************************************************************)
(* The wallet's balance chain, overdraft protection and double entry, for  *)
(* every set of wallets, transactions and requests.  IInv (LedgerInv) is   *)
(* inductive: each conjunct has a lemma that every step keeps it.          *)
(***************************************************************************)
EXTENDS LedgerInv, TLAPS

-----------------------------------------------------------------------------
(* Balances and histories                                                  *)

\* The row ORDER BY created_at DESC LIMIT 1 picks is in the set and is not older than any.
LEMMA LatestIsLast ==
  ASSUME NEW R, HasLatest(R), R # {}
  PROVE  /\ Latest(R) \in R
         /\ \A q \in R : q.created_at <= Latest(R).created_at
BY DEF HasLatest, Latest

\* A balance read from well-typed rows is an integer, 0 when there is no row.
LEMMA BalanceIsInt ==
  ASSUME NEW R \in SUBSET Row, HasLatest(R)
  PROVE  BalanceOf(R) \in Int
<1>1. CASE R = {}
  BY <1>1 DEF BalanceOf
<1>2. CASE R # {}
  <2>1. Latest(R) \in Row
    BY <1>2, LatestIsLast
  <2>2. QED
    BY <1>2, <2>1 DEF BalanceOf, Row
<1>3. QED
  BY <1>1, <1>2

\* If no row of a wallet is negative, neither is its balance.
LEMMA BalanceNonNegative ==
  ASSUME NEW R \in SUBSET Row, HasLatest(R), \A r \in R : r.balance_after >= 0
  PROVE  BalanceOf(R) >= 0
<1>1. CASE R = {}
  BY <1>1 DEF BalanceOf
<1>2. CASE R # {}
  <2>1. Latest(R) \in R
    BY <1>2, LatestIsLast
  <2>2. QED
    BY <1>2, <2>1 DEF BalanceOf
<1>3. QED
  BY <1>1, <1>2

\* A row written after all others, with the running sum, keeps a history good.
LEMMA HistoryExtends ==
  ASSUME NEW R \in SUBSET Row, GoodHistory(R),
         NEW n \in Row,
         \A r \in R : r.created_at < n.created_at,
         n.balance_after = BalanceOf(R) + n.amount
  PROVE  GoodHistory(R \cup {n})
<1> DEFINE S == R \cup {n}
<1>1. \A r \in S : r.created_at \in Nat
  BY DEF Row
<1>2. Ordered(S)
  BY <1>1 DEF GoodHistory, Ordered
<1>3. HasLatest(S)
  BY <1>1 DEF HasLatest
<1>4. Earlier(S, n) = R
  BY <1>1 DEF Earlier
<1>5. ASSUME NEW r \in R PROVE Earlier(S, r) = Earlier(R, r)
  BY <1>1 DEF Earlier
<1>6. Chained(S)
  <2>1. \A r \in R : r.balance_after = BalanceOf(Earlier(S, r)) + r.amount
    BY <1>5 DEF GoodHistory, Chained
  <2>2. QED
    BY <1>4, <2>1 DEF Chained
<1>7. QED
  BY <1>2, <1>3, <1>6 DEF GoodHistory

-----------------------------------------------------------------------------
(* What the invariant says of the values a transaction works with          *)

\* While a transaction posts, the transfer in hand is one of its request.
LEMMA CurrentIsTransfer ==
  ASSUME IInv, NEW t \in Txn, pc[t] \in Posting
  PROVE  /\ todo[t] \in Seq(Transfer)
         /\ todo[t] # <<>>
         /\ Current(t) \in Transfer
         /\ Current(t).sender \in Wallet
         /\ Current(t).receiver \in Wallet
         /\ Current(t).amount \in Int
         /\ Current(t).key \in Key
         /\ Current(t).sender # Current(t).receiver
         /\ LockOrder(Current(t))[1] \in Wallet
         /\ LockOrder(Current(t))[2] \in Wallet
<1>1. todo[t] \in Seq(Transfer) /\ todo[t] # <<>>
  BY DEF IInv, TxnInv, ControlInv, TypeOK
<1>2. Current(t) = todo[t][1] /\ 1 \in 1..Len(todo[t])
  BY <1>1 DEF Current
<1>3. Current(t) \in Transfer
  BY <1>1, <1>2
<1>4. Current(t).sender # Current(t).receiver
  BY <1>2 DEF IInv, TxnInv, ControlInv
<1>5. QED
  BY <1>1, <1>3, <1>4 DEF Transfer, LockOrder

\* What a transaction sees is well typed and each wallet's history in it is good.
LEMMA VisibleIsGood ==
  ASSUME IInv, NEW t \in Txn, NEW w \in Wallet
  PROVE  /\ Of(Visible(t), w) \in SUBSET Row
         /\ GoodHistory(Of(Visible(t), w))
         /\ GetWalletBalance(t, w) \in Int
         /\ w \notin System => GetWalletBalance(t, w) >= 0
<1> DEFINE R == Of(Visible(t), w)
<1>1. R \in SUBSET Row
  BY DEF IInv, TypeOK, Visible, Of
<1>2. GoodHistory(R)
  BY DEF IInv, TxnInv, HistoryInv
<1>3. HasLatest(R)
  BY <1>2 DEF GoodHistory
<1>4. ASSUME w \notin System PROVE \A r \in R : r.balance_after >= 0
  BY <1>4 DEF IInv, TxnInv, HistoryInv, CommittedInv, NeverOverdrawn, Visible, Of
<1>5. BalanceOf(R) \in Int
  BY <1>1, <1>3, BalanceIsInt
<1>6. w \notin System => BalanceOf(R) >= 0
  BY <1>1, <1>3, <1>4, BalanceNonNegative
<1>7. QED
  BY <1>1, <1>2, <1>5, <1>6 DEF GetWalletBalance

-----------------------------------------------------------------------------
(* Type correctness                                                        *)

\* Ending a transaction keeps the types of the local state.
LEMMA EndType ==
  ASSUME TypeOK, NEW t \in Txn, End(t)
  PROVE  /\ lock' \in [Wallet -> Txn \cup {NoTxn}]
         /\ todo' \in [Txn -> Seq(Transfer)]
         /\ rows' \in [Txn -> SUBSET Row]
         /\ keys' \in [Txn -> SUBSET Key]
         /\ seen' \in [Txn -> [sender : Int, receiver : Int]]
         /\ started' \in [Txn -> Nat]
<1>1. <<>> \in Seq(Transfer) /\ NothingSeen \in [sender : Int, receiver : Int]
  BY DEF NothingSeen
<1>2. QED
  BY <1>1 DEF End, Release, TypeOK

\* So does rolling one back.
LEMMA RollbackType ==
  ASSUME TypeOK, NEW t \in Txn, Rollback(t)
  PROVE  TypeOK'
BY EndType DEF Rollback, Goto, TypeOK, Label

\* Writing a well-typed row keeps the types of the uncommitted rows and of the clock.
LEMMA InsertType ==
  ASSUME TypeOK, NEW t \in Txn, NEW w \in Wallet, NEW amount \in Int, NEW balanceAfter \in Int,
         Current(t).key \in Key, Insert(t, w, amount, balanceAfter)
  PROVE  rows' \in [Txn -> SUBSET Row] /\ clock' \in Nat
<1> DEFINE r == [wallet |-> w, amount |-> amount, balance_after |-> balanceAfter,
                 key |-> Current(t).key, created_at |-> CreatedAt(t)]
<1>1. r \in Row
  BY DEF TypeOK, Row, CreatedAt
<1>2. rows' = [rows EXCEPT ![t] = @ \cup {r}] /\ clock' = clock + 1
  BY DEF Insert
<1> HIDE DEF r
<1>3. rows \in [Txn -> SUBSET Row] /\ clock \in Nat
  BY DEF TypeOK
<1>4. QED
  BY <1>1, <1>2, <1>3

\* Every step keeps the type invariant.
LEMMA TypeStep ==
  ASSUME IInv, [Next]_vars
  PROVE  TypeOK'
<1>1. TypeOK
  BY DEF IInv
<1>2. ASSUME NEW t \in Txn, Begin(t) PROVE TypeOK'
  <2>1. PICK req \in Request : todo' = [todo EXCEPT ![t] = req]
    BY <1>2 DEF Begin
  <2>2. req \in Seq(Transfer)
    BY RequestAssumption
  <2>3. QED
    BY <1>1, <1>2, <2>1, <2>2 DEF Begin, Goto, TypeOK, Label
<1>3. ASSUME NEW t \in Txn, RejectAmount(t) \/ InsufficientFunds(t) \/ UniqueViolation(t) \/ Fail(t)
      PROVE  TypeOK'
  BY <1>1, <1>3, RollbackType DEF RejectAmount, InsufficientFunds, UniqueViolation, Fail
<1>4. ASSUME NEW t \in Txn, LockFirst(t) PROVE TypeOK'
  <2>1. LockOrder(Current(t))[1] \in Wallet
    BY <1>4, CurrentIsTransfer DEF LockFirst, Posting
  <2>2. QED
    BY <1>1, <1>4, <2>1 DEF LockFirst, GetWalletForUpdate, Goto, TypeOK, Label
<1>5. ASSUME NEW t \in Txn, LockSecond(t) PROVE TypeOK'
  <2>1. LockOrder(Current(t))[2] \in Wallet
    BY <1>5, CurrentIsTransfer DEF LockSecond, Posting
  <2>2. QED
    BY <1>1, <1>5, <2>1 DEF LockSecond, GetWalletForUpdate, Goto, TypeOK, Label
<1>6. ASSUME NEW t \in Txn, ReadSenderBalance(t) PROVE TypeOK'
  <2>1. GetWalletBalance(t, Current(t).sender) \in Int
    BY <1>6, CurrentIsTransfer, VisibleIsGood DEF ReadSenderBalance, Posting
  <2>2. QED
    BY <1>1, <1>6, <2>1 DEF ReadSenderBalance, Goto, TypeOK, Label
<1>7. ASSUME NEW t \in Txn, ReadReceiverBalance(t) PROVE TypeOK'
  <2>1. GetWalletBalance(t, Current(t).receiver) \in Int
    BY <1>7, CurrentIsTransfer, VisibleIsGood DEF ReadReceiverBalance, Posting
  <2>2. QED
    BY <1>1, <1>7, <2>1 DEF ReadReceiverBalance, Goto, TypeOK, Label
<1>8. ASSUME NEW t \in Txn, CreateTransactionHeader(t) PROVE TypeOK'
  <2>1. Current(t).key \in Key
    BY <1>8, CurrentIsTransfer DEF CreateTransactionHeader, Posting
  <2>2. QED
    BY <1>1, <1>8, <2>1 DEF CreateTransactionHeader, Goto, TypeOK, Label
<1>9. ASSUME NEW t \in Txn, CreateDebitEntry(t) PROVE TypeOK'
  <2>1. /\ Current(t).sender \in Wallet
        /\ Current(t).amount \in Int
        /\ Current(t).key \in Key
    BY <1>9, CurrentIsTransfer DEF CreateDebitEntry, Posting
  <2>2. Insert(t, Current(t).sender, -Current(t).amount, seen[t].sender - Current(t).amount)
    BY <1>9 DEF CreateDebitEntry
  <2>3. seen[t].sender - Current(t).amount \in Int /\ -Current(t).amount \in Int
    BY <1>1, <2>1 DEF TypeOK
  <2>4. rows' \in [Txn -> SUBSET Row] /\ clock' \in Nat
    BY <1>1, <2>1, <2>2, <2>3, InsertType
  <2>5. QED
    BY <1>1, <1>9, <2>4 DEF CreateDebitEntry, Goto, TypeOK, Label
<1>10. ASSUME NEW t \in Txn, CreateCreditEntry(t) PROVE TypeOK'
  <2>1. /\ Current(t).receiver \in Wallet
        /\ Current(t).amount \in Int
        /\ Current(t).key \in Key
        /\ todo[t] \in Seq(Transfer)
        /\ todo[t] # <<>>
    BY <1>10, CurrentIsTransfer DEF CreateCreditEntry, Posting
  <2>2. Tail(todo[t]) \in Seq(Transfer)
    BY <2>1
  <2>3. Insert(t, Current(t).receiver, Current(t).amount,
               seen[t].receiver + Current(t).amount)
    BY <1>10 DEF CreateCreditEntry
  <2>4. seen[t].receiver + Current(t).amount \in Int
    BY <1>1, <2>1 DEF TypeOK
  <2>5. rows' \in [Txn -> SUBSET Row] /\ clock' \in Nat
    BY <1>1, <2>1, <2>3, <2>4, InsertType
  <2>6. QED
    BY <1>1, <1>10, <2>2, <2>5 DEF CreateCreditEntry, Goto, TypeOK, Label
<1>11. ASSUME NEW t \in Txn, Commit(t) PROVE TypeOK'
  BY <1>1, <1>11, EndType DEF Commit, Goto, TypeOK, Label
<1>12. CASE UNCHANGED vars
  BY <1>1, <1>12 DEF TypeOK, vars
<1>13. QED
  BY <1>2, <1>3, <1>4, <1>5, <1>6, <1>7, <1>8, <1>9, <1>10, <1>11, <1>12 DEF Next, Step, Quiet

-----------------------------------------------------------------------------
(* What one transaction's step leaves alone                                *)

Act(t) == Begin(t) \/ Step(t) \/ Fail(t)

\* What a step of one transaction leaves alone in every other.
LEMMA Frame ==
  ASSUME TypeOK, NEW t \in Txn, Act(t), NEW u \in Txn \ {t}
  PROVE  /\ pc'[u] = pc[u]
         /\ todo'[u] = todo[u]
         /\ rows'[u] = rows[u]
         /\ keys'[u] = keys[u]
         /\ seen'[u] = seen[u]
         /\ Current(u)' = Current(u)
         /\ \A w \in Wallet : lock[w] = u => lock'[w] = u
<1>1. /\ pc'[u] = pc[u]
      /\ todo'[u] = todo[u]
      /\ rows'[u] = rows[u]
      /\ keys'[u] = keys[u]
      /\ seen'[u] = seen[u]
  BY DEF Act, Begin, Step, Fail, RejectAmount, LockFirst, LockSecond, ReadSenderBalance,
         ReadReceiverBalance, InsufficientFunds, CreateTransactionHeader, UniqueViolation,
         CreateDebitEntry, CreateCreditEntry, Commit, Rollback, End, Insert, Goto, TypeOK
<1>2. \A w \in Wallet : lock[w] = u => lock'[w] = u
  BY TxnAssumption
     DEF Act, Begin, Step, Fail, RejectAmount, LockFirst, LockSecond, ReadSenderBalance,
         ReadReceiverBalance, InsufficientFunds, CreateTransactionHeader, UniqueViolation,
         CreateDebitEntry, CreateCreditEntry, Commit, Rollback, End, Release,
         GetWalletForUpdate, TypeOK
<1>3. QED
  BY <1>1, <1>2 DEF Current

\* Committed rows and headers are never removed or changed.
LEMMA LedgerGrows ==
  ASSUME NEW t \in Txn, Act(t)
  PROVE  \/ UNCHANGED <<ledger, headers>>
         \/ Commit(t)
BY DEF Act, Begin, Step, Fail, RejectAmount, LockFirst, LockSecond, ReadSenderBalance,
       ReadReceiverBalance, InsufficientFunds, CreateTransactionHeader, UniqueViolation,
       CreateDebitEntry, CreateCreditEntry, Rollback

\* A transaction that ends forgets everything, so all that is said of it is vacuous.
Ended(t) ==
  /\ pc[t] \in {"committed", "rolledback"}
  /\ todo[t] = <<>>
  /\ rows[t] = {}
  /\ keys[t] = {}

\* A transaction that ended holds nothing: no rows, no keys, no lock.
LEMMA EndsEnded ==
  ASSUME TypeOK, NEW t \in Txn, Rollback(t) \/ Commit(t)
  PROVE  Ended(t)'
BY DEF Rollback, Commit, End, Goto, Ended, TypeOK

\* A step that ends a transaction is a commit or a rollback.
LEMMA EndingSteps ==
  ASSUME NEW t \in Txn, RejectAmount(t) \/ InsufficientFunds(t) \/ UniqueViolation(t) \/ Fail(t)
  PROVE  Rollback(t)
BY DEF RejectAmount, InsufficientFunds, UniqueViolation, Fail

-----------------------------------------------------------------------------
(* Control and locks                                                       *)

\* Every step keeps ControlInv.
LEMMA ControlStep ==
  ASSUME IInv, NEW t \in Txn, Act(t), NEW u \in Txn
  PROVE  ControlInv(u)'
<1>1. TypeOK /\ ControlInv(t) /\ ControlInv(u)
  BY DEF IInv, TxnInv
<1>2. CASE u # t
  BY <1>1, <1>2, Frame DEF ControlInv
<1>3. CASE u = t
  <2>1. CASE Begin(t)
    <3>1. PICK req \in Request : todo' = [todo EXCEPT ![t] = req]
      BY <2>1 DEF Begin
    <3>2. todo'[t] = req /\ pc'[t] = "first"
      BY <1>1, <2>1, <3>1 DEF Begin, Goto, TypeOK
    <3>3. QED
      BY <1>3, <3>2, RequestAssumption DEF ControlInv, Holding
  <2>2. CASE Rollback(t) \/ Commit(t)
    BY <1>1, <1>3, <2>2, EndsEnded DEF Ended, ControlInv, Posting, Holding
  <2>3. CASE LockFirst(t)
    <3>1. pc'[t] = "second" /\ todo'[t] = todo[t] /\ Current(t).amount > 0
      BY <1>1, <2>3 DEF LockFirst, Goto, TypeOK, AmountValid
    <3>2. QED
      BY <1>1, <1>3, <2>3, <3>1 DEF ControlInv, Current, LockFirst, Posting, Holding
  <2>4. CASE LockSecond(t) \/ ReadSenderBalance(t) \/ ReadReceiverBalance(t)
             \/ CreateTransactionHeader(t) \/ CreateDebitEntry(t)
    <3>1. /\ pc[t] \in Posting \cap (Holding \cup {"second"})
          /\ pc'[t] \in Posting
          /\ todo'[t] = todo[t]
      BY <1>1, <2>4 DEF LockSecond, ReadSenderBalance, ReadReceiverBalance,
           CreateTransactionHeader, CreateDebitEntry, Goto, TypeOK, Posting, Holding
    <3>2. QED
      BY <1>1, <1>3, <3>1 DEF ControlInv, Current
  <2>5. CASE CreateCreditEntry(t)
    <3>1. todo[t] \in Seq(Transfer) /\ todo[t] # <<>>
      BY <2>5, CurrentIsTransfer DEF CreateCreditEntry, Posting
    <3>2. /\ todo'[t] = Tail(todo[t])
          /\ pc'[t] = IF Len(todo[t]) = 1 THEN "commit" ELSE "first"
      BY <1>1, <2>5 DEF CreateCreditEntry, Goto, TypeOK
    <3>3. /\ Len(todo'[t]) = Len(todo[t]) - 1
          /\ \A i \in 1..Len(todo'[t]) : todo'[t][i] = todo[t][i+1] /\ i+1 \in 1..Len(todo[t])
      BY <3>1, <3>2
    <3>4. ASSUME pc'[t] \in Posting PROVE todo'[t] # <<>>
      <4>1. Len(todo[t]) \in Nat /\ Len(todo[t]) # 0
        BY <3>1
      <4>2. Len(todo[t]) # 1
        BY <3>2, <3>4 DEF Posting
      <4>3. Len(todo'[t]) # 0
        BY <3>3, <4>1, <4>2
      <4>4. QED
        BY <4>3
    <3>5. QED
      BY <1>1, <1>3, <3>2, <3>3, <3>4 DEF ControlInv, Holding
  <2>6. QED
    BY <2>1, <2>2, <2>3, <2>4, <2>5, EndingSteps DEF Act, Step
<1>4. QED
  BY <1>2, <1>3

\* Every step keeps LockInv: no other transaction takes a row that is locked.
LEMMA LockStep ==
  ASSUME IInv, NEW t \in Txn, Act(t), NEW u \in Txn
  PROVE  LockInv(u)'
<1>1. TypeOK /\ LockInv(t) /\ LockInv(u)
  BY DEF IInv, TxnInv
<1>2. CASE u # t
  <2>1. \A r \in rows[u] : r.wallet \in Wallet
    BY <1>1 DEF TypeOK, Row
  <2>2. pc[u] \in Posting => /\ Current(u).sender \in Wallet
                            /\ Current(u).receiver \in Wallet
                            /\ LockOrder(Current(u))[1] \in Wallet
    BY CurrentIsTransfer
  <2>3. QED
    BY <1>1, <1>2, <2>1, <2>2, Frame DEF LockInv, Posting, Holding
<1>3. CASE u = t
  <2>1. CASE Begin(t)
    <3>1. pc'[t] = "first" /\ rows'[t] = rows[t] /\ lock' = lock
      BY <1>1, <2>1 DEF Begin, Goto, TypeOK
    <3>2. QED
      BY <1>1, <1>3, <3>1 DEF LockInv, Holding
  <2>2. CASE Rollback(t) \/ Commit(t)
    BY <1>1, <1>3, <2>2, EndsEnded DEF Ended, LockInv, Holding
  <2>3. CASE LockFirst(t)
    <3>1. /\ LockOrder(Current(t))[1] \in Wallet
          /\ pc'[t] = "second"
          /\ Current(t)' = Current(t)
          /\ rows'[t] = rows[t]
      BY <1>1, <2>3, CurrentIsTransfer DEF LockFirst, Goto, TypeOK, Posting, Current
    <3>2. /\ lock'[LockOrder(Current(t))[1]] = t
          /\ \A w \in Wallet : lock[w] = t => lock'[w] = t
      BY <1>1, <2>3, <3>1 DEF LockFirst, GetWalletForUpdate, TypeOK
    <3>3. \A r \in rows[t] : r.wallet \in Wallet
      BY <1>1 DEF TypeOK, Row
    <3>4. QED
      BY <1>1, <1>3, <3>1, <3>2, <3>3 DEF LockInv, Holding, LockOrder
  <2>4. CASE LockSecond(t)
    <3>1. /\ LockOrder(Current(t))[1] \in Wallet
          /\ LockOrder(Current(t))[2] \in Wallet
          /\ pc'[t] = "sender"
          /\ Current(t)' = Current(t)
          /\ rows'[t] = rows[t]
      BY <1>1, <2>4, CurrentIsTransfer DEF LockSecond, Goto, TypeOK, Posting, Current
    <3>2. /\ lock'[LockOrder(Current(t))[2]] = t
          /\ \A w \in Wallet : lock[w] = t => lock'[w] = t
      BY <1>1, <2>4, <3>1 DEF LockSecond, GetWalletForUpdate, TypeOK
    <3>3. lock'[LockOrder(Current(t))[1]] = t
      BY <1>1, <2>4, <3>1, <3>2 DEF LockInv, LockSecond
    <3>4. lock'[Current(t).sender] = t /\ lock'[Current(t).receiver] = t
      BY <3>2, <3>3 DEF LockOrder
    <3>5. \A r \in rows[t] : r.wallet \in Wallet
      BY <1>1 DEF TypeOK, Row
    <3>6. QED
      BY <1>1, <1>3, <3>1, <3>2, <3>4, <3>5 DEF LockInv, Holding
  <2>5. CASE ReadSenderBalance(t) \/ ReadReceiverBalance(t) \/ CreateTransactionHeader(t)
    <3>1. /\ pc[t] \in Holding
          /\ pc'[t] # "second"
          /\ UNCHANGED <<todo, lock, rows>>
      BY <1>1, <2>5 DEF ReadSenderBalance, ReadReceiverBalance, CreateTransactionHeader,
           Holding, Goto, TypeOK
    <3>2. QED
      BY <1>1, <1>3, <3>1 DEF LockInv, Current
  <2>6. CASE CreateDebitEntry(t)
    <3>1. /\ pc[t] \in Holding
          /\ pc'[t] = "credit"
          /\ UNCHANGED <<todo, lock>>
          /\ \A r \in rows'[t] : r \in rows[t] \/ r.wallet = Current(t).sender
      BY <1>1, <2>6 DEF CreateDebitEntry, Insert, Holding, Goto, TypeOK
    <3>2. QED
      BY <1>1, <1>3, <3>1 DEF LockInv, Current
  <2>7. CASE CreateCreditEntry(t)
    <3>1. /\ pc[t] \in Holding
          /\ pc'[t] \in {"commit", "first"}
          /\ UNCHANGED lock
          /\ \A r \in rows'[t] : r \in rows[t] \/ r.wallet = Current(t).receiver
      BY <1>1, <2>7 DEF CreateCreditEntry, Insert, Holding, Goto, TypeOK
    <3>2. QED
      BY <1>1, <1>3, <3>1 DEF LockInv, Current, Holding
  <2>8. QED
    BY <2>1, <2>2, <2>3, <2>4, <2>5, <2>6, <2>7, EndingSteps DEF Act, Step
<1>4. QED
  BY <1>2, <1>3

-----------------------------------------------------------------------------
(* Histories                                                               *)

\* A wallet that another transaction has locked is one it wrote no row of.
LEMMA LockedApart ==
  ASSUME IInv, NEW t \in Txn, NEW u \in Txn \ {t}, NEW w \in Wallet, lock[w] = u
  PROVE  Of(rows[t], w) = {}
BY DEF IInv, TxnInv, LockInv, Of

\* Every step keeps all timestamps in the past.
LEMMA ClockStep ==
  ASSUME IInv, NEW t \in Txn, Act(t), NEW u \in Txn
  PROVE  ClockInv(u)' /\ (\A r \in ledger : r.created_at < clock)'
<1>1. TypeOK /\ ClockInv(t) /\ ClockInv(u)
  BY DEF IInv, TxnInv
<1>2. clock \in Nat /\ clock' \in {clock, clock + 1}
  BY <1>1 DEF TypeOK, Act, Begin, Step, Fail, RejectAmount, LockFirst, LockSecond,
       ReadSenderBalance, ReadReceiverBalance, InsufficientFunds, CreateTransactionHeader,
       UniqueViolation, CreateDebitEntry, CreateCreditEntry, Commit, Rollback, Insert
<1>3. \A r \in ledger' : r \in Visible(t)
  BY LedgerGrows DEF Commit, Visible
<1>4. \A r \in rows'[u] : r \in rows[u] \/ (r.created_at = clock /\ clock' = clock + 1)
  <2>1. CASE u # t
    BY <1>1, <2>1, Frame
  <2>2. CASE u = t /\ (CreateDebitEntry(t) \/ CreateCreditEntry(t))
    <3>1. PICK n : n.created_at = clock /\ rows'[t] = rows[t] \cup {n}
      BY <1>1, <2>2 DEF CreateDebitEntry, CreateCreditEntry, Insert, CreatedAt, TypeOK
    <3>2. clock' = clock + 1
      BY <2>2 DEF CreateDebitEntry, CreateCreditEntry, Insert
    <3>3. QED
      BY <2>2, <3>1, <3>2
  <2>3. CASE u = t /\ ~(CreateDebitEntry(t) \/ CreateCreditEntry(t))
    BY <1>1, <2>3 DEF TypeOK, Act, Begin, Step, Fail, RejectAmount, LockFirst, LockSecond,
       ReadSenderBalance, ReadReceiverBalance, InsufficientFunds, CreateTransactionHeader,
       UniqueViolation, Commit, Rollback, End
  <2>4. QED
    BY <2>1, <2>2, <2>3
<1>5. \A r \in Visible(t) \cup Visible(u) : r.created_at < clock /\ r.created_at \in Nat
  BY <1>1 DEF ClockInv, Visible, TypeOK, Row
<1>6. \A r \in ledger' : r.created_at < clock'
  BY <1>2, <1>3, <1>5
<1>7. \A r \in rows'[u] : r.created_at < clock'
  BY <1>2, <1>4, <1>5 DEF Visible
<1>8. QED
  BY <1>6, <1>7 DEF ClockInv, Visible

\* Writing a row whose balance is the one read keeps every history good.
LEMMA InsertKeepsHistory ==
  ASSUME IInv, NEW t \in Txn, NEW n \in Row,
         n.created_at = clock,
         n.balance_after = GetWalletBalance(t, n.wallet) + n.amount,
         NEW w \in Wallet
  PROVE  GoodHistory(Of(Visible(t) \cup {n}, w))
<1> DEFINE R == Of(Visible(t), w)
<1>1. R \in SUBSET Row /\ GoodHistory(R)
  BY VisibleIsGood
<1>2. CASE n.wallet = w
  <2>1. Of(Visible(t) \cup {n}, w) = R \cup {n}
    BY <1>2 DEF Of
  <2>2. \A r \in R : r.created_at < n.created_at
    BY DEF IInv, TxnInv, ClockInv, Of
  <2>3. n.balance_after = BalanceOf(R) + n.amount
    BY <1>2 DEF GetWalletBalance
  <2>4. GoodHistory(R \cup {n})
    BY <1>1, <2>2, <2>3, HistoryExtends
  <2>5. QED
    BY <2>1, <2>4
<1>3. CASE n.wallet # w
  <2>1. Of(Visible(t) \cup {n}, w) = R
    BY <1>3 DEF Of
  <2>2. QED
    BY <1>1, <2>1
<1>4. QED
  BY <1>2, <1>3

\* Every step keeps the histories each transaction sees good: a wallet that is written
\* is locked, so nobody else's view of it is extended at the same time.
LEMMA HistoryStep ==
  ASSUME IInv, NEW t \in Txn, Act(t), NEW u \in Txn
  PROVE  HistoryInv(u)'
<1>1. TypeOK /\ HistoryInv(t) /\ HistoryInv(u) /\ CommittedInv
  BY DEF IInv, TxnInv
<1>2. CASE UNCHANGED ledger /\ rows'[u] = rows[u]
  <2>1. Visible(u)' = Visible(u)
    BY <1>2 DEF Visible
  <2>2. QED
    BY <1>1, <1>2, <2>1 DEF HistoryInv
<1>3. CASE u # t /\ Commit(t)
  <2>1. rows'[u] = rows[u] /\ ledger' = Visible(t)
    BY <1>1, <1>3, Frame DEF Commit, Visible
  <2>2. ASSUME NEW w \in Wallet PROVE GoodHistory(Of(Visible(u)', w))
    <3>1. CASE Of(rows[t], w) = {}
      <4>1. Of(Visible(u)', w) = Of(Visible(u), w)
        BY <2>1, <3>1 DEF Visible, Of
      <4>2. QED
        BY <1>1, <4>1 DEF HistoryInv
    <3>2. CASE Of(rows[t], w) # {}
      <4>1. lock[w] = t
        BY <3>2 DEF IInv, TxnInv, LockInv, Of
      <4>2. Of(rows[u], w) = {}
        BY <1>3, <4>1, LockedApart
      <4>3. Of(Visible(u)', w) = Of(Visible(t), w)
        BY <2>1, <4>2 DEF Visible, Of
      <4>4. QED
        BY <1>1, <4>3 DEF HistoryInv
    <3>3. QED
      BY <3>1, <3>2
  <2>3. QED
    BY <1>1, <2>1, <2>2 DEF HistoryInv
<1>4. CASE u = t /\ (Rollback(t) \/ Commit(t))
  <2>1. rows'[t] = {}
    BY <1>1, <1>4, EndsEnded DEF Ended
  <2>2. Visible(t)' = ledger \/ Visible(t)' = Visible(t)
    BY <1>4, <2>1 DEF Rollback, Commit, Visible
  <2>3. QED
    BY <1>1, <1>4, <2>1, <2>2 DEF HistoryInv, CommittedInv
<1>5. CASE u = t /\ CreateDebitEntry(t)
  <2> DEFINE tr == Current(t)
             n == [wallet |-> tr.sender, amount |-> -tr.amount,
                   balance_after |-> seen[t].sender - tr.amount,
                   key |-> tr.key, created_at |-> clock]
  <2>1. /\ tr.sender \in Wallet /\ tr.amount \in Int /\ tr.key \in Key
        /\ seen[t].sender = GetWalletBalance(t, tr.sender)
        /\ GetWalletBalance(t, tr.sender) \in Int
        /\ tr.sender \notin System => seen[t].sender >= tr.amount
    BY <1>5, CurrentIsTransfer, VisibleIsGood
       DEF CreateDebitEntry, Posting, IInv, TxnInv, SeenInv, CheckBalance
  <2>2. n \in Row
    BY <1>1, <2>1 DEF Row, TypeOK
  <2>3. rows'[t] = rows[t] \cup {n} /\ ledger' = ledger
    BY <1>1, <1>5 DEF CreateDebitEntry, Insert, CreatedAt, TypeOK
  <2>4. Visible(t)' = Visible(t) \cup {n}
    BY <2>3 DEF Visible
  <2>5. n.created_at = clock /\ n.balance_after = GetWalletBalance(t, n.wallet) + n.amount
    BY <2>1
  <2>6. \A w \in Wallet : GoodHistory(Of(Visible(t) \cup {n}, w))
    BY <2>2, <2>5, InsertKeepsHistory
  <2>7. n.wallet \notin System => n.balance_after >= 0
    BY <2>1
  <2>8. QED
    BY <1>1, <1>5, <2>3, <2>4, <2>6, <2>7 DEF HistoryInv
<1>6. CASE u = t /\ CreateCreditEntry(t)
  <2> DEFINE tr == Current(t)
             n == [wallet |-> tr.receiver, amount |-> tr.amount,
                   balance_after |-> seen[t].receiver + tr.amount,
                   key |-> tr.key, created_at |-> clock]
  <2>1. /\ tr.receiver \in Wallet /\ tr.amount \in Int /\ tr.key \in Key
        /\ tr.amount > 0
        /\ seen[t].receiver = GetWalletBalance(t, tr.receiver)
        /\ GetWalletBalance(t, tr.receiver) \in Int
        /\ tr.receiver \notin System => GetWalletBalance(t, tr.receiver) >= 0
    BY <1>6, CurrentIsTransfer, VisibleIsGood
       DEF CreateCreditEntry, Posting, Holding, IInv, TxnInv, SeenInv, ControlInv
  <2>2. n \in Row
    BY <1>1, <2>1 DEF Row, TypeOK
  <2>3. rows'[t] = rows[t] \cup {n} /\ ledger' = ledger
    BY <1>1, <1>6 DEF CreateCreditEntry, Insert, CreatedAt, TypeOK
  <2>4. Visible(t)' = Visible(t) \cup {n}
    BY <2>3 DEF Visible
  <2>5. n.created_at = clock /\ n.balance_after = GetWalletBalance(t, n.wallet) + n.amount
    BY <2>1
  <2>6. \A w \in Wallet : GoodHistory(Of(Visible(t) \cup {n}, w))
    BY <2>2, <2>5, InsertKeepsHistory
  <2>7. n.wallet \notin System => n.balance_after >= 0
    BY <2>1
  <2>8. QED
    BY <1>1, <1>6, <2>3, <2>4, <2>6, <2>7 DEF HistoryInv
<1>7. CASE u # t /\ ~Commit(t)
  BY <1>1, <1>2, <1>7, Frame, LedgerGrows
<1>8. CASE u = t /\ (Begin(t) \/ LockFirst(t) \/ LockSecond(t) \/ ReadSenderBalance(t)
                      \/ ReadReceiverBalance(t) \/ CreateTransactionHeader(t))
  BY <1>2, <1>8 DEF Begin, LockFirst, LockSecond, ReadSenderBalance, ReadReceiverBalance,
       CreateTransactionHeader
<1>9. QED
  BY <1>3, <1>4, <1>5, <1>6, <1>7, <1>8, EndingSteps DEF Act, Step

\* Every step keeps the committed histories good and not overdrawn.
LEMMA CommittedStep ==
  ASSUME IInv, NEW t \in Txn, Act(t)
  PROVE  CommittedInv'
<1>1. (\A r \in ledger : r.created_at < clock)'
  BY ClockStep
<1>2. CASE UNCHANGED ledger
  BY <1>1, <1>2 DEF IInv, CommittedInv, NeverOverdrawn
<1>3. CASE Commit(t)
  <2>1. ledger' = Visible(t)
    BY <1>3 DEF Commit, Visible
  <2>2. HistoryInv(t) /\ CommittedInv
    BY DEF IInv, TxnInv
  <2>3. NeverOverdrawn'
    BY <2>1, <2>2 DEF NeverOverdrawn, HistoryInv, CommittedInv, Visible
  <2>4. QED
    BY <1>1, <2>1, <2>2, <2>3 DEF CommittedInv, HistoryInv
<1>4. QED
  BY <1>2, <1>3, LedgerGrows

-----------------------------------------------------------------------------
(* What was read is still so                                               *)

\* A balance that was read under the lock stays the current one until it is used.
LEMMA SeenStep ==
  ASSUME IInv, NEW t \in Txn, Act(t), NEW u \in Txn
  PROVE  SeenInv(u)'
<1>1. TypeOK /\ SeenInv(t) /\ SeenInv(u) /\ LockInv(u)
  BY DEF IInv, TxnInv
<1>2. CASE u # t
  <2>1. ASSUME NEW w \in Wallet, lock[w] = u
        PROVE  GetWalletBalance(u, w)' = GetWalletBalance(u, w)
    <3>1. Of(rows[t], w) = {}
      BY <1>2, <2>1, LockedApart
    <3>2. rows'[u] = rows[u] /\ (ledger' = ledger \/ ledger' = ledger \cup rows[t])
      BY <1>1, <1>2, Frame, LedgerGrows DEF Commit
    <3>3. Of(Visible(u)', w) = Of(Visible(u), w)
      BY <3>1, <3>2 DEF Visible, Of
    <3>4. GetWalletBalance(u, w)' = BalanceOf(Of(Visible(u)', w))
      BY DEF GetWalletBalance, BalanceOf, Of, Latest
    <3>5. QED
      BY <3>3, <3>4 DEF GetWalletBalance
  <2>2. ASSUME pc[u] \in Holding
        PROVE  /\ Current(u).sender \in Wallet /\ lock[Current(u).sender] = u
               /\ Current(u).receiver \in Wallet /\ lock[Current(u).receiver] = u
    BY <1>1, <2>2, CurrentIsTransfer DEF LockInv, Holding, Posting
  <2>3. /\ pc'[u] = pc[u]
        /\ seen'[u] = seen[u]
        /\ Current(u)' = Current(u)
    BY <1>1, <1>2, Frame
  <2>4. QED
    BY <1>1, <2>1, <2>2, <2>3 DEF SeenInv, Holding, CheckBalance
<1>3. CASE u = t
  <2>1. CASE Begin(t) \/ LockFirst(t) \/ LockSecond(t) \/ CreateCreditEntry(t)
             \/ Rollback(t) \/ Commit(t)
    <3>1. pc'[t] \in {"first", "second", "sender", "commit", "committed", "rolledback"}
      BY <1>1, <2>1 DEF Begin, LockFirst, LockSecond, CreateCreditEntry, Rollback, Commit,
           Goto, TypeOK
    <3>2. QED
      BY <1>3, <3>1 DEF SeenInv
  <2>2. CASE ReadSenderBalance(t)
    <3>1. /\ pc'[t] = "receiver"
          /\ seen'[t].sender = GetWalletBalance(t, Current(t).sender)
          /\ UNCHANGED <<ledger, rows, todo>>
      BY <1>1, <2>2 DEF ReadSenderBalance, Goto, TypeOK
    <3>2. QED
      BY <1>3, <3>1 DEF SeenInv, GetWalletBalance, Visible, Current
  <2>3. CASE ReadReceiverBalance(t)
    <3>1. /\ pc[t] = "receiver"
          /\ pc'[t] = "header"
          /\ seen'[t].receiver = GetWalletBalance(t, Current(t).receiver)
          /\ seen'[t].sender = seen[t].sender
          /\ CheckBalance(Current(t), seen[t].sender)
          /\ UNCHANGED <<ledger, rows, todo>>
      BY <1>1, <2>3 DEF ReadReceiverBalance, Goto, TypeOK
    <3>2. QED
      BY <1>1, <1>3, <3>1 DEF SeenInv, GetWalletBalance, Visible, Current, CheckBalance
  <2>4. CASE CreateTransactionHeader(t)
    <3>1. /\ pc[t] = "header"
          /\ pc'[t] = "debit"
          /\ UNCHANGED <<ledger, rows, todo, seen>>
      BY <1>1, <2>4 DEF CreateTransactionHeader, Goto, TypeOK
    <3>2. QED
      BY <1>1, <1>3, <3>1 DEF SeenInv, GetWalletBalance, Visible, Current, CheckBalance
  <2>5. CASE CreateDebitEntry(t)
    <3> DEFINE n == [wallet |-> Current(t).sender, amount |-> -Current(t).amount,
                     balance_after |-> seen[t].sender - Current(t).amount,
                     key |-> Current(t).key, created_at |-> CreatedAt(t)]
    <3>1. n.wallet = Current(t).sender /\ rows'[t] = rows[t] \cup {n}
      BY <1>1, <2>5 DEF CreateDebitEntry, Insert, TypeOK
    <3> HIDE DEF n
    <3>2. /\ pc[t] = "debit"
          /\ pc'[t] = "credit"
          /\ UNCHANGED <<ledger, todo, seen>>
      BY <1>1, <2>5 DEF CreateDebitEntry, Goto, TypeOK
    <3>3. Current(t).sender # Current(t).receiver
      BY <3>2, CurrentIsTransfer DEF Posting
    <3>4. Of(Visible(t)', Current(t).receiver) = Of(Visible(t), Current(t).receiver)
      BY <3>1, <3>2, <3>3 DEF Visible, Of
    <3>5. GetWalletBalance(t, Current(t).receiver)'
            = BalanceOf(Of(Visible(t)', Current(t).receiver))
      BY <3>2 DEF GetWalletBalance, BalanceOf, Of, Latest, Current
    <3>6. QED
      BY <1>1, <1>3, <3>2, <3>4, <3>5 DEF SeenInv, GetWalletBalance
  <2>6. QED
    BY <2>1, <2>2, <2>3, <2>4, <2>5, EndingSteps DEF Act, Step
<1>4. QED
  BY <1>2, <1>3

-----------------------------------------------------------------------------
(* Double entry                                                            *)

\* A complete transfer stays complete when rows of other keys are added.
LEMMA CompleteKept ==
  ASSUME NEW R, NEW n, NEW k, n.key # k, Complete(R, k)
  PROVE  Complete(R \cup {n}, k)
BY DEF Complete

\* Every step keeps KeyInv: keys are taken once and each has both its rows or is in hand.
LEMMA KeyStep ==
  ASSUME IInv, NEW t \in Txn, Act(t), NEW u \in Txn
  PROVE  KeyInv(u)'
<1>1. TypeOK /\ KeyInv(t) /\ KeyInv(u)
  BY DEF IInv, TxnInv
<1>2. CASE u # t
  <2>1. /\ pc'[u] = pc[u]
        /\ rows'[u] = rows[u]
        /\ keys'[u] = keys[u]
        /\ Current(u)' = Current(u)
    BY <1>1, <1>2, Frame
  <2>2. keys[u] \cap headers' = {}
    BY <1>1, <1>2, LedgerGrows DEF Commit, KeyInv
  <2>3. ASSUME NEW v \in Txn \ {u} PROVE keys[u] \cap keys'[v] = {}
    <3>1. CASE v # t
      BY <1>1, <2>3, <3>1, Frame DEF KeyInv
    <3>2. CASE v = t
      <4>1. CASE CreateTransactionHeader(t)
        BY <1>1, <1>2, <3>2, <4>1 DEF CreateTransactionHeader, KeyInv, TypeOK
      <4>2. CASE ~CreateTransactionHeader(t)
        <5>1. keys'[t] \subseteq keys[t]
          BY <1>1, <4>2 DEF Act, Begin, Step, Fail, RejectAmount, LockFirst, LockSecond,
               ReadSenderBalance, ReadReceiverBalance, InsufficientFunds, UniqueViolation,
               CreateDebitEntry, CreateCreditEntry, Commit, Rollback, End, TypeOK
        <5>2. QED
          BY <1>1, <1>2, <3>2, <5>1 DEF KeyInv
      <4>3. QED
        BY <4>1, <4>2
    <3>3. QED
      BY <3>1, <3>2
  <2>4. QED
    BY <1>1, <2>1, <2>2, <2>3 DEF KeyInv, Complete
<1>3. CASE u = t
  <2>1. \A v \in Txn \ {t} : keys'[v] = keys[v]
    BY <1>1, Frame
  <2>2. CASE Rollback(t) \/ Commit(t)
    BY <1>1, <1>3, <2>2, EndsEnded DEF Ended, KeyInv
  <2>3. CASE Begin(t) \/ LockFirst(t) \/ LockSecond(t) \/ ReadSenderBalance(t)
             \/ ReadReceiverBalance(t)
    <3>1. /\ pc[t] \notin {"debit", "credit"}
          /\ pc'[t] \notin {"debit", "credit"}
          /\ UNCHANGED <<rows, keys, headers>>
      BY <1>1, <2>3 DEF Begin, LockFirst, LockSecond, ReadSenderBalance,
           ReadReceiverBalance, Goto, TypeOK
    <3>2. QED
      BY <1>1, <1>3, <3>1 DEF KeyInv
  <2>4. CASE CreateTransactionHeader(t)
    <3>1. /\ pc[t] = "header"
          /\ pc'[t] = "debit"
          /\ keys'[t] = keys[t] \cup {Current(t).key}
          /\ Current(t).key \notin headers \cup keys[t]
          /\ \A v \in Txn \ {t} : Current(t).key \notin keys[v]
          /\ UNCHANGED <<rows, headers, todo>>
      BY <1>1, <2>4 DEF CreateTransactionHeader, Taken, Goto, TypeOK
    <3>2. Current(t)' = Current(t)
      BY <3>1 DEF Current
    <3>3. QED
      BY <1>1, <1>3, <2>1, <3>1, <3>2 DEF KeyInv
  <2>5. CASE CreateDebitEntry(t)
    <3> DEFINE n == [wallet |-> Current(t).sender, amount |-> -Current(t).amount,
                     balance_after |-> seen[t].sender - Current(t).amount,
                     key |-> Current(t).key, created_at |-> CreatedAt(t)]
    <3>1. /\ pc[t] = "debit"
          /\ pc'[t] = "credit"
          /\ rows'[t] = rows[t] \cup {n}
          /\ UNCHANGED <<keys, headers, todo>>
      BY <1>1, <2>5 DEF CreateDebitEntry, Insert, Goto, TypeOK
    <3>2. /\ n.wallet = Current(t).sender
          /\ n.amount = -Current(t).amount
          /\ n.key = Current(t).key
      OBVIOUS
    <3> HIDE DEF n
    <3>3. Current(t)' = Current(t)
      BY <3>1 DEF Current
    <3>4. \A k \in keys[t] \ {Current(t).key} : Complete(rows'[t], k)
      BY <1>1, <3>1, <3>2, CompleteKept DEF KeyInv
    <3>5. /\ n \in rows'[t]
          /\ \A r \in rows'[t] : r.key = n.key => r = n
      BY <1>1, <3>1, <3>2 DEF KeyInv
    <3>6. \A r \in rows'[t] : r.key \in keys[t]
      BY <1>1, <3>1, <3>2 DEF KeyInv
    <3>7. QED
      BY <1>1, <1>3, <2>1, <3>1, <3>2, <3>3, <3>4, <3>5, <3>6 DEF KeyInv
  <2>6. CASE CreateCreditEntry(t)
    <3> DEFINE n == [wallet |-> Current(t).receiver, amount |-> Current(t).amount,
                     balance_after |-> seen[t].receiver + Current(t).amount,
                     key |-> Current(t).key, created_at |-> CreatedAt(t)]
    <3>1. /\ pc[t] = "credit"
          /\ pc'[t] \in {"commit", "first"}
          /\ rows'[t] = rows[t] \cup {n}
          /\ UNCHANGED <<keys, headers>>
      BY <1>1, <2>6 DEF CreateCreditEntry, Insert, Goto, TypeOK
    <3>2. /\ n.wallet = Current(t).receiver
          /\ n.amount = Current(t).amount
          /\ n.key = Current(t).key
      OBVIOUS
    <3> HIDE DEF n
    <3>3. /\ Current(t).sender # Current(t).receiver
          /\ Current(t).amount \in Int
          /\ Current(t).amount > 0
      BY <3>1, CurrentIsTransfer DEF Posting, Holding, IInv, TxnInv, ControlInv
    <3>4. PICK d \in rows[t] : /\ d.key = Current(t).key
                               /\ d.wallet = Current(t).sender
                               /\ d.amount = -Current(t).amount
                               /\ \A r \in rows[t] : r.key = d.key => r = d
      BY <1>1, <3>1 DEF KeyInv
    <3>5. Legs(d, n)
      BY <3>2, <3>3, <3>4 DEF Legs
    <3>6. Complete(rows'[t], Current(t).key)
      BY <3>1, <3>2, <3>4, <3>5 DEF Complete
    <3>7. \A k \in keys[t] \ {Current(t).key} : Complete(rows'[t], k)
      BY <1>1, <3>1, <3>2, CompleteKept DEF KeyInv
    <3>8. \A r \in rows'[t] : r.key \in keys[t]
      BY <1>1, <3>1, <3>2 DEF KeyInv
    <3>9. QED
      BY <1>1, <1>3, <2>1, <3>1, <3>6, <3>7, <3>8 DEF KeyInv
  <2>7. QED
    BY <2>2, <2>3, <2>4, <2>5, <2>6, EndingSteps DEF Act, Step
<1>4. QED
  BY <1>2, <1>3

\* Every step keeps double entry in the committed tables.
LEMMA DoubleEntryStep ==
  ASSUME IInv, NEW t \in Txn, Act(t)
  PROVE  DoubleEntry'
<1>1. TypeOK /\ KeyInv(t) /\ DoubleEntry
  BY DEF IInv, TxnInv
<1>2. CASE UNCHANGED <<ledger, headers>>
  BY <1>1, <1>2 DEF DoubleEntry
<1>3. CASE Commit(t)
  <2>1. ledger' = ledger \cup rows[t] /\ headers' = headers \cup keys[t] /\ pc[t] = "commit"
    BY <1>3 DEF Commit
  <2>2. \A r \in ledger' : r.key \in headers'
    BY <1>1, <2>1 DEF DoubleEntry, KeyInv
  <2>3. ASSUME NEW k \in headers PROVE Complete(ledger', k)
    <3>1. PICK d, c \in ledger : d.key = k /\ Legs(d, c) /\ \A r \in ledger : r.key = k => r \in {d, c}
      BY <1>1, <2>3 DEF DoubleEntry
    <3>2. \A r \in rows[t] : r.key # k
      BY <1>1, <2>3 DEF KeyInv
    <3>3. QED
      BY <2>1, <3>1, <3>2 DEF Complete
  <2>4. ASSUME NEW k \in keys[t] PROVE Complete(ledger', k)
    <3>1. Complete(rows[t], k)
      BY <1>1, <2>1, <2>4 DEF KeyInv
    <3>2. \A r \in ledger : r.key # k
      BY <1>1, <2>4 DEF DoubleEntry, KeyInv
    <3>3. QED
      BY <2>1, <3>1, <3>2 DEF Complete
  <2>5. QED
    BY <2>1, <2>2, <2>3, <2>4 DEF DoubleEntry, Complete
<1>4. QED
  BY <1>2, <1>3, LedgerGrows

-----------------------------------------------------------------------------
(* The invariant                                                           *)

\* The inductive invariant holds at the start.
LEMMA InitInv == Init => IInv
<1> SUFFICES ASSUME Init PROVE IInv
  OBVIOUS
<1>1. TypeOK
  BY DEF Init, TypeOK, Label, NothingSeen
<1>2. \A w \in Wallet : GoodHistory(Of(ledger, w))
  BY DEF Init, Of, GoodHistory, Ordered, Chained, HasLatest
<1>3. CommittedInv /\ DoubleEntry
  BY <1>2 DEF Init, CommittedInv, NeverOverdrawn, DoubleEntry
<1>4. ASSUME NEW t \in Txn PROVE TxnInv(t)
  <2>1. Visible(t) = ledger
    BY DEF Init, Visible
  <2>2. HistoryInv(t)
    BY <1>2, <2>1 DEF Init, HistoryInv
  <2>3. QED
    BY <2>1, <2>2 DEF Init, TxnInv, ControlInv, LockInv, ClockInv, SeenInv, KeyInv,
         Posting, Holding
<1>5. QED
  BY <1>1, <1>3, <1>4 DEF IInv

\* Every step, stuttering included, keeps the inductive invariant.
LEMMA NextInv == IInv /\ [Next]_vars => IInv'
<1> SUFFICES ASSUME IInv, [Next]_vars PROVE IInv'
  OBVIOUS
<1>1. TypeOK'
  BY TypeStep
<1>2. ASSUME NEW t \in Txn, Act(t) PROVE IInv'
  BY <1>1, <1>2, ControlStep, LockStep, ClockStep, HistoryStep, SeenStep, KeyStep,
     CommittedStep, DoubleEntryStep DEF IInv, TxnInv
<1>3. CASE UNCHANGED vars
  <2>1. CommittedInv' /\ DoubleEntry'
    BY <1>3 DEF vars, IInv, CommittedInv, NeverOverdrawn, DoubleEntry
  <2>2. ASSUME NEW t \in Txn PROVE TxnInv(t)'
    <3>1. Visible(t)' = Visible(t) /\ Current(t)' = Current(t)
      BY <1>3 DEF vars, Visible, Current
    <3>2. \A w \in Wallet : GetWalletBalance(t, w)' = GetWalletBalance(t, w)
      BY <3>1 DEF GetWalletBalance
    <3>3. ControlInv(t)' /\ LockInv(t)' /\ ClockInv(t)' /\ HistoryInv(t)' /\ KeyInv(t)'
      BY <1>3, <3>1 DEF vars, IInv, TxnInv, ControlInv, LockInv, ClockInv, HistoryInv, KeyInv
    <3>4. SeenInv(t)'
      BY <1>3, <3>1, <3>2, CurrentIsTransfer
         DEF vars, IInv, TxnInv, SeenInv, CheckBalance, Posting
    <3>5. QED
      BY <3>3, <3>4 DEF TxnInv
  <2>3. QED
    BY <1>1, <2>1, <2>2 DEF IInv
<1>4. QED
  BY <1>2, <1>3 DEF Next, Act, Quiet

\* The whole inductive invariant holds in every reachable state, for any wallets,
\* transactions and requests.
THEOREM Invariance == Spec => []IInv
BY InitInv, NextInv, PTL DEF Spec

\* Type correctness of the ledger and of every transaction's local state.
THEOREM TypeCorrect == Spec => []TypeOK
<1>1. IInv => TypeOK
  BY DEF IInv
<1>2. QED
  BY <1>1, Invariance, PTL

\* Each row's balance_after is the running sum of its wallet: no interleaving of
\* transactions, rollbacks and repeated requests forks the chain of snapshots.
THEOREM BalancesChain == Spec => []BalanceChain
<1>1. IInv => BalanceChain
  BY DEF IInv, CommittedInv, GoodHistory, BalanceChain
<1>2. QED
  BY <1>1, Invariance, PTL

\* No row of a personal wallet ever shows a negative balance.
THEOREM NoOverdraft == Spec => []NeverOverdrawn
<1>1. IInv => NeverOverdrawn
  BY DEF IInv, CommittedInv
<1>2. QED
  BY <1>1, Invariance, PTL

\* Every committed header has exactly its debit and its credit row, and no row is
\* without a header: transfers are posted whole and at most once.
THEOREM WholeTransfers == Spec => []DoubleEntry
<1>1. IInv => DoubleEntry
  BY DEF IInv
<1>2. QED
  BY <1>1, Invariance, PTL
=============================================================================
