SPECIFICATION FairSpec
CONSTANTS
  liability = liability
  alice = alice
  revenue = revenue
  topup = topup
  seat1 = seat1
  seat2 = seat2
  refund1 = refund1
  bad = bad
  NoTxn = NoTxn
  Txn = {t1, t2, t3}
  Wallet = {liability, alice, revenue}
  System = {liability, revenue}
  Rank <- MCRank
  Key <- MCKey
  Request <- MCRequest
INVARIANTS BalanceChain NeverOverdrawn DoubleEntry BalancesAgree BankInv
PROPERTIES ImplementsBank EveryTransactionEnds
