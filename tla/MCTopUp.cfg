\* One key: repeated and concurrent requests, checks, callbacks and two pollers.
CONSTANTS
  k1 = k1  k2 = k2  t1 = t1  t2 = t2  r1 = r1  r2 = r2  w1 = w1  w2 = w2
  NoKey = NoKey
  Method = {"MWALLET", "CARD"}
  Key = {k1}
  Txn = {t1, t2}
  Request = {r1, r2}
  Poller = {w1, w2}
  MaxConcurrent = 1
  MaxClaimed = 1
SPECIFICATION Spec
SYMMETRY TopUpSymmetry
INVARIANTS IInv StatusTruthful OnePollerWhilePending TokensConserved
PROPERTY ImplementsPayment
