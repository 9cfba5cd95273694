\* Liveness: one payment, two pollers, and status checks that come again and again.
CONSTANTS
  k1 = k1  k2 = k2  t1 = t1  t2 = t2  r1 = r1  r2 = r2  w1 = w1  w2 = w2
  NoKey = NoKey
  Method = {"MWALLET", "CARD"}
  Key = {k1}
  Txn = {t1}
  Request = {r1}
  Poller = {w1, w2}
  MaxConcurrent = 1
  MaxClaimed = 0
SPECIFICATION VerifiedSpec
PROPERTIES PollersEnd PaidIsCredited
