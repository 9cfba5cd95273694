------------------------------ MODULE MCTopUp -------------------------------
(* TopUp for TLC.                                                           *)
EXTENDS TopUpInv, TLC

CONSTANTS k1, k2, t1, t2, r1, r2, w1, w2

TopUpSymmetry ==
  Permutations(Key) \cup Permutations(Txn) \cup Permutations(Request) \cup Permutations(Poller)

=============================================================================
