------------------------------ MODULE MCSession ------------------------------
(* Session with two tabs of one browser: one that has two requests in       *)
(* flight, so that one waits for the other's refresh, and one that has one. *)
EXTENDS SessionInv, TLC

CONSTANTS t1, t2, c1, c2, c3

MCTab == {t1, t2}
MCCall == {c1, c2, c3}
MCSlots == [t \in MCTab |-> IF t = t1 THEN {c1, c2} ELSE {c3}]

Symmetry == Permutations({c1, c2})

\* A pair that neither the storage nor a request holds is never used again;
\* of the pair in a store only counts whether it is the one in the storage; and
\* a user without a name is still one.  States that differ in nothing else are
\* the same.
Held(g) == saved = g \/ \E t \in Tab, c \in Call : g \in {call[t][c].pair, call[t][c].rt}

UpToForgottenPairs ==
    <<saved, isLoading, initialized, isRefreshing, subscribers, disturbed, call,
      [t \in Tab |-> <<user[t] = "none", refreshToken[t] = NoPair, refreshToken[t] = saved>>],
      [g \in Pair |-> IF Held(g) THEN <<access[g], refresh[g], g \in orphans>>
                                 ELSE refresh[g] # "none"]>>
=============================================================================
