----------------------------- MODULE SessionInv ------------------------------
(***************************************************************************)
(* The inductive invariant of Session: why the properties hold.            *)
(***************************************************************************)
EXTENDS Session

\* A request that refreshes presents a token, and no other does.
PresentsInv ==
    \A t \in Tab, c \in Call :
        call[t][c].at \in {"reading", "issuing", "rotated"} <=> call[t][c].rt # NoPair

\* Nobody knows a pair that has not been issued.
FreshInv ==
    \A g \in Pair :
        refresh[g] = "none" =>
            /\ saved # g /\ g \notin orphans
            /\ \A t \in Tab, c \in Call : call[t][c].rt # g /\ call[t][c].pair # g

\* The pair on its way to a request is known to nobody else, and unused.
UnderWayInv ==
    \A t \in Tab, c \in Call :
        call[t][c].at = "rotated" =>
            LET g == call[t][c].pair IN
            /\ g # NoPair
            /\ refresh[g] = "valid"
            /\ saved # g /\ g \notin orphans
            /\ \A u \in Tab, d \in Call :
                  /\ call[u][d].rt # g
                  /\ call[u][d].at = "rotated" /\ call[u][d].pair = g => u = t /\ d = c

TokenInv == PresentsInv /\ FreshInv /\ UnderWayInv /\ UsedTokenIsReplaced

IInv == TypeOK /\ SingleRefresh /\ NobodyLeftQueued /\ StoreMatchesStorage /\ TokenInv
=============================================================================
