---------------------------- MODULE TopUpPageInv -----------------------------
(***************************************************************************)
(* The inductive invariant of TopUpPage.                                   *)
(***************************************************************************)
EXTENDS TopUpPage

\* The hook is mounted by the form of a wallet payment alone, which is the form a page
\* begins with; so a page never mounts a second one.
PageInv ==
    /\ hook # None => page = "topup" /\ method = "MWALLET"
    /\ page # "topup" => method = "MWALLET"
    /\ RequestHasPage

\* Without doubt one fetch at most is in flight, and it will bring, or the last one has
\* brought, the payment the user was told of: the server had credited it by then.
MoneyInv ==
    ~doubt =>
        /\ \A f, g \in Fetching : f = g
        /\ told # NoKey =>
             /\ payment[told] = "credited"
             /\ \A f \in Fetching : fetch[f].at = "read" => told \in fetch[f].seen
             /\ Fetching = {} => told \in balance

\* The inductive invariant: the types, one mounted hook with all requests, and a balance
\* that is never older than the payment the user was told of unless it is in doubt.
IInv == TypeOK /\ PageInv /\ MoneyInv
=============================================================================
