------------------------------ MODULE MCAdmin ------------------------------
(* Admin for TLC: two items in two weeks or pages.  Users and payments are  *)
(* listed all, or only those in one status.                                 *)
EXTENDS AdminInv, TLC

CONSTANTS i1, i2, q1, q2, f1, f2, c1, c2, p1, p2, p3

ListedOf ==
    [v \in View |->
       IF v \in {"users", "gateway"}
       THEN (q1 :> Item \X State) @@ (q2 :> Item \X {"plain"})
       ELSE (q1 :> {i1} \X State) @@ (q2 :> {i2} \X State)]

FetchSlotsOf == [v \in View |-> IF v = "trips" THEN {f1} ELSE {f1, f2}]

CallSlotsOf == [v \in View |-> IF v = "trips" THEN {c1} ELSE {c1, c2}]

FiltersOf == {{}, {i2}}

AdminSymmetry == Permutations(Pick)
=============================================================================
