------------------------------- MODULE AdminInv -------------------------------
(***************************************************************************)
(* The inductive invariant behind the properties of the admin console, and *)
(* the properties it implies.                                               *)
(***************************************************************************)
EXTENDS Admin

-----------------------------------------------------------------------------
(* The form of a trip *)

AskedPicks == {p \in Pick : pick[p].at = "asked"}

\* The template, the route of the field and the stops come from the calls of
\* selectRoute that are under way, or from the last one that is over.
FormAgrees ==
    /\ \A p, q \in AskedPicks : pick[p].route = pick[q].route
    /\ \A p \in AskedPicks :
         /\ template \in {NoRoute, pick[p].route}
         /\ pick[p].then = "nothing" =>
              route \in {NoRoute, pick[p].route} /\ stops \subseteq {pick[p].route}
    /\ template # NoRoute /\ route # NoRoute => route = template /\ stops \subseteq {route}

FormInv ==
    /\ \A p \in Picking :
         pick[p].route \in Route /\ (mode = "none" => pick[p].then = "nothing")
    /\ mode = "none" => route = NoRoute /\ stops = {}
    /\ mixed \/ FormAgrees

-----------------------------------------------------------------------------
(* The changes *)

\* Only users are created, only users and trips are deleted, only a selection of
\* trips is exported; what does not exist yet is not shown, and only created.
ChangeInv ==
    /\ \A i \in Item :
         /\ item[i] = "gone" => view \in {"users", "trips"}
         /\ item[i] = "new" =>
              /\ view = "users"
              /\ rows[i] = "absent"
              /\ \A f \in Fetch : fetch[f].rows[i] = "absent"
              /\ \A c \in Call : i \in call[c].on => call[c].by = "create"
    /\ \A c \in Call :
         /\ call[c].what = "gone" => view \in {"users", "trips"}
         /\ call[c].what = "export" => call[c].by = "batch"
         /\ view \in {"users", "gateway"} => call[c].by \in {"page", "create"}

\* A user is created by one call, and by nothing else under way changed.
CreateInv ==
    \A c \in Call : call[c].at = "sent" /\ call[c].by = "create" =>
      \A i \in call[c].on :
        item[i] = "new" /\ \A d \in Changing \ {c} : i \notin call[d].on

\* Whatever is cancelled or is to be has been agreed to.
CancelInv ==
    /\ refunded \cup batch.todo \subseteq agreed
    /\ \A c \in Call : call[c].what = "cancelled" => call[c].on \subseteq agreed

BatchCalls == {c \in Changing : call[c].by = "batch" /\ call[c].what = "cancelled"}

\* One call of a batch at a time; every trip of the batch is refunded, has
\* failed, is under way or is to come.
BatchInv ==
    /\ \A c, d \in BatchCalls : c = d
    /\ \A c \in BatchCalls :
         /\ batch.ids # {}
         /\ batch.ids \subseteq refunded \cup batch.failed \cup batch.todo \cup call[c].on
    /\ \A c \in Call :
         call[c].at = "done" /\ call[c].what = "cancelled" => call[c].on \subseteq refunded

-----------------------------------------------------------------------------
(* The rows *)

\* A change that is done and whose answer will be put into the rows, or will
\* be followed by a fetch.
Replaces(c) == call[c].at = "done" /\ view \in {"users", "gateway"} /\ call[c].by = "page"
Owed == \E c \in Call : call[c].at = "done" /\ call[c].what # "export" /\ ~Replaces(c)
Awaited(i) == \E c \in Call : Replaces(c) /\ i \in call[c].on

\* Rows for a query, those of the page and those a fetch has read, that the
\* changes under way will bring up to date.
GoodTable(q) == Owed \/ \A i \in Item : Awaited(i) \/ RowAgrees(i, q)
Good(r, q) == Owed \/ \A i \in Item : Awaited(i) \/ r[i] = Shown(q)[i]

RowsInv ==
    view # "form" /\ ~doubt =>
      /\ \A f, g \in InFlight : f = g
      /\ InFlight = {} => \E q \in Target : GoodTable(q)
      /\ \A f \in InFlight :
           /\ fetch[f].query \in Target
           /\ fetch[f].at = "read" => Good(fetch[f].rows, fetch[f].query)
      /\ \A c \in Call : Replaces(c) =>
           \A i \in call[c].on :
             \/ call[c].what \in {item[i], "pretended"}
             \/ \E d \in Call \ {c} : Replaces(d) /\ i \in call[d].on

\* Type correctness and what makes the properties inductive.  LoadingMeansFetch
\* is inductive as it stands.
IInv ==
    /\ TypeOK
    /\ FormInv
    /\ ChangeInv /\ CreateInv /\ CancelInv /\ BatchInv
    /\ LoadingMeansFetch /\ RowsInv
=============================================================================
