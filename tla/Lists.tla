-------------------------------- MODULE Lists --------------------------------
(***************************************************************************)
(* The list pages of the admin console.  Each shows what a fetch for its   *)
(* week, filters and page has brought, and lets the administrator change   *)
(* an item.  Nothing orders the answers of the fetches, and they share one  *)
(* loading flag.  One page is shown in a behaviour.                         *)
(***************************************************************************)
EXTENDS Naturals, FiniteSets

CONSTANTS
    View,       \* the pages
    Item,       \* trips, users, payments, tickets, log entries, settings
    Query,      \* weeks, filters or pages that can be asked for
    Listed,     \* page |-> query |-> the items, each in a state, that its list can have
    ThisWeek,   \* what the server takes for a list without dates
    NoQuery,    \* a page of the list past its end, or no list
    Fetch,      \* fetches in flight at once
    FetchSlots, \* those of each page
    Call,       \* changes in flight at once
    CallSlots,  \* those of each page
    MaxChange   \* bound on the changes begun

ASSUME ListsAssumption ==
    /\ FetchSlots \in [View -> SUBSET Fetch]
    /\ CallSlots \in [View -> SUBSET Call]
    /\ ThisWeek \in Query /\ NoQuery \notin Query
    /\ MaxChange \in Nat
    /\ IsFiniteSet(Fetch)

State == {"plain", "forced", "cancelled"}

ASSUME ListedAssumption == Listed \in [View -> [Query -> SUBSET (Item \X State)]]

VARIABLES
    view,       \* the page
    item,       \* server: the state of each item, "new" before it is created
    refunded,   \* server: trips whose CancelTrip has committed
    query,      \* the week, the filters and the page chosen
    rows,       \* the items shown
    mark,       \* auxiliary: what each item is shown after, a list or the answer to a change
    fetch,      \* the fetches in flight
    loading,    \* isLoading
    call,       \* the changes in flight
    changes,    \* auxiliary: how many have begun
    doubt       \* auxiliary: the rows may be older than the server's items

server == <<item, refunded>>
table == <<rows, mark>>
list == <<query, table, fetch, loading>>

NoFetch == [at |-> "idle", query |-> NoQuery, rows |-> [i \in Item |-> "absent"]]
NoCall == [at |-> "idle", what |-> "plain", on |-> {}, by |-> "page"]

\* The server's answer to a list for the query.  With a status filter it loses
\* an item, or gets one, when the status of the item changes.
Shown(q) ==
    [i \in Item |-> IF q # NoQuery /\ <<i, item[i]>> \in Listed[view][q] THEN item[i] ELSE "absent"]

InFlight == {f \in Fetch : fetch[f].at # "idle"}
Changing == {c \in Call : call[c].at # "idle"}

ListsTypeOK ==
    /\ view \in View
    /\ item \in [Item -> State \cup {"new", "gone"}]
    /\ refunded \subseteq Item
    /\ query \in Query \cup {NoQuery}
    /\ rows \in [Item -> State \cup {"absent"}]
    /\ mark \in [Item -> {"listed", "edited", "pretended"}]
    /\ fetch \in [Fetch -> [at : {"idle", "asked", "read"}, query : Query \cup {NoQuery},
                            rows : [Item -> State \cup {"absent"}]]]
    /\ loading \in BOOLEAN
    /\ call \in [Call -> [at : {"idle", "sent", "done", "refused"},
                          what : State \cup {"gone", "export", "pretended"}, on : SUBSET Item,
                          by : {"page", "batch", "modal", "create"}]]
    /\ changes \in 0 .. MaxChange
    /\ doubt \in BOOLEAN

\* The page has been mounted, and has asked once or, for GatewayTransactionsPage
\* with its debounced search, twice.
ListsInit ==
    /\ view \in View
    /\ item \in [Item -> IF view = "users" THEN {"plain", "new"} ELSE {"plain"}]
    /\ refunded = {}
    /\ query = IF view = "audit" THEN NoQuery ELSE ThisWeek
    /\ rows = [i \in Item |-> "absent"]
    /\ mark = [i \in Item |-> "listed"]
    /\ \E F \in SUBSET FetchSlots[view] :
         /\ Cardinality(F) = CASE view = "audit" -> 0 [] view = "gateway" -> 2 [] OTHER -> 1
         /\ fetch = [f \in Fetch |-> IF f \in F THEN [NoFetch EXCEPT !.at = "asked", !.query = query]
                                     ELSE NoFetch]
         /\ doubt = (Cardinality(F) > 1)
    /\ loading = (view # "audit")
    /\ call = [c \in Call |-> NoCall]
    /\ changes = 0

-----------------------------------------------------------------------------
(* Fetching *)

\* One fetch for each of the queries begins.  Those that overlap may overtake
\* each other, and a change that has been overtaken stays in doubt until the
\* last one is answered.
AskAll(qs) ==
    \E p \in [qs -> FetchSlots[view] \ InFlight] :
      /\ \A q, r \in qs : p[q] = p[r] => q = r
      /\ fetch' = [f \in Fetch |-> IF \E q \in qs : p[q] = f
                                   THEN [NoFetch EXCEPT !.at = "asked",
                                                        !.query = CHOOSE q \in qs : p[q] = f]
                                   ELSE fetch[f]]
      /\ loading' = TRUE
      /\ doubt' = \/ InFlight # {} \/ Cardinality(qs) > 1
                  \/ doubt /\ \E c \in Call : call'[c].at # "idle"

Ask(q) == AskAll({q})

Read(f) ==
    /\ fetch[f].at = "asked"
    /\ fetch' = [fetch EXCEPT ![f].at = "read", ![f].rows = Shown(fetch[f].query)]
    /\ UNCHANGED <<view, server, query, table, loading, call, doubt, changes>>

\* The finally of a fetch; forgotten by a fetch that returns early.
FinishOnlyGood(f) ==
    /\ fetch' = [fetch EXCEPT ![f] = NoFetch]
    /\ loading' = (loading /\ fetch[f].at # "read")

Finish(f) ==
    /\ fetch' = [fetch EXCEPT ![f] = NoFetch]
    /\ loading' = FALSE

Land(f) ==
    /\ fetch[f].at = "read"
    /\ Finish(f)
    /\ rows' = fetch[f].rows
    /\ mark' = [i \in Item |-> "listed"]
    /\ UNCHANGED <<view, server, query, call, doubt, changes>>

\* A toast.  Only the page of the logs clears what it shows.
FetchFails(f) ==
    /\ f \in InFlight
    /\ Finish(f)
    /\ rows' = IF view = "logs" THEN [i \in Item |-> "absent"] ELSE rows
    /\ doubt' = TRUE
    /\ UNCHANGED <<view, server, query, mark, call, changes>>

\* A choice that is fetched for before it is set.
ChooseTooLate(q) ==
    /\ q # query
    /\ query' = q
    /\ UNCHANGED <<view, server, table, call, changes>>
    /\ Ask(query)

\* The administrator chooses another week, filter or page.
Choose(q) ==
    /\ q # query
    /\ query' = q
    /\ UNCHANGED <<view, server, table, call, changes>>
    /\ Ask(q)

Again ==
    /\ UNCHANGED <<view, server, query, table, call, changes>>
    /\ Ask(query)

SetWeek(q) == view = "trips" /\ Choose(q)
SetFilters(q) == view = "users" /\ Choose(q)
SetDateRange(q) == view = "gateway" /\ Choose(q)
TicketPage(q) == view = "tickets" /\ Choose(q)
LedgerPage(q) == view = "transactions" /\ Choose(q)
LogPage(q) == view = "logs" /\ Choose(q)
HistoryWeek(q) == view = "history" /\ Choose(q)

UserPage == view = "users" /\ Again
Refresh == view \in {"gateway", "logs", "worker", "settings"} /\ ~loading /\ Again
Interval == view = "worker" /\ Again

\* Each render of TicketsHistory makes new dates, and so a new fetchTickets.
Rerender == view = "history" /\ Again

\* A filter chosen on a later page: the list is asked for with that page,
\* which the new filters need not have, and then with the first.
Restart(q) ==
    /\ q # query
    /\ query' = q
    /\ UNCHANGED <<view, server, table, call, changes>>
    /\ AskAll({NoQuery, q})

TicketFilter(q) == view = "tickets" /\ Restart(q)
LedgerFilter(q) == view = "transactions" /\ Restart(q)

OpenLogs(q) == view = "audit" /\ query = NoQuery /\ Choose(q)

CloseLogs ==
    /\ view = "audit" /\ query # NoQuery
    /\ query' = NoQuery
    /\ rows' = [i \in Item |-> "absent"]
    /\ doubt' = (InFlight # {})
    /\ UNCHANGED <<view, server, mark, fetch, loading, call, changes>>

-----------------------------------------------------------------------------
(* Changing an item *)

Start(what, on, by) ==
    /\ changes < MaxChange
    /\ changes' = changes + 1
    /\ \E c \in CallSlots[view] \ Changing :
         call' = [call EXCEPT ![c] = [at |-> "sent", what |-> what, on |-> on, by |-> by]]

\* The actions that a row offers.
UserShown(i) == view = "users" /\ rows[i] # "absent"
PaymentShown(i) == view = "gateway" /\ rows[i] # "absent"

\* toggleUserStatus, approveUser and updateUser.  The states are what filters tell
\* users apart by, is_active or the details that are searched.
ChangeUser(i) ==
    /\ UserShown(i)
    /\ \E s \in {"plain", "forced"} : Start(s, {i}, "page")
    /\ UNCHANGED <<view, server, list, doubt>>

\* The server only sends a mail; the row will say that the user is inactive.
RejectUser(i) ==
    /\ UserShown(i)
    /\ Start("pretended", {i}, "page")
    /\ UNCHANGED <<view, server, list, doubt>>

DeleteUser(i) ==
    /\ UserShown(i)
    /\ Start("gone", {i}, "page")
    /\ UNCHANGED <<view, server, list, doubt>>

CreateUser(i) ==
    /\ view = "users" /\ item[i] = "new" /\ \A c \in Changing : i \notin call[c].on
    /\ Start("plain", {i}, "create")
    /\ UNCHANGED <<view, server, list, doubt>>

\* The payment becomes final, or after 120 seconds without a final answer of the
\* gateway the administrator is told FAILED while its row stays as it was.
VerifyTransaction(i) ==
    /\ PaymentShown(i) /\ Changing = {}
    /\ \E s \in {"forced", "pretended"} : Start(s, {i}, "page")
    /\ UNCHANGED <<view, server, list, doubt>>

SaveConfig(i) ==
    /\ view = "settings" /\ rows[i] # "absent" /\ ~loading
    /\ Start("forced", {i}, "page")
    /\ UNCHANGED <<view, server, list, doubt>>

\* What the change makes of the items.  An item that is gone is changed by
\* nothing; a status overwrites the one the trip has.
Effect(c) ==
    [i \in Item |->
       IF i \in call[c].on /\ call[c].what \notin {"export", "pretended"} /\ item[i] # "gone"
       THEN call[c].what ELSE item[i]]

\* A user who is gone can be deleted again, and is otherwise not found.
NotFound(c) ==
    view = "users" /\ call[c].what # "gone" /\ \E i \in call[c].on : item[i] = "gone"

Commit(c) ==
    /\ call[c].at = "sent" /\ ~NotFound(c)
    /\ item' = Effect(c)
    /\ refunded' = refunded \cup IF call[c].what = "cancelled" THEN call[c].on ELSE {}
    /\ call' = [call EXCEPT ![c].at = "done"]
    /\ UNCHANGED <<view, list, doubt, changes>>

\* An error, or an answer that is lost after the commit.
Refuse(c) ==
    /\ call[c].at \in {"sent", "done"}
    /\ call' = [call EXCEPT ![c].at = "refused"]
    /\ doubt' = (doubt \/ call[c].at = "done")
    /\ UNCHANGED <<view, server, list, changes>>

\* What the answer to the change puts into the row.
Answered(c) ==
    CASE call[c].what = "gone" -> "absent"
      [] call[c].what = "pretended" -> "forced"
      [] OTHER -> call[c].what

Mark(c) ==
    mark' = [i \in Item |-> IF i \notin call[c].on THEN mark[i]
                            ELSE IF call[c].what = "pretended" THEN "pretended" ELSE "edited"]

\* A row for a user who is gone, as if deleteUser mapped like the others.
ReplaceByAnswer(c) ==
    /\ rows' = [i \in Item |-> IF i \in call[c].on /\ rows[i] # "absent" THEN call[c].what ELSE rows[i]]
    /\ Mark(c)

\* The stores of users and payments put the answer into the row, if it is
\* there, whatever filters are chosen; a user deleted is taken out of the rows.
Replace(c) ==
    /\ rows' = [i \in Item |-> IF i \in call[c].on /\ rows[i] # "absent" THEN Answered(c) ELSE rows[i]]
    /\ Mark(c)

\* An answer that is put into the row may itself be overtaken by a fetch, or by
\* another change of the same item.
InPlace(c) ==
    /\ call[c].at = "done" /\ view \in {"users", "gateway"} /\ call[c].by = "page"
    /\ Replace(c)
    /\ doubt' = (doubt \/ InFlight # {} \/ Changing # {c})
    /\ call' = [call EXCEPT ![c] = NoCall]
    /\ UNCHANGED <<view, server, query, fetch, loading, changes>>

\* updateConfig and createUser are followed by a fetch.
Refetch(c) ==
    /\ call[c].at = "done" /\ (view = "settings" \/ call[c].by = "create")
    /\ call' = [call EXCEPT ![c] = NoCall]
    /\ UNCHANGED <<view, server, query, table, changes>>
    /\ Ask(query)

GiveUp(c) ==
    /\ call[c].at = "refused" /\ view # "trips"
    /\ call' = [call EXCEPT ![c] = NoCall]
    /\ UNCHANGED <<view, server, list, doubt, changes>>

-----------------------------------------------------------------------------
ListsNext ==
    \/ \E q \in Query : SetFilters(q) \/ SetDateRange(q) \/ TicketPage(q) \/ LedgerPage(q)
                        \/ LogPage(q) \/ HistoryWeek(q) \/ TicketFilter(q) \/ LedgerFilter(q)
                        \/ OpenLogs(q)
    \/ UserPage \/ Refresh \/ Interval \/ Rerender \/ CloseLogs
    \/ \E i \in Item : ChangeUser(i) \/ RejectUser(i) \/ DeleteUser(i) \/ CreateUser(i)
                       \/ VerifyTransaction(i) \/ SaveConfig(i)
    \/ \E c \in Call : InPlace(c) \/ Refetch(c) \/ GiveUp(c)

Network ==
    \/ \E f \in Fetch : Read(f) \/ Land(f) \/ FetchFails(f)
    \/ \E c \in Call : Commit(c) \/ Refuse(c)
=============================================================================
