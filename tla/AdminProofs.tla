----------------------------- MODULE AdminProofs -----------------------------
(***************************************************************************)
(* Proofs about the admin console.                                          *)
(***************************************************************************)
EXTENDS AdminInv, FiniteSetTheorems, TLAPS

USE DEF table

-----------------------------------------------------------------------------
(* The form of a trip *)

\* What the form and the store hold stays of its type.
LEMMA FormTypes ==
    ASSUME FormTypeOK, FormInv, FormNext
    PROVE  FormTypeOK'
<1>1. ASSUME NEW r \in Route, NEW for \in {"edit", "duplicate"}, Take(r, for)
      PROVE  FormTypeOK'
  BY <1>1 DEF FormTypeOK, Take, Mixed
<1>2. CASE OpenCreate
  BY <1>2 DEF FormTypeOK, OpenCreate
<1>3. ASSUME NEW p \in Pick, RoutesLoaded(p)
      PROVE  FormTypeOK'
  BY <1>3 DEF FormTypeOK, RoutesLoaded, SelectRoute, Mixed
<1>4. ASSUME NEW r \in Route, HandleRouteChange(r)
      PROVE  FormTypeOK'
  BY <1>4 DEF FormTypeOK, HandleRouteChange, SelectRoute, Mixed
<1>5. CASE ToggleStop
  BY <1>5 DEF FormTypeOK, ToggleStop
<1>6. ASSUME NEW p \in Pick, TemplateLoaded(p) \/ TemplateFails(p)
      PROVE  FormTypeOK'
  BY <1>6 DEF FormTypeOK, FormInv, Picking, TemplateLoaded, TemplateFails, GoesOn, NoPick
<1>7. CASE Leave
  BY <1>7 DEF FormTypeOK, Leave, Unmount, NoPick
<1>8. CASE OnSubmit
  BY <1>8 DEF FormTypeOK, OnSubmit
<1>10. CASE SubmitFails
  BY <1>10 DEF FormTypeOK, SubmitFails, NotSubmitting
<1>9. CASE Submitted
  BY <1>9 DEF FormTypeOK, Submitted, Unmount, NoPick, NotSubmitting
<1> QED
  BY <1>1, <1>2, <1>3, <1>4, <1>5, <1>6, <1>7, <1>8, <1>9, <1>10
     DEF FormNext, SetEditingTrip, SetDuplicateTemplate

LEMMA FormStep ==
    ASSUME FormTypeOK, FormInv, FormNext
    PROVE  FormInv'
<1>1. ASSUME NEW r \in Route, NEW for \in {"edit", "duplicate"}, Take(r, for)
      PROVE  FormInv'
  BY <1>1, TripFormAssumption DEF FormTypeOK, FormInv, FormAgrees, AskedPicks, Picking, Take, Mixed
<1>2. CASE OpenCreate
  BY <1>2, TripFormAssumption DEF FormTypeOK, FormInv, FormAgrees, AskedPicks, Picking, OpenCreate
<1>3. ASSUME NEW p \in Pick, RoutesLoaded(p)
      PROVE  FormInv'
  BY <1>3 DEF FormTypeOK, FormInv, FormAgrees, AskedPicks, Picking, RoutesLoaded, SelectRoute, Mixed
<1>4. ASSUME NEW r \in Route, HandleRouteChange(r)
      PROVE  FormInv'
  BY <1>4 DEF FormTypeOK, FormInv, FormAgrees, AskedPicks, Picking, HandleRouteChange, SelectRoute, Mixed
<1>5. CASE ToggleStop
  BY <1>5 DEF FormTypeOK, FormInv, FormAgrees, AskedPicks, Picking, ToggleStop
<1>6. ASSUME NEW p \in Pick, TemplateLoaded(p)
      PROVE  FormInv'
  BY <1>6, TripFormAssumption DEF FormTypeOK, FormInv, FormAgrees, AskedPicks, Picking, TemplateLoaded, GoesOn, NoPick
<1>7. ASSUME NEW p \in Pick, TemplateFails(p)
      PROVE  FormInv'
  BY <1>7, TripFormAssumption DEF FormTypeOK, FormInv, FormAgrees, AskedPicks, Picking, TemplateFails, GoesOn, NoPick
<1>8. CASE Leave
  BY <1>8 DEF FormTypeOK, FormInv, FormAgrees, AskedPicks, Picking, Leave, Unmount, NoPick
<1>9. CASE OnSubmit \/ SubmitFails
  BY <1>9 DEF FormTypeOK, FormInv, FormAgrees, AskedPicks, Picking, OnSubmit, SubmitFails
<1>10. CASE Submitted
  BY <1>10 DEF FormTypeOK, FormInv, FormAgrees, AskedPicks, Picking, Submitted, Unmount, NoPick
<1> QED
  BY <1>1, <1>2, <1>3, <1>4, <1>5, <1>6, <1>7, <1>8, <1>9, <1>10
     DEF FormNext, SetEditingTrip, SetDuplicateTemplate

-----------------------------------------------------------------------------
(* A list page *)

Query0 == Query \cup {NoQuery}
Rows == [Item -> State \cup {"absent"}]
FetchState == [at : {"idle", "asked", "read"}, query : Query0, rows : Rows]
CallState == [at : {"idle", "sent", "done", "refused"}, what : State \cup {"gone", "export", "pretended"},
              on : SUBSET Item, by : {"page", "batch", "modal", "create"}]

Asked(q) == [NoFetch EXCEPT !.at = "asked", !.query = q]

LEMMA NoTypes ==
    /\ NoFetch \in FetchState /\ NoCall \in CallState
    /\ \A q \in Query0 : Asked(q) \in FetchState
<1>1. [i \in Item |-> "absent"] \in Rows
  BY DEF Rows
<1>2. NoFetch \in FetchState /\ NoCall \in CallState
  BY <1>1 DEF FetchState, CallState, NoFetch, NoCall, Query0, State
<1>3. \A q \in Query0 : Asked(q) \in FetchState
  BY <1>1 DEF FetchState, Asked, NoFetch
<1> QED
  BY <1>2, <1>3

LEMMA FetchType ==
    ASSUME ListsTypeOK
    PROVE  /\ fetch \in [Fetch -> FetchState]
           /\ call \in [Call -> CallState]
           /\ NoFetch \in FetchState /\ NoCall \in CallState
           /\ \A q \in Query0 : Asked(q) \in FetchState
  BY NoTypes DEF ListsTypeOK, FetchState, CallState, Rows, Query0

\* No list has what is not in a state of an item.
LEMMA ShownType ==
    ASSUME ListsTypeOK, NEW q \in Query0
    PROVE  /\ Shown(q) \in Rows
           /\ \A i \in Item : item[i] = "new" => Shown(q)[i] = "absent"
<1>1. ASSUME NEW i \in Item, q # NoQuery, <<i, item[i]>> \in Listed[view][q]
      PROVE  item[i] \in State
  <2>1. Listed[view][q] \subseteq Item \X State
    BY <1>1, ListedAssumption DEF ListsTypeOK, Query0
  <2> QED
    BY <1>1, <2>1
<1>2. Shown(q) \in Rows
  BY <1>1 DEF Shown, Rows
<1> QED
  BY <1>1, <1>2 DEF Shown, State

\* What a fetch that begins alone does.
LEMMA AskOne ==
    ASSUME ListsTypeOK, NEW q \in Query0, Ask(q)
    PROVE  \E f \in Fetch \ InFlight :
             /\ fetch' = [fetch EXCEPT ![f] = Asked(q)]
             /\ loading' = TRUE
             /\ doubt' = (InFlight # {} \/ (doubt /\ \E c \in Call : call'[c].at # "idle"))
<1>1. PICK p \in [{q} -> FetchSlots[view] \ InFlight] :
        /\ fetch' = [f \in Fetch |-> IF \E r \in {q} : p[r] = f
                                     THEN [NoFetch EXCEPT !.at = "asked",
                                                          !.query = CHOOSE r \in {q} : p[r] = f]
                                     ELSE fetch[f]]
        /\ loading' = TRUE
        /\ doubt' = \/ InFlight # {} \/ Cardinality({q}) > 1
                    \/ doubt /\ \E c \in Call : call'[c].at # "idle"
  BY DEF Ask, AskAll
<1>2. p[q] \in Fetch \ InFlight
  BY <1>1, ListsAssumption DEF ListsTypeOK
<1>3. Cardinality({q}) = 1
  BY FS_Singleton
<1>4. \A f \in Fetch : (\E r \in {q} : p[r] = f) => (CHOOSE r \in {q} : p[r] = f) = q
  OBVIOUS
<1>5. fetch' = [fetch EXCEPT ![p[q]] = Asked(q)]
  BY <1>1, <1>2, <1>4 DEF ListsTypeOK, Asked
<1>6. doubt' = (InFlight # {} \/ (doubt /\ \E c \in Call : call'[c].at # "idle"))
  <2>1. ~(Cardinality({q}) > 1)
    BY <1>3
  <2> QED
    BY <1>1, <2>1, Zenon
<1> QED
  BY <1>1, <1>2, <1>5, <1>6

\* Two that begin together may overtake each other.
LEMMA AskTwo ==
    ASSUME ListsTypeOK, NEW q \in Query, AskAll({NoQuery, q})
    PROVE  /\ fetch' \in [Fetch -> FetchState]
           /\ \A f \in Fetch : fetch'[f] = fetch[f] \/ fetch'[f].rows = NoFetch.rows
           /\ \E f \in Fetch : fetch'[f].at = "asked"
           /\ loading' = TRUE
           /\ doubt' = TRUE
<1> DEFINE qs == {NoQuery, q}
<1>1. PICK p \in [qs -> FetchSlots[view] \ InFlight] :
        /\ fetch' = [f \in Fetch |-> IF \E r \in qs : p[r] = f
                                     THEN [NoFetch EXCEPT !.at = "asked",
                                                          !.query = CHOOSE r \in qs : p[r] = f]
                                     ELSE fetch[f]]
        /\ loading' = TRUE
        /\ doubt' = \/ InFlight # {} \/ Cardinality(qs) > 1
                    \/ doubt /\ \E c \in Call : call'[c].at # "idle"
  BY DEF AskAll
<1>2. Cardinality(qs) = 2
  <2>1. Cardinality({q}) = 1 /\ IsFiniteSet({q})
    BY FS_Singleton
  <2>2. Cardinality({q} \cup {NoQuery}) = 2
    <3>1. NoQuery \notin {q}
      BY ListsAssumption
    <3>2. Cardinality({q} \cup {NoQuery}) = Cardinality({q}) + 1
      BY <2>1, <3>1, FS_AddElement
    <3> QED
      BY <2>1, <3>2
  <2> QED
    BY <2>2
<1>3. \A f \in Fetch : (\E r \in qs : p[r] = f) => (CHOOSE r \in qs : p[r] = f) \in qs
  OBVIOUS
<1>4. qs \subseteq Query0
  BY DEF Query0
<1>5. \A f \in Fetch : fetch'[f] = fetch[f] \/ \E r \in Query0 : fetch'[f] = Asked(r)
  BY <1>1, <1>3, <1>4 DEF Asked
<1>6. fetch' \in [Fetch -> FetchState]
  <2>1. DOMAIN fetch' = Fetch /\ fetch' = [f \in Fetch |-> fetch'[f]]
    BY <1>1
  <2> QED
    BY <2>1, <1>5, FetchType
<1>7. \A f \in Fetch : fetch'[f] = fetch[f] \/ fetch'[f].rows = NoFetch.rows
  BY <1>5 DEF Asked, NoFetch
<1>8. p[q] \in Fetch
  BY <1>1, ListsAssumption DEF ListsTypeOK
<1>9. fetch'[p[q]].at = "asked"
  BY <1>1, <1>8 DEF NoFetch
<1>10. loading' = TRUE /\ doubt' = TRUE
  <2>1. Cardinality(qs) > 1
    BY <1>2
  <2> QED
    BY <1>1, <2>1, Zenon
<1> QED
  BY <1>6, <1>7, <1>8, <1>9, <1>10

\* What the start of a change does.
LEMMA StartOne ==
    ASSUME ListsTypeOK, NEW what, NEW on, NEW by, Start(what, on, by)
    PROVE  /\ \E c \in Call :
                /\ call[c].at = "idle"
                /\ call' = [call EXCEPT ![c] = [at |-> "sent", what |-> what, on |-> on, by |-> by]]
           /\ changes' \in 0 .. MaxChange
<1>1. \E c \in Call :
        /\ call[c].at = "idle"
        /\ call' = [call EXCEPT ![c] = [at |-> "sent", what |-> what, on |-> on, by |-> by]]
  BY ListsAssumption DEF ListsTypeOK, Start, Changing
<1>2. changes' \in 0 .. MaxChange
  BY ListsAssumption DEF ListsTypeOK, Start
<1> QED
  BY <1>1, <1>2

\* The invariant of the pages, without that of the form.
PagesInv ==
    ListsTypeOK /\ TripsTypeOK /\ ChangeInv /\ CreateInv /\ CancelInv /\ BatchInv /\ LoadingMeansFetch /\ RowsInv

Done(c) == call[c].at = "done" /\ ~(call[c].what = "export" /\ call[c].by = "batch")

\* The rows are owed the same as long as the same changes are done.
LEMMA SameDebts ==
    ASSUME ChangeInv, ChangeInv', UNCHANGED <<view, item>>,
           \A c \in Call : Done(c) \/ Done(c)' => call'[c] = call[c]
    PROVE  /\ Owed' <=> Owed
           /\ \A c \in Call : (Replaces(c)' <=> Replaces(c)) /\ (Replaces(c) => call'[c] = call[c])
           /\ \A i \in Item : Awaited(i)' <=> Awaited(i)
           /\ \A q : Shown(q)' = Shown(q)
<1>1. ASSUME NEW c \in Call
      PROVE  (Replaces(c)' <=> Replaces(c)) /\ (Replaces(c) => call'[c] = call[c])
  BY <1>1 DEF ChangeInv, Done, Replaces
<1>2. Owed' <=> Owed
  BY <1>1 DEF ChangeInv, Done, Owed
<1>3. \A i \in Item : Awaited(i)' <=> Awaited(i)
  BY <1>1 DEF Awaited
<1>4. \A q : Shown(q)' = Shown(q)
  BY DEF Shown
<1> QED
  BY <1>1, <1>2, <1>3, <1>4

\* A step that touches neither the items nor the list.
LEMMA Quiet ==
    ASSUME ChangeInv, ChangeInv', UNCHANGED <<view, item, query, table, fetch, doubt>>,
           \A c \in Call : Done(c) \/ Done(c)' => call'[c] = call[c],
           RowsInv
    PROVE  RowsInv'
<1>1. /\ Owed' <=> Owed
      /\ \A c \in Call : (Replaces(c)' <=> Replaces(c)) /\ (Replaces(c) => call'[c] = call[c])
      /\ \A i \in Item : Awaited(i)' <=> Awaited(i)
      /\ \A q : Shown(q)' = Shown(q)
  BY SameDebts
<1>2. InFlight' = InFlight /\ Target' = Target
  BY DEF InFlight, Target
<1>3. SUFFICES ASSUME view # "form", ~doubt
               PROVE  /\ \A f, g \in InFlight : f = g
                      /\ InFlight = {} => \E q \in Target : GoodTable(q)'
                      /\ \A f \in InFlight :
                           /\ fetch[f].query \in Target
                           /\ fetch[f].at = "read" => Good(fetch[f].rows, fetch[f].query)'
                      /\ \A c \in Call : Replaces(c) =>
                           \A i \in call[c].on :
                             \/ call[c].what \in {item[i], "pretended"}
                             \/ \E d \in Call \ {c} : Replaces(d) /\ i \in call[d].on
  BY <1>1, <1>2 DEF RowsInv
<1>4. ASSUME NEW q \in Target, GoodTable(q)
      PROVE  GoodTable(q)'
  BY <1>1, <1>4 DEF GoodTable, RowAgrees
<1>5. ASSUME NEW f \in InFlight, Good(fetch[f].rows, fetch[f].query)
      PROVE  Good(fetch[f].rows, fetch[f].query)'
  BY <1>1, <1>5 DEF Good
<1> QED
  BY <1>3, <1>4, <1>5 DEF RowsInv

-----------------------------------------------------------------------------
(* The start of a change *)

\* A step that creates nothing.
LEMMA CreatesOn ==
    ASSUME ListsTypeOK, ChangeInv, CreateInv, UNCHANGED <<view, item>>,
           \A c \in Call :
             \/ call'[c] = NoCall
             \/ /\ call'[c].on = call[c].on /\ call'[c].by = call[c].by
                /\ call[c].at # "idle" \/ call'[c].at = "idle"
                /\ call'[c].at = "sent" => call[c].at = "sent"
             \/ view = "trips" /\ call'[c].by = "batch"
    PROVE  CreateInv'
<1>1. SUFFICES ASSUME NEW c \in Call, call'[c].at = "sent", call'[c].by = "create",
                      NEW i \in call'[c].on
               PROVE  item[i] = "new" /\ \A d \in Changing' \ {c} : i \notin call'[d].on
  BY DEF CreateInv
<1>2. /\ call'[c].on = call[c].on /\ call'[c].by = call[c].by /\ call[c].at = "sent"
  BY <1>1 DEF NoCall
<1>3. item[i] = "new" /\ view # "trips" /\ \A d \in Changing \ {c} : i \notin call[d].on
  <2>1. i \in Item
    BY <1>1, <1>2, FetchType DEF CallState
  <2> QED
    BY <1>1, <1>2, <2>1 DEF CreateInv, ChangeInv
<1>4. ASSUME NEW d \in Changing' \ {c}
      PROVE  i \notin call'[d].on
  BY <1>3, <1>4 DEF Changing, NoCall
<1> QED
  BY <1>3, <1>4

LEMMA Starts ==
    ASSUME PagesInv,
           NEW what \in State \cup {"gone", "export", "pretended"}, NEW on \in SUBSET Item,
           NEW by \in {"page", "batch", "modal", "create"},
           Start(what, on, by), UNCHANGED <<view, server, list, doubt>>, TripsTypeOK',
           what = "gone" => view \in {"users", "trips"},
           what = "export" => by = "batch",
           view \in {"users", "gateway"} => by \in {"page", "create"},
           by = "create" =>
             \A i \in on : item[i] = "new" /\ \A c \in Changing : i \notin call[c].on,
           \A i \in on : item[i] = "new" => by = "create",
           agreed \subseteq agreed', batch'.todo \subseteq agreed',
           what = "cancelled" => on \subseteq agreed',
           IF by = "batch" /\ what = "cancelled"
           THEN batch.ids = {} /\ batch'.ids # {} /\ batch'.ids \subseteq batch'.todo \cup on
           ELSE batch' = batch
    PROVE  PagesInv'
<1> DEFINE rec == [at |-> "sent", what |-> what, on |-> on, by |-> by]
<1> USE DEF PagesInv
<1>1. PICK c \in Call : call[c].at = "idle" /\ call' = [call EXCEPT ![c] = rec]
  BY StartOne
<1>2. call'[c] = rec /\ \A d \in Call \ {c} : call'[d] = call[d]
  BY <1>1 DEF ListsTypeOK
<1>3. ListsTypeOK'
  <2>1. rec \in CallState
    BY DEF CallState
  <2>2. call' \in [Call -> CallState]
    BY <1>1, <2>1, FetchType
  <2>3. changes' \in 0 .. MaxChange
    BY StartOne
  <2> QED
    BY <2>2, <2>3 DEF ListsTypeOK, CallState, server, list
<1>4. ChangeInv'
  BY <1>1, <1>2 DEF ChangeInv, server, list
<1>9. CreateInv'
  <2>1. Changing' = Changing \cup {c}
    BY <1>1, <1>2 DEF Changing
  <2>2. ASSUME NEW d \in Call \ {c}, call[d].at = "sent", call[d].by = "create",
               NEW i \in call[d].on
        PROVE  item[i] = "new" /\ \A e \in Changing' \ {d} : i \notin call'[e].on
    <3>1. item[i] = "new" /\ d \in Changing /\ \A e \in Changing \ {d} : i \notin call[e].on
      BY <2>2 DEF CreateInv, Changing
    <3>2. i \notin on
      BY <3>1
    <3> QED
      BY <1>2, <2>1, <3>1, <3>2 DEF Changing
  <2>3. ASSUME by = "create", NEW i \in on
        PROVE  item[i] = "new" /\ \A e \in Changing' \ {c} : i \notin call'[e].on
    BY <1>2, <2>1, <2>3 DEF Changing
  <2> QED
    BY <1>2, <2>2, <2>3 DEF CreateInv, server
<1>5. CancelInv'
  BY <1>1, <1>2 DEF CancelInv, server
<1>6. BatchInv'
  <2>1. CASE by = "batch" /\ what = "cancelled"
    <3>1. BatchCalls = {}
      BY <2>1 DEF BatchInv
    <3>2. BatchCalls' \subseteq {c}
      BY <1>2, <3>1 DEF BatchCalls, Changing
    <3> QED
      BY <1>2, <2>1, <3>2 DEF BatchInv, server
  <2>2. CASE ~(by = "batch" /\ what = "cancelled")
    <3>1. BatchCalls' \subseteq BatchCalls \ {c}
      BY <1>1, <1>2, <2>2 DEF BatchCalls, Changing
    <3>2. \A d \in BatchCalls' : d \in BatchCalls /\ call'[d] = call[d]
      BY <1>2, <3>1 DEF BatchCalls, Changing
    <3>3. batch' = batch /\ refunded' = refunded
      BY <2>2 DEF server
    <3>4. \A d \in BatchCalls' :
            /\ batch'.ids # {}
            /\ batch'.ids \subseteq refunded' \cup batch'.failed \cup batch'.todo \cup call'[d].on
      BY <3>2, <3>3 DEF BatchInv
    <3>5. \A d \in Call :
            call'[d].at = "done" /\ call'[d].what = "cancelled" => call'[d].on \subseteq refunded'
      BY <1>2, <3>3 DEF BatchInv
    <3> QED
      BY <3>2, <3>4, <3>5 DEF BatchInv
  <2> QED
    BY <2>1, <2>2
<1>7. LoadingMeansFetch'
  BY DEF LoadingMeansFetch, InFlight, list
<1>8. RowsInv'
  <2>1. \A d \in Call : Done(d) \/ Done(d)' => call'[d] = call[d]
    BY <1>1, <1>2 DEF Done
  <2> QED
    BY <1>4, <2>1, Quiet DEF server, list
<1> QED
  BY <1>3, <1>4, <1>5, <1>6, <1>7, <1>8, <1>9

LEMMA UserChanges ==
    ASSUME PagesInv, NEW i \in Item, UNCHANGED trips,
           \/ ChangeUser(i) \/ RejectUser(i) \/ DeleteUser(i) \/ CreateUser(i)
           \/ VerifyTransaction(i) \/ SaveConfig(i)
    PROVE  PagesInv'
<1>1. TripsTypeOK' /\ batch' = batch /\ agreed' = agreed /\ batch'.todo \subseteq agreed'
  BY DEF PagesInv, TripsTypeOK, CancelInv, trips
<1>2. CASE ChangeUser(i)
  <2>1. PICK what \in {"plain", "forced"} : Start(what, {i}, "page")
    BY <1>2 DEF ChangeUser
  <2>2. item[i] # "new"
    BY <1>2 DEF PagesInv, ChangeInv, ChangeUser, UserShown
  <2> QED
    BY <1>1, <1>2, <2>1, <2>2, Starts DEF ChangeUser, State
<1>7. CASE RejectUser(i)
  <2>1. item[i] # "new"
    BY <1>7 DEF PagesInv, ChangeInv, RejectUser, UserShown
  <2> QED
    BY <1>1, <1>7, <2>1, Starts DEF RejectUser
<1>3. CASE DeleteUser(i)
  <2>1. item[i] # "new" /\ view = "users"
    BY <1>3 DEF PagesInv, ChangeInv, DeleteUser, UserShown
  <2> QED
    BY <1>1, <1>3, <2>1, Starts DEF DeleteUser, State
<1>4. CASE CreateUser(i)
  BY <1>1, <1>4, Starts DEF CreateUser, State
<1>5. CASE VerifyTransaction(i)
  <2>1. item[i] # "new"
    BY <1>5 DEF PagesInv, ChangeInv, VerifyTransaction, PaymentShown
  <2>2. PICK what \in {"forced", "pretended"} : Start(what, {i}, "page")
    BY <1>5 DEF VerifyTransaction
  <2> QED
    BY <1>1, <1>5, <2>1, <2>2, Starts DEF VerifyTransaction, State
<1>6. CASE SaveConfig(i)
  <2>1. item[i] # "new"
    BY <1>6 DEF PagesInv, ChangeInv, SaveConfig
  <2> QED
    BY <1>1, <1>6, <2>1, Starts DEF SaveConfig, State
<1> QED
  BY <1>2, <1>3, <1>4, <1>5, <1>6, <1>7

LEMMA TripChanges ==
    ASSUME PagesInv, view = "trips",
           \/ BatchStatus \/ BatchExport \/ BatchCancel
           \/ \E i \in Item : ForceStatus(i)
           \/ HandleCancelConfirm \/ HandleDeleteConfirm
    PROVE  PagesInv'
<1> USE DEF PagesInv
<1>1. \A i \in Item : item[i] # "new"
  BY DEF ChangeInv
<1>2. selected \in SUBSET Item /\ modal.trip \in SUBSET Item
  BY DEF TripsTypeOK
<1>3. UNCHANGED trips => /\ TripsTypeOK' /\ batch' = batch
                         /\ agreed' = agreed /\ batch'.todo \subseteq agreed'
  BY DEF TripsTypeOK, CancelInv, trips
<1>4. CASE BatchStatus
  BY <1>1, <1>2, <1>3, <1>4, Starts DEF BatchStatus, Same, State
<1>5. CASE BatchExport
  BY <1>1, <1>2, <1>3, <1>5, Starts DEF BatchExport, Same, State
<1>6. CASE BatchCancel
  <2>1. PICK i \in selected :
          /\ Start("cancelled", {i}, "batch")
          /\ batch' = [ids |-> selected, todo |-> selected \ {i}, failed |-> {}]
    BY <1>6 DEF BatchCancel
  <2>2. agreed' = agreed \cup selected /\ UNCHANGED <<hidden, selected, modal>>
    BY <1>6 DEF BatchCancel
  <2>3. TripsTypeOK'
    BY <2>1, <2>2 DEF TripsTypeOK
  <2>4. /\ batch'.todo \subseteq agreed' /\ {i} \subseteq agreed' /\ agreed \subseteq agreed'
        /\ batch'.ids # {} /\ batch'.ids \subseteq batch'.todo \cup {i}
    BY <2>1, <2>2
  <2>5. batch.ids = {} /\ UNCHANGED <<view, server, list, doubt>>
    BY <1>6 DEF BatchCancel, CanBatch, Same
  <2>6. {i} \in SUBSET Item
    BY <1>2
  <2> QED
    BY <1>1, <2>1, <2>3, <2>4, <2>5, <2>6, Starts DEF State
<1>7. ASSUME NEW i \in Item, ForceStatus(i)
      PROVE  PagesInv'
  <2>1. PICK s \in {"plain", "forced"} : Start(s, {i}, "page")
    BY <1>7 DEF ForceStatus
  <2> QED
    BY <1>1, <1>3, <1>7, <2>1, Starts DEF ForceStatus, Same, State
<1>8. CASE HandleCancelConfirm
  <2>1. /\ TripsTypeOK' /\ batch' = batch /\ agreed \subseteq agreed' /\ modal.trip \subseteq agreed'
        /\ batch'.todo \subseteq agreed'
    BY <1>2, <1>8 DEF HandleCancelConfirm, TripsTypeOK, CancelInv
  <2> QED
    BY <1>1, <1>2, <1>8, <2>1, Starts DEF HandleCancelConfirm, Same, State
<1>9. CASE HandleDeleteConfirm
  BY <1>1, <1>2, <1>3, <1>9, Starts DEF HandleDeleteConfirm, Same, State
<1> QED
  BY <1>4, <1>5, <1>6, <1>7, <1>8, <1>9

\* The table, the selection and the dialogs.
LEMMA LocalSteps ==
    ASSUME PagesInv, UNCHANGED <<view, server, list, doubt, call, changes, batch, agreed>>,
           TripsTypeOK'
    PROVE  PagesInv'
<1> USE DEF PagesInv, server, list
<1>1. ListsTypeOK'
  BY DEF ListsTypeOK
<1>2. ChangeInv' /\ CancelInv' /\ LoadingMeansFetch'
  BY DEF ChangeInv, CancelInv, LoadingMeansFetch, InFlight
<1>3. BatchInv'
  BY DEF BatchInv, BatchCalls, Changing
<1>5. CreateInv'
  BY DEF CreateInv, Changing
<1>4. RowsInv'
  BY <1>2, Quiet
<1> QED
  BY <1>1, <1>2, <1>3, <1>4, <1>5

LEMMA TripSelections ==
    ASSUME PagesInv,
           \/ \E h \in Filters : Search(h) \/ FilterStatus(h)
           \/ \E i \in Item : ToggleSelectOne(i) \/ HandleCancelClick(i) \/ HandleDeleteClick(i)
           \/ ToggleSelectAll \/ CloseModal
    PROVE  PagesInv'
<1>1. TripsTypeOK
  BY DEF PagesInv
<1>2. ASSUME NEW h \in Filters, Search(h) \/ FilterStatus(h)
      PROVE  PagesInv'
  <2>1. TripsTypeOK'
    BY <1>1, <1>2, TripsAssumption DEF TripsTypeOK, Search, FilterStatus
  <2> QED
    BY <1>2, <2>1, LocalSteps DEF Search, FilterStatus, Same
<1>3. ASSUME NEW i \in Item, ToggleSelectOne(i) \/ HandleCancelClick(i) \/ HandleDeleteClick(i)
      PROVE  PagesInv'
  <2>1. TripsTypeOK'
    BY <1>1, <1>3 DEF TripsTypeOK, ToggleSelectOne, HandleCancelClick, HandleDeleteClick
  <2> QED
    BY <1>3, <2>1, LocalSteps DEF ToggleSelectOne, HandleCancelClick, HandleDeleteClick, Same
<1>4. CASE ToggleSelectAll
  <2>1. TripsTypeOK'
    BY <1>1, <1>4 DEF TripsTypeOK, ToggleSelectAll, Filtered
  <2> QED
    BY <1>4, <2>1, LocalSteps DEF ToggleSelectAll, Same
<1>5. CASE CloseModal
  <2>1. TripsTypeOK'
    BY <1>1, <1>5 DEF TripsTypeOK, CloseModal, NoModal
  <2> QED
    BY <1>5, <2>1, LocalSteps DEF CloseModal, Same
<1> QED
  BY <1>2, <1>3, <1>4, <1>5

-----------------------------------------------------------------------------
(* The beginning of a fetch *)

LEMMA AskRows ==
    ASSUME ListsTypeOK, RowsInv, UNCHANGED <<view, item>>,
           NEW q \in Query0, Ask(q), q \in Target',
           \A c \in Call : Replaces(c) \/ Replaces(c)' => call'[c] = call[c]
    PROVE  RowsInv'
<1>1. PICK f \in Fetch \ InFlight :
        /\ fetch' = [fetch EXCEPT ![f] = Asked(q)]
        /\ doubt' = (InFlight # {} \/ (doubt /\ \E c \in Call : call'[c].at # "idle"))
  BY AskOne
<1>2. SUFFICES ASSUME view # "form", ~doubt'
               PROVE  RowsInv'
  BY DEF RowsInv
<1>3. InFlight = {} /\ (doubt => \A c \in Call : call'[c].at = "idle")
  BY <1>1, <1>2
<1>4. fetch'[f] = Asked(q) /\ \A g \in Fetch \ {f} : fetch'[g] = fetch[g]
  BY <1>1 DEF ListsTypeOK
<1>5. InFlight' = {f}
  BY <1>3, <1>4 DEF InFlight, Asked, NoFetch
<1>6. fetch'[f].query = q /\ fetch'[f].at = "asked"
  BY <1>4 DEF Asked, NoFetch
<1>7. ASSUME NEW c \in Call, Replaces(c)', NEW i \in call'[c].on
      PROVE  call'[c].what \in {item'[i], "pretended"} \/ \E d \in Call \ {c} : Replaces(d)' /\ i \in call'[d].on
  <2>1. call'[c] = call[c] /\ Replaces(c) /\ ~doubt
    BY <1>3, <1>7 DEF Replaces
  <2>2. call[c].what \in {item[i], "pretended"} \/ \E d \in Call \ {c} : Replaces(d) /\ i \in call[d].on
    BY <1>2, <1>7, <2>1 DEF RowsInv
  <2>3. \A d \in Call : Replaces(d) => Replaces(d)' /\ call'[d] = call[d]
    BY DEF Replaces
  <2> QED
    BY <2>1, <2>2, <2>3
<1> QED
  BY <1>5, <1>6, <1>7 DEF RowsInv

\* A fetch that begins alone, whatever else the step does to the changes.
LEMMA Asks ==
    ASSUME PagesInv, NEW q \in Query0, Ask(q), q \in Target', query' \in Query0,
           UNCHANGED <<view, server, table, changes>>,
           call' \in [Call -> CallState], TripsTypeOK', ChangeInv', CreateInv', CancelInv', BatchInv',
           \A c \in Call : Replaces(c) \/ Replaces(c)' => call'[c] = call[c]
    PROVE  PagesInv'
<1> USE DEF PagesInv, server
<1>1. PICK f \in Fetch \ InFlight :
        /\ fetch' = [fetch EXCEPT ![f] = Asked(q)]
        /\ loading' = TRUE
        /\ doubt' \in BOOLEAN
  BY AskOne
<1>2. ListsTypeOK'
  <2>1. fetch' \in [Fetch -> FetchState]
    BY <1>1, FetchType
  <2> QED
    BY <1>1, <2>1 DEF ListsTypeOK, FetchState, CallState, Query0, Rows
<1>3. LoadingMeansFetch'
  <2>1. f \in InFlight'
    BY <1>1 DEF ListsTypeOK, InFlight, Asked, NoFetch
  <2> QED
    BY <2>1 DEF LoadingMeansFetch
<1>4. RowsInv'
  BY AskRows
<1> QED
  BY <1>2, <1>3, <1>4

\* What a fetch may bring does not yet matter to the changes.
LEMMA AskChanges ==
    ASSUME ListsTypeOK, ChangeInv, NEW q \in Query0, Ask(q), UNCHANGED <<view, item, rows>>,
           \A c \in Call : \/ call'[c] = call[c]
                           \/ call'[c] = NoCall
                           \/ view = "trips" /\ call'[c].what = call[c].what
                                             /\ call'[c].by = "batch" /\ call[c].by = "batch"
    PROVE  ChangeInv'
<1>1. PICK f \in Fetch : fetch' = [fetch EXCEPT ![f] = Asked(q)]
  BY AskOne
<1>2. \A g \in Fetch, i \in Item : fetch'[g].rows[i] \in {fetch[g].rows[i], "absent"}
  BY <1>1 DEF ListsTypeOK, Asked, NoFetch
<1>3. ASSUME NEW i \in Item, item[i] = "new", NEW g \in Fetch
      PROVE  fetch'[g].rows[i] = "absent"
  BY <1>2, <1>3 DEF ChangeInv
<1>4. ASSUME NEW c \in Call
      PROVE  /\ call'[c].what = "gone" => view \in {"users", "trips"}
             /\ call'[c].what = "export" => call'[c].by = "batch"
             /\ view \in {"users", "gateway"} => call'[c].by \in {"page", "create"}
             /\ \A i \in Item : item[i] = "new" /\ i \in call'[c].on => call'[c].by = "create"
  BY <1>4 DEF ChangeInv, NoCall
<1> QED
  BY <1>3, <1>4 DEF ChangeInv

LEMMA OtherQueries ==
    ASSUME PagesInv, UNCHANGED trips, NEW r \in Query0, r = query',
           UNCHANGED <<view, server, table, call, changes>>, Ask(r)
    PROVE  PagesInv'
<1> USE DEF PagesInv, server, trips
<1>1. TripsTypeOK' /\ CreateInv' /\ CancelInv' /\ BatchInv'
  BY DEF TripsTypeOK, CreateInv, CancelInv, BatchInv, BatchCalls, Changing
<1>2. ChangeInv'
  BY AskChanges
<1>3. r \in Target' /\ call' \in [Call -> CallState]
  BY FetchType DEF Target
<1> QED
  BY <1>1, <1>2, <1>3, Asks

LEMMA ListQueries ==
    ASSUME PagesInv, UNCHANGED trips,
           \/ \E q \in Query : \/ SetWeek(q) \/ SetFilters(q) \/ SetDateRange(q) \/ TicketPage(q)
                               \/ LedgerPage(q) \/ LogPage(q) \/ HistoryWeek(q) \/ OpenLogs(q)
           \/ UserPage \/ Refresh \/ Interval \/ Rerender
    PROVE  PagesInv'
<1>1. ASSUME NEW q \in Query, Choose(q)
      PROVE  PagesInv'
  BY <1>1, OtherQueries DEF Choose, Query0
<1>2. CASE Again
  <2>1. query \in Query0
    BY DEF PagesInv, ListsTypeOK, Query0
  <2> QED
    BY <1>2, <2>1, OtherQueries DEF Again
<1> QED
  BY <1>1, <1>2
     DEF SetWeek, SetFilters, SetDateRange, TicketPage, LedgerPage, LogPage, HistoryWeek, OpenLogs,
         UserPage, Refresh, Interval, Rerender

\* Two fetches at once leave the rows in doubt.
LEMMA Restarts ==
    ASSUME PagesInv, UNCHANGED trips, NEW q \in Query, TicketFilter(q) \/ LedgerFilter(q)
    PROVE  PagesInv'
<1> USE DEF PagesInv, server, trips, TicketFilter, LedgerFilter, Restart
<1>1. /\ fetch' \in [Fetch -> FetchState]
      /\ \A f \in Fetch : fetch'[f] = fetch[f] \/ fetch'[f].rows = NoFetch.rows
      /\ \E f \in Fetch : fetch'[f].at = "asked"
      /\ loading' = TRUE
      /\ doubt' = TRUE
  BY AskTwo
<1>2. ListsTypeOK'
  BY <1>1 DEF ListsTypeOK, FetchState, Query0, Rows
<1>3. TripsTypeOK' /\ CreateInv' /\ CancelInv' /\ BatchInv'
  BY DEF TripsTypeOK, CreateInv, CancelInv, BatchInv, BatchCalls, Changing
<1>4. ChangeInv'
  <2>1. \A i \in Item : NoFetch.rows[i] = "absent"
    BY DEF NoFetch
  <2>2. \A f \in Fetch, i \in Item :
          fetch[f].rows[i] = "absent" => fetch'[f].rows[i] = "absent"
    BY <1>1, <2>1
  <2> QED
    BY <2>2 DEF ChangeInv
<1>5. LoadingMeansFetch'
  BY <1>1 DEF LoadingMeansFetch, InFlight
<1>6. RowsInv'
  BY <1>1 DEF RowsInv
<1> QED
  BY <1>2, <1>3, <1>4, <1>5, <1>6

LEMMA ClosesLogs ==
    ASSUME PagesInv, UNCHANGED trips, CloseLogs
    PROVE  PagesInv'
<1> USE DEF PagesInv, server, trips, CloseLogs
<1>1. ListsTypeOK'
  BY DEF ListsTypeOK
<1>2. TripsTypeOK' /\ CreateInv' /\ CancelInv' /\ BatchInv'
  BY DEF TripsTypeOK, CreateInv, CancelInv, BatchInv, BatchCalls, Changing
<1>3. ChangeInv' /\ LoadingMeansFetch'
  BY DEF ChangeInv, LoadingMeansFetch, InFlight
<1>4. RowsInv'
  <2>1. SUFFICES ASSUME ~doubt' PROVE RowsInv'
    BY DEF RowsInv
  <2>2. InFlight = {} /\ InFlight' = {}
    BY <2>1 DEF InFlight
  <2>3. \A c \in Call : ~Replaces(c)'
    BY DEF Replaces
  <2>4. \A i \in Item : rows'[i] = Shown(NoQuery)'[i]
    BY ListsAssumption DEF Shown
  <2>5. GoodTable(query)' /\ query' \in Target'
    <3>1. \A i \in Item : RowAgrees(i, query)'
      BY <2>4 DEF RowAgrees, ListsTypeOK
    <3> QED
      BY <3>1 DEF GoodTable, Target
  <2> QED
    BY <2>2, <2>3, <2>5 DEF RowsInv
<1> QED
  BY <1>1, <1>2, <1>3, <1>4

LEMMA Refetches ==
    ASSUME PagesInv, UNCHANGED trips, view # "trips", NEW c \in Call, Refetch(c)
    PROVE  PagesInv'
<1> USE DEF PagesInv, server, trips, Refetch
<1>1. query \in Query0 /\ query \in Target'
  BY DEF ListsTypeOK, Query0, Target
<1>2. call' \in [Call -> CallState] /\ call'[c] = NoCall /\ \A d \in Call \ {c} : call'[d] = call[d]
  BY FetchType DEF ListsTypeOK
<1>3. TripsTypeOK' /\ CancelInv'
  BY <1>2 DEF TripsTypeOK, CancelInv, NoCall
<1>4. BatchInv'
  BY <1>2 DEF BatchInv, BatchCalls, Changing, NoCall
<1>5. ChangeInv'
  BY <1>1, <1>2, AskChanges
<1>7. CreateInv'
  BY <1>2, CreatesOn
<1>6. \A d \in Call : Replaces(d) \/ Replaces(d)' => call'[d] = call[d]
  BY <1>2 DEF Replaces, NoCall
<1> QED
  BY <1>1, <1>2, <1>3, <1>4, <1>5, <1>6, <1>7, Asks

-----------------------------------------------------------------------------
(* The answers of the trips page *)

\* The loop of a batch, whose call has been answered or has failed.
LEMMA BatchLoop ==
    ASSUME PagesInv, view = "trips", NEW c \in Call, call[c].at \in {"done", "refused"},
           call[c].by = "batch", call[c].what = "cancelled",
           NEW failed \in SUBSET Item, batch.failed \subseteq failed,
           call[c].on \subseteq refunded \cup failed,
           BatchGoesOn(c, failed), UNCHANGED <<refunded, agreed>>
    PROVE  /\ call' \in [Call -> CallState]
           /\ batch' \in [ids : SUBSET Item, todo : SUBSET Item, failed : SUBSET Item]
           /\ selected' \in SUBSET Item
           /\ CancelInv' /\ BatchInv'
           /\ \A d \in Call \ {c} : call'[d] = call[d]
           /\ call'[c] = NoCall \/ /\ call'[c].what = call[c].what /\ call[c].by = "batch" /\ call'[c].by = "batch"
                                   /\ call'[c].at = "sent"
<1> USE DEF PagesInv
<1>1. c \in BatchCalls /\ BatchCalls \subseteq {c}
  BY DEF BatchCalls, Changing, BatchInv
<1>2. CASE batch.todo = {}
  <2>1. call' = [call EXCEPT ![c] = NoCall] /\ batch' = NoBatch /\ selected' = {}
    BY <1>2 DEF BatchGoesOn
  <2>2. call' \in [Call -> CallState]
    BY <2>1, FetchType
  <2>3. call'[c] = NoCall /\ \A d \in Call \ {c} : call'[d] = call[d]
    BY <2>1 DEF ListsTypeOK
  <2>4. BatchCalls' = {}
    BY <1>1, <2>3 DEF BatchCalls, Changing, NoCall
  <2>5. BatchInv'
    BY <2>3, <2>4 DEF BatchInv, NoCall
  <2>6. CancelInv'
    BY <2>1, <2>3 DEF CancelInv, NoBatch, NoCall
  <2> QED
    BY <2>1, <2>2, <2>3, <2>5, <2>6 DEF NoBatch
<1>3. CASE batch.todo # {}
  <2>1. PICK i \in batch.todo :
          /\ call' = [call EXCEPT ![c].at = "sent", ![c].on = {i}]
          /\ batch' = [batch EXCEPT !.todo = @ \ {i}, !.failed = failed]
          /\ selected' = selected
    BY <1>3 DEF BatchGoesOn
  <2>2. i \in Item /\ i \in agreed
    BY DEF TripsTypeOK, CancelInv
  <2>3. /\ call'[c] = [call[c] EXCEPT !.at = "sent", !.on = {i}]
        /\ \A d \in Call \ {c} : call'[d] = call[d]
    BY <2>1 DEF ListsTypeOK
  <2>4. call'[c].at = "sent" /\ call'[c].on = {i} /\ call'[c].what = "cancelled"
        /\ call'[c].by = "batch"
    BY <2>3, FetchType DEF CallState
  <2>5. call' \in [Call -> CallState]
    BY <2>1, <2>2, FetchType DEF CallState
  <2>6. /\ batch'.ids = batch.ids /\ batch'.todo = batch.todo \ {i} /\ batch'.failed = failed
        /\ batch' \in [ids : SUBSET Item, todo : SUBSET Item, failed : SUBSET Item]
    BY <2>1 DEF TripsTypeOK
  <2>7. BatchCalls' = {c}
    <3>1. c \in BatchCalls'
      BY <2>4 DEF BatchCalls, Changing
    <3>2. ASSUME NEW d \in Call \ {c}, d \in BatchCalls'
          PROVE  d \in BatchCalls
      BY <2>3, <3>2 DEF BatchCalls, Changing
    <3>3. BatchCalls' \subseteq Call
      BY DEF BatchCalls, Changing
    <3> QED
      BY <1>1, <3>1, <3>2, <3>3
  <2>8. /\ batch'.ids # {}
        /\ batch'.ids \subseteq refunded' \cup batch'.failed \cup batch'.todo \cup call'[c].on
    BY <1>1, <2>4, <2>6 DEF BatchInv
  <2>9. BatchInv'
    <3>1. ASSUME NEW d \in Call, call'[d].at = "done", call'[d].what = "cancelled"
          PROVE  call'[d].on \subseteq refunded'
      <4>1. d # c /\ call'[d] = call[d]
        BY <2>3, <2>4, <3>1
      <4>2. call[d].on \subseteq refunded
        BY <3>1, <4>1 DEF BatchInv
      <4> QED
        BY <4>1, <4>2
    <3>2. \A d, e \in BatchCalls' : d = e
      BY <2>7
    <3>3. \A d \in BatchCalls' :
            /\ batch'.ids # {}
            /\ batch'.ids \subseteq refunded' \cup batch'.failed \cup batch'.todo \cup call'[d].on
      BY <2>7, <2>8
    <3> QED
      BY <3>1, <3>2, <3>3 DEF BatchInv
  <2>10. CancelInv'
    BY <2>2, <2>3, <2>4, <2>6 DEF CancelInv
  <2> QED
    BY <2>1, <2>3, <2>4, <2>5, <2>6, <2>9, <2>10 DEF TripsTypeOK
<1> QED
  BY <1>2, <1>3

\* A change that is over leaves the others as they are.
LEMMA CallEnds ==
    ASSUME ListsTypeOK, CancelInv, BatchInv, NEW c \in Call,
           call' = [call EXCEPT ![c] = NoCall], UNCHANGED <<refunded, agreed, batch>>
    PROVE  /\ call' \in [Call -> CallState]
           /\ CancelInv' /\ BatchInv'
           /\ \A d \in Call \ {c} : call'[d] = call[d]
           /\ call'[c] = NoCall
<1>1. call'[c] = NoCall /\ \A d \in Call \ {c} : call'[d] = call[d]
  BY DEF ListsTypeOK
<1>2. BatchCalls' \subseteq BatchCalls /\ \A d \in BatchCalls' : call'[d] = call[d]
  BY <1>1 DEF BatchCalls, Changing, NoCall
<1>3. BatchInv'
  BY <1>1, <1>2 DEF BatchInv, NoCall
<1>4. CancelInv'
  BY <1>1 DEF CancelInv, NoCall
<1> QED
  BY <1>1, <1>3, <1>4, FetchType

LEMMA Answers ==
    ASSUME PagesInv, NEW c \in Call, TripsAnswer(c)
    PROVE  PagesInv'
<1> USE DEF PagesInv, server
<1> DEFINE loops == call[c].by = "batch" /\ call[c].what = "cancelled"
<1>1. /\ view = "trips" /\ call[c].at = "done"
      /\ UNCHANGED <<view, item, refunded, query, table, hidden, agreed, changes>>
      /\ modal' \in {modal, NoModal}
  BY DEF TripsAnswer
<1>2. /\ call' \in [Call -> CallState]
      /\ batch' \in [ids : SUBSET Item, todo : SUBSET Item, failed : SUBSET Item]
      /\ selected' \in SUBSET Item
      /\ CancelInv' /\ BatchInv'
      /\ \A d \in Call \ {c} : call'[d] = call[d]
      /\ call'[c] = NoCall \/ /\ call'[c].what = call[c].what /\ call[c].by = "batch" /\ call'[c].by = "batch"
                              /\ call'[c].at = "sent"
  <2>1. CASE loops
    <3>1. BatchGoesOn(c, batch.failed)
      BY <2>1 DEF TripsAnswer
    <3>2. batch.failed \in SUBSET Item /\ call[c].on \subseteq refunded \cup batch.failed
      BY <1>1, <2>1 DEF TripsTypeOK, BatchInv
    <3> QED
      BY <1>1, <2>1, <3>1, <3>2, BatchLoop
  <2>2. CASE ~loops
    <3>1. /\ call' = [call EXCEPT ![c] = NoCall]
          /\ selected' \in {{}, selected}
          /\ batch' = batch
      BY <2>2 DEF TripsAnswer
    <3> QED
      BY <1>1, <3>1, CallEnds DEF TripsTypeOK
  <2> QED
    BY <2>1, <2>2
<1>3. TripsTypeOK'
  BY <1>1, <1>2 DEF TripsTypeOK, NoModal
<1>6. CreateInv'
  BY <1>1, <1>2, CreatesOn
<1>4. CASE call[c].what = "export"
  <2>1. UNCHANGED <<fetch, loading, doubt>>
    BY <1>4 DEF TripsAnswer
  <2>2. ListsTypeOK'
    BY <1>1, <1>2, <2>1 DEF ListsTypeOK, CallState
  <2>3. ChangeInv'
    BY <1>1, <1>2, <2>1 DEF ChangeInv, NoCall
  <2>4. LoadingMeansFetch'
    BY <1>1, <2>1 DEF LoadingMeansFetch, InFlight
  <2>5. \A d \in Call : Done(d) \/ Done(d)' => call'[d] = call[d]
    BY <1>2, <1>4 DEF Done, NoCall, ChangeInv
  <2>6. RowsInv'
    BY <1>1, <2>1, <2>3, <2>5, Quiet
  <2> QED
    BY <1>2, <1>3, <1>6, <2>2, <2>3, <2>4, <2>6
<1>5. CASE call[c].what # "export"
  <2>1. Ask(ThisWeek)
    BY <1>5 DEF TripsAnswer
  <2>2. ThisWeek \in Query0 /\ ThisWeek \in Target' /\ query' \in Query0
    BY <1>1, ListsAssumption DEF Target, Query0, ListsTypeOK
  <2>3. ChangeInv'
    BY <1>1, <1>2, <2>1, <2>2, AskChanges
  <2>4. \A d \in Call : Replaces(d) \/ Replaces(d)' => call'[d] = call[d]
    BY <1>1 DEF Replaces
  <2> QED
    BY <1>1, <1>2, <1>3, <1>6, <2>1, <2>2, <2>3, <2>4, Asks
<1> QED
  BY <1>4, <1>5

LEMMA Errors ==
    ASSUME PagesInv, NEW c \in Call, TripsError(c)
    PROVE  PagesInv'
<1> USE DEF PagesInv, server, list
<1> DEFINE loops == call[c].by = "batch" /\ call[c].what = "cancelled"
<1>1. /\ view = "trips" /\ call[c].at = "refused"
      /\ UNCHANGED <<view, item, refunded, query, table, fetch, loading, doubt>>
      /\ UNCHANGED <<hidden, modal, agreed, changes>>
  BY DEF TripsError, Same
<1>2. /\ call' \in [Call -> CallState]
      /\ batch' \in [ids : SUBSET Item, todo : SUBSET Item, failed : SUBSET Item]
      /\ selected' \in SUBSET Item
      /\ CancelInv' /\ BatchInv'
      /\ \A d \in Call \ {c} : call'[d] = call[d]
      /\ call'[c] = NoCall \/ /\ call'[c].what = call[c].what /\ call[c].by = "batch" /\ call'[c].by = "batch"
                              /\ call'[c].at = "sent"
  <2>1. CASE loops
    <3>1. BatchGoesOn(c, batch.failed \cup call[c].on)
      BY <2>1 DEF TripsError
    <3>2. batch.failed \cup call[c].on \in SUBSET Item
      BY FetchType DEF TripsTypeOK, CallState
    <3> QED
      BY <1>1, <2>1, <3>1, <3>2, BatchLoop
  <2>2. CASE ~loops
    <3>1. /\ call' = [call EXCEPT ![c] = NoCall]
          /\ selected' \in {{}, selected}
          /\ batch' = batch
      BY <2>2 DEF TripsError
    <3> QED
      BY <1>1, <3>1, CallEnds DEF TripsTypeOK
  <2> QED
    BY <2>1, <2>2
<1>3. TripsTypeOK'
  BY <1>1, <1>2 DEF TripsTypeOK
<1>4. ListsTypeOK'
  BY <1>1, <1>2 DEF ListsTypeOK, CallState
<1>5. ChangeInv'
  BY <1>1, <1>2 DEF ChangeInv, NoCall
<1>8. CreateInv'
  BY <1>1, <1>2, CreatesOn
<1>6. LoadingMeansFetch'
  BY <1>1 DEF LoadingMeansFetch, InFlight
<1>7. RowsInv'
  <2>1. \A d \in Call : Done(d) \/ Done(d)' => call'[d] = call[d]
    BY <1>1, <1>2 DEF Done, NoCall
  <2> QED
    BY <1>1, <1>5, <2>1, Quiet
<1> QED
  BY <1>2, <1>3, <1>4, <1>5, <1>6, <1>7, <1>8

-----------------------------------------------------------------------------
(* The network *)

LEMMA Reads ==
    ASSUME PagesInv, UNCHANGED trips, NEW f \in Fetch, Read(f)
    PROVE  PagesInv'
<1> USE DEF PagesInv, server, trips, Read
<1>1. /\ fetch'[f] = [fetch[f] EXCEPT !.at = "read", !.rows = Shown(fetch[f].query)]
      /\ \A g \in Fetch \ {f} : fetch'[g] = fetch[g]
      /\ fetch[f].at = "asked"
  BY DEF ListsTypeOK
<1>2. fetch'[f].at = "read" /\ fetch'[f].query = fetch[f].query
      /\ fetch'[f].rows = Shown(fetch[f].query)
  BY <1>1, FetchType DEF FetchState
<1>9. fetch[f].query \in Query0
  BY FetchType DEF FetchState
<1>3. ListsTypeOK'
  <2>1. Shown(fetch[f].query) \in Rows
    BY <1>9, ShownType
  <2>2. fetch' \in [Fetch -> FetchState]
    BY <2>1, FetchType DEF FetchState
  <2> QED
    BY <2>2 DEF ListsTypeOK, FetchState, Query0, Rows
<1>4. TripsTypeOK' /\ CreateInv' /\ CancelInv' /\ BatchInv'
  BY DEF TripsTypeOK, CreateInv, CancelInv, BatchInv, BatchCalls, Changing
<1>5. ChangeInv'
  <2>1. ASSUME NEW i \in Item, item[i] = "new", NEW g \in Fetch
        PROVE  fetch'[g].rows[i] = "absent"
    <3>1. Shown(fetch[f].query)[i] = "absent"
      BY <1>9, <2>1, ShownType
    <3> QED
      <4>1. fetch[g].rows[i] = "absent"
        BY <2>1 DEF ChangeInv
      <4>2. g = f \/ fetch'[g] = fetch[g]
        BY <1>1
      <4> QED
        BY <1>2, <3>1, <4>1, <4>2
  <2> QED
    BY <2>1 DEF ChangeInv
<1>6. InFlight' = InFlight /\ f \in InFlight
  BY <1>1, <1>2 DEF InFlight
<1>7. LoadingMeansFetch'
  BY <1>6 DEF LoadingMeansFetch
<1>8. RowsInv'
  <2>1. SUFFICES ASSUME view # "form", ~doubt
                 PROVE  RowsInv'
    BY DEF RowsInv
  <2>2. InFlight = {f} /\ fetch[f].query \in Target /\ Target' = Target
    BY <1>6, <2>1 DEF RowsInv, Target
  <2>3. \A i \in Item : fetch'[f].rows[i] = Shown(fetch[f].query)'[i]
    BY <1>2 DEF Shown
  <2>4. Good(fetch[f].rows, fetch[f].query)'
    BY <1>2, <2>3 DEF Good
  <2>5. \A c \in Call : Replaces(c)' <=> Replaces(c)
    BY DEF Replaces
  <2>6. \A c \in Call : Replaces(c)' =>
          \A i \in call'[c].on :
            call'[c].what \in {item'[i], "pretended"} \/ \E d \in Call \ {c} : Replaces(d)' /\ i \in call'[d].on
    BY <2>1, <2>5 DEF RowsInv
  <2> QED
    BY <1>2, <1>6, <2>2, <2>4, <2>6 DEF RowsInv
<1> QED
  BY <1>3, <1>4, <1>5, <1>7, <1>8

\* One fetch is over.
LEMMA FetchEnds ==
    ASSUME PagesInv, UNCHANGED trips, NEW f \in Fetch, f \in InFlight, Finish(f),
           UNCHANGED <<view, server, query, call, changes>>,
           rows' \in Rows, doubt' \in BOOLEAN,
           mark' \in [Item -> {"listed", "edited", "pretended"}],
           \A i \in Item : rows'[i] \in {rows[i], fetch[f].rows[i], "absent"}
    PROVE  /\ ListsTypeOK' /\ TripsTypeOK' /\ ChangeInv' /\ CreateInv' /\ CancelInv' /\ BatchInv'
           /\ LoadingMeansFetch'
           /\ InFlight' = InFlight \ {f}
<1> USE DEF PagesInv, server, trips, Finish
<1>1. fetch'[f] = NoFetch /\ \A g \in Fetch \ {f} : fetch'[g] = fetch[g]
  BY DEF ListsTypeOK
<1>2. ListsTypeOK'
  <2>1. fetch' \in [Fetch -> FetchState]
    BY FetchType
  <2> QED
    BY <2>1 DEF ListsTypeOK, FetchState, Query0, Rows
<1>3. TripsTypeOK' /\ CreateInv' /\ CancelInv' /\ BatchInv'
  BY DEF TripsTypeOK, CreateInv, CancelInv, BatchInv, BatchCalls, Changing
<1>4. ChangeInv'
  <2>1. \A i \in Item : NoFetch.rows[i] = "absent"
    BY DEF NoFetch
  <2>2. \A g \in Fetch, i \in Item :
          fetch[g].rows[i] = "absent" => fetch'[g].rows[i] = "absent"
    BY <1>1, <2>1
  <2> QED
    BY <2>2 DEF ChangeInv
<1>5. LoadingMeansFetch'
  BY DEF LoadingMeansFetch
<1>6. InFlight' = InFlight \ {f}
  BY <1>1 DEF InFlight, NoFetch
<1> QED
  BY <1>2, <1>3, <1>4, <1>5, <1>6

LEMMA Lands ==
    ASSUME PagesInv, UNCHANGED trips, NEW f \in Fetch, Land(f)
    PROVE  PagesInv'
<1> USE DEF PagesInv, server, trips, Land
<1>1. f \in InFlight /\ fetch[f].rows \in Rows /\ doubt' \in BOOLEAN
  BY FetchType DEF InFlight, FetchState, ListsTypeOK
<1>2. /\ ListsTypeOK' /\ TripsTypeOK' /\ ChangeInv' /\ CreateInv' /\ CancelInv' /\ BatchInv'
      /\ LoadingMeansFetch'
      /\ InFlight' = InFlight \ {f}
  BY <1>1, FetchEnds
<1>3. RowsInv'
  <2>1. SUFFICES ASSUME view # "form", ~doubt
                 PROVE  RowsInv'
    BY DEF RowsInv
  <2>2. InFlight' = {} /\ fetch[f].query \in Target /\ Good(fetch[f].rows, fetch[f].query)
    BY <1>1, <1>2, <2>1 DEF RowsInv
  <2>3. /\ Owed' <=> Owed
        /\ \A c \in Call : (Replaces(c)' <=> Replaces(c)) /\ (Replaces(c) => call'[c] = call[c])
        /\ \A i \in Item : Awaited(i)' <=> Awaited(i)
        /\ \A q : Shown(q)' = Shown(q)
    BY <1>2, SameDebts
  <2>4. \E q \in Target' : GoodTable(q)'
    <3>1. fetch[f].query \in Target'
      BY <2>2 DEF Target
    <3>2. ASSUME NEW q \in Target', q = fetch[f].query
          PROVE  GoodTable(q)'
      BY <2>2, <2>3, <3>2 DEF Good, GoodTable, RowAgrees
    <3> QED
      BY <3>1, <3>2
  <2>5. \A c \in Call : Replaces(c)' =>
          \A i \in call'[c].on :
            call'[c].what \in {item'[i], "pretended"} \/ \E d \in Call \ {c} : Replaces(d)' /\ i \in call'[d].on
    BY <2>1, <2>3 DEF RowsInv
  <2> QED
    BY <2>2, <2>4, <2>5 DEF RowsInv
<1> QED
  BY <1>2, <1>3

LEMMA Fails ==
    ASSUME PagesInv, UNCHANGED trips, NEW f \in Fetch, FetchFails(f)
    PROVE  PagesInv'
<1> USE DEF PagesInv, server, FetchFails
<1>1. rows' \in Rows /\ \A i \in Item : rows'[i] \in {rows[i], fetch[f].rows[i], "absent"}
  BY DEF ListsTypeOK, Rows
<1>0. mark' \in [Item -> {"listed", "edited", "pretended"}]
  BY DEF ListsTypeOK
<1>2. /\ ListsTypeOK' /\ TripsTypeOK' /\ ChangeInv' /\ CreateInv' /\ CancelInv' /\ BatchInv'
      /\ LoadingMeansFetch'
  BY <1>0, <1>1, FetchEnds
<1>3. RowsInv'
  BY DEF RowsInv
<1> QED
  BY <1>2, <1>3

\* What the call of a change becomes at the server.
LEMMA CallMoves ==
    ASSUME ListsTypeOK, NEW c \in Call, NEW at \in {"done", "refused"}, call[c].at # "idle",
           call' = [call EXCEPT ![c].at = at]
    PROVE  /\ call' \in [Call -> CallState]
           /\ call'[c].at = at /\ call'[c].what = call[c].what
           /\ call'[c].on = call[c].on /\ call'[c].by = call[c].by
           /\ \A d \in Call \ {c} : call'[d] = call[d]
           /\ BatchCalls' = BatchCalls
<1>1. /\ call'[c] = [call[c] EXCEPT !.at = at]
      /\ \A d \in Call \ {c} : call'[d] = call[d]
  BY DEF ListsTypeOK
<1>2. /\ call'[c].at = at /\ call'[c].what = call[c].what
      /\ call'[c].on = call[c].on /\ call'[c].by = call[c].by
  BY <1>1, FetchType DEF CallState
<1>3. call' \in [Call -> CallState]
  BY FetchType DEF CallState
<1>4. \A d \in Call : d \in BatchCalls' <=> d \in BatchCalls
  BY <1>1, <1>2 DEF BatchCalls, Changing
<1>5. BatchCalls' = BatchCalls
  BY <1>4 DEF BatchCalls, Changing
<1> QED
  BY <1>1, <1>2, <1>3, <1>5

LEMMA Refusals ==
    ASSUME PagesInv, UNCHANGED trips, NEW c \in Call, Refuse(c)
    PROVE  PagesInv'
<1> USE DEF PagesInv, server, list, trips, Refuse
<1>1. /\ call' \in [Call -> CallState]
      /\ call'[c].at = "refused" /\ call'[c].what = call[c].what
      /\ call'[c].on = call[c].on /\ call'[c].by = call[c].by
      /\ \A d \in Call \ {c} : call'[d] = call[d]
      /\ BatchCalls' = BatchCalls
  BY CallMoves
<1>2. \A d \in Call : call'[d].on = call[d].on /\ call'[d].what = call[d].what
                      /\ call'[d].by = call[d].by
                      /\ (call'[d].at = "done" => call[d].at = "done")
  BY <1>1
<1>3. ListsTypeOK'
  <2>1. doubt' \in BOOLEAN
    BY DEF ListsTypeOK
  <2> QED
    BY <1>1, <2>1 DEF ListsTypeOK, CallState
<1>4. TripsTypeOK' /\ LoadingMeansFetch'
  BY DEF TripsTypeOK, LoadingMeansFetch, InFlight
<1>5. ChangeInv' /\ CancelInv'
  BY <1>2 DEF ChangeInv, CancelInv
<1>6. BatchInv'
  <2>1. \A d \in BatchCalls : d \in Call
    BY DEF BatchCalls, Changing
  <2> QED
    BY <1>1, <1>2, <2>1 DEF BatchInv
<1>8. CreateInv'
  BY <1>1, <1>2, CreatesOn
<1>7. RowsInv'
  <2>1. CASE call[c].at = "sent"
    <3>1. \A d \in Call : Done(d) \/ Done(d)' => call'[d] = call[d]
      BY <1>1, <2>1 DEF Done
    <3>2. doubt' = doubt
      BY <2>1 DEF ListsTypeOK
    <3> QED
      BY <1>5, <3>1, <3>2, Quiet
  <2>2. CASE call[c].at = "done"
    BY <2>2 DEF RowsInv
  <2> QED
    BY <2>1, <2>2
<1> QED
  BY <1>3, <1>4, <1>5, <1>6, <1>7, <1>8

LEMMA GivesUp ==
    ASSUME PagesInv, UNCHANGED trips, NEW c \in Call, GiveUp(c)
    PROVE  PagesInv'
<1> USE DEF PagesInv, server, list, trips, GiveUp
<1>1. /\ call' \in [Call -> CallState]
      /\ CancelInv' /\ BatchInv'
      /\ \A d \in Call \ {c} : call'[d] = call[d]
      /\ call'[c] = NoCall
  BY CallEnds
<1>2. ListsTypeOK'
  BY <1>1 DEF ListsTypeOK, CallState
<1>3. TripsTypeOK' /\ LoadingMeansFetch'
  BY DEF TripsTypeOK, LoadingMeansFetch, InFlight
<1>4. ChangeInv'
  BY <1>1 DEF ChangeInv, NoCall
<1>6. CreateInv'
  BY <1>1, CreatesOn
<1>5. RowsInv'
  <2>1. \A d \in Call : Done(d) \/ Done(d)' => call'[d] = call[d]
    BY <1>1 DEF Done, NoCall
  <2> QED
    BY <1>4, <2>1, Quiet
<1> QED
  BY <1>1, <1>2, <1>3, <1>4, <1>5, <1>6

-----------------------------------------------------------------------------
(* A change at the server, and in the rows *)

LEMMA EffectValue ==
    ASSUME PagesInv, NEW c \in Call
    PROVE  /\ \A i \in Item :
                Effect(c)[i] = IF /\ i \in call[c].on /\ call[c].what \notin {"export", "pretended"}
                                  /\ item[i] # "gone"
                               THEN call[c].what ELSE item[i]
           /\ Effect(c) \in [Item -> State \cup {"new", "gone"}]
           /\ call[c].on \in SUBSET Item /\ call[c].what \in State \cup {"gone", "export", "pretended"}
           /\ call[c].what # "new"
<1>1. call[c].on \in SUBSET Item /\ call[c].what \in State \cup {"gone", "export", "pretended"}
  BY FetchType DEF PagesInv, CallState
<1>2. Effect(c) \in [Item -> State \cup {"new", "gone"}]
  BY <1>1 DEF PagesInv, ListsTypeOK, Effect
<1>3. \A i \in Item :
        Effect(c)[i] = IF /\ i \in call[c].on /\ call[c].what \notin {"export", "pretended"}
                          /\ item[i] # "gone"
                       THEN call[c].what ELSE item[i]
  BY DEF Effect
<1> QED
  BY <1>1, <1>2, <1>3 DEF State

\* The rows that agree with the items before a change that its answer will put
\* into them still do so once it is done.
LEMMA CommitRows ==
    ASSUME PagesInv, ChangeInv', NEW c \in Call, Commit(c)
    PROVE  RowsInv'
<1> USE DEF PagesInv, Commit, list
<1>1. /\ call' \in [Call -> CallState]
      /\ call'[c].at = "done" /\ call'[c].what = call[c].what
      /\ call'[c].on = call[c].on /\ call'[c].by = call[c].by
      /\ \A d \in Call \ {c} : call'[d] = call[d]
  BY CallMoves
<1>2. /\ \A i \in Item :
           item'[i] = IF i \in call[c].on /\ call[c].what \notin {"export", "pretended"} /\ item[i] # "gone"
                      THEN call[c].what ELSE item[i]
      /\ call[c].on \in SUBSET Item /\ call[c].what # "new"
  BY EffectValue
<1>3. InFlight' = InFlight /\ Target' = Target /\ fetch' = fetch
  BY DEF InFlight, Target
<1>4. SUFFICES ASSUME view # "form", ~doubt
               PROVE  RowsInv'
  BY DEF RowsInv
<1>5. \A d \in Call : Replaces(d) => d # c /\ Replaces(d)' /\ call'[d] = call[d]
  BY <1>1 DEF Replaces
<1>6. \A d \in Call \ {c} : Replaces(d)' => Replaces(d)
  BY <1>1 DEF Replaces
<1>7. ASSUME NEW d \in Call \ {c}, Replaces(d), NEW i \in call[d].on, NEW e \in Call \ {d},
             Replaces(e), i \in call[e].on
      PROVE  \E g \in Call \ {d} : Replaces(g)' /\ i \in call'[g].on
  BY <1>5, <1>7
<1>8. CASE Replaces(c)'
  <2>1. view \in {"users", "gateway"} /\ call[c].by = "page" /\ call[c].what # "export"
    BY <1>1, <1>8 DEF Replaces, ChangeInv
  <2>2. ASSUME NEW i \in call[c].on
        PROVE  call[c].what \in {item'[i], "pretended"}
    <3>1. i \in Item
      BY <1>2
    <3>2. item[i] = "gone" => view = "users"
      BY <2>1, <3>1 DEF ChangeInv
    <3>3. item[i] = "gone" => call[c].what = "gone"
      BY <3>2 DEF NotFound
    <3> QED
      BY <1>2, <2>1, <3>1, <3>3
  <2>3. \A i \in Item : Awaited(i) => Awaited(i)'
    BY <1>5 DEF Awaited
  <2>4. \A i \in call[c].on : Awaited(i)'
    BY <1>1, <1>8 DEF Awaited
  <2>5. Owed => Owed'
    <3>1. SUFFICES ASSUME NEW d \in Call, call[d].at = "done", call[d].what # "export", ~Replaces(d)
                   PROVE  Owed'
      BY DEF Owed
    <3>2. d # c /\ call'[d] = call[d] /\ ~Replaces(d)'
      BY <1>1, <1>6, <3>1
    <3> QED
      BY <3>1, <3>2 DEF Owed
  <2>6. \A i \in Item : Awaited(i)' \/ (item'[i] = item[i] /\ \A q : Shown(q)'[i] = Shown(q)[i])
    <3>1. ASSUME NEW i \in Item, i \notin call[c].on
          PROVE  item'[i] = item[i] /\ \A q : Shown(q)'[i] = Shown(q)[i]
      BY <1>2, <3>1 DEF Shown
    <3> QED
      BY <2>4, <3>1
  <2>7. ASSUME NEW q \in Target, GoodTable(q)
        PROVE  GoodTable(q)'
    BY <2>3, <2>5, <2>6, <2>7 DEF GoodTable, RowAgrees
  <2>8. ASSUME NEW f \in InFlight, Good(fetch[f].rows, fetch[f].query)
        PROVE  Good(fetch[f].rows, fetch[f].query)'
    BY <1>3, <2>3, <2>5, <2>6, <2>8 DEF Good
  <2>9. ASSUME NEW d \in Call, Replaces(d)', NEW i \in call'[d].on
        PROVE  call'[d].what \in {item'[i], "pretended"} \/ \E e \in Call \ {d} : Replaces(e)' /\ i \in call'[e].on
    <3>1. CASE d = c
      BY <1>1, <2>2, <2>9, <3>1
    <3>2. CASE d # c
      <4>1. Replaces(d) /\ call'[d] = call[d] /\ i \in Item
        BY <1>1, <1>6, <2>9, <3>2, FetchType DEF CallState
      <4>2. CASE i \in call[c].on
        BY <1>1, <1>8, <3>2, <4>2
      <4>3. CASE i \notin call[c].on
        <5>1. item'[i] = item[i]
          BY <1>2, <4>1, <4>3
        <5>2. call[d].what \in {item[i], "pretended"} \/ \E e \in Call \ {d} : Replaces(e) /\ i \in call[e].on
          BY <1>4, <2>9, <4>1 DEF RowsInv
        <5> QED
          BY <1>7, <2>9, <3>2, <4>1, <5>1, <5>2
      <4> QED
        BY <4>2, <4>3
    <3> QED
      BY <3>1, <3>2
  <2>10. InFlight' = {} => \E q \in Target' : GoodTable(q)'
    BY <1>3, <1>4, <2>7 DEF RowsInv
  <2>11. \A f \in InFlight' :
           /\ fetch'[f].query \in Target'
           /\ fetch'[f].at = "read" => Good(fetch[f].rows, fetch[f].query)'
    BY <1>3, <1>4, <2>8 DEF RowsInv
  <2> QED
    BY <1>3, <1>4, <2>9, <2>10, <2>11 DEF RowsInv
<1>9. CASE ~Replaces(c)'
  <2>1. ASSUME NEW d \in Call, Replaces(d)', NEW i \in call'[d].on
        PROVE  call'[d].what \in {item'[i], "pretended"} \/ \E e \in Call \ {d} : Replaces(e)' /\ i \in call'[e].on
    <3>1. d # c /\ Replaces(d) /\ call'[d] = call[d] /\ i \in Item
      BY <1>1, <1>6, <1>9, <2>1, FetchType DEF CallState
    <3>2. view \in {"users", "gateway"} /\ call[c].by = "create" /\ d \in Changing
      BY <1>1, <1>9, <3>1 DEF Replaces, ChangeInv, Changing
    <3>3. i \notin call[c].on
      BY <2>1, <3>1, <3>2 DEF CreateInv
    <3>4. item'[i] = item[i]
      BY <1>2, <3>1, <3>3
    <3>5. call[d].what \in {item[i], "pretended"} \/ \E e \in Call \ {d} : Replaces(e) /\ i \in call[e].on
      BY <1>4, <2>1, <3>1 DEF RowsInv
    <3> QED
      BY <1>7, <2>1, <3>1, <3>4, <3>5
  <2>2. CASE call[c].what # "export"
    <3>1. Owed'
      BY <1>1, <1>9, <2>2 DEF Owed
    <3>2. \A q \in Target' : GoodTable(q)'
      BY <3>1 DEF GoodTable
    <3>3. \A f \in InFlight' : Good(fetch[f].rows, fetch[f].query)'
      BY <3>1 DEF Good
    <3> QED
      BY <1>3, <1>4, <2>1, <3>2, <3>3 DEF RowsInv, Target
  <2>3. CASE call[c].what = "export"
    <3>1. item' = item
      BY <2>3 DEF Effect, ListsTypeOK
    <3>2. \A d \in Call : Done(d) \/ Done(d)' => call'[d] = call[d]
      BY <1>1, <2>3 DEF Done, ChangeInv
    <3> QED
      BY <3>1, <3>2, Quiet
  <2> QED
    BY <2>2, <2>3
<1> QED
  BY <1>8, <1>9

LEMMA Commits ==
    ASSUME PagesInv, UNCHANGED trips, NEW c \in Call, Commit(c)
    PROVE  PagesInv'
<1> USE DEF PagesInv, list, trips, Commit
<1>1. /\ call' \in [Call -> CallState]
      /\ call'[c].at = "done" /\ call'[c].what = call[c].what
      /\ call'[c].on = call[c].on /\ call'[c].by = call[c].by
      /\ \A d \in Call \ {c} : call'[d] = call[d]
      /\ BatchCalls' = BatchCalls
  BY CallMoves
<1>2. \A d \in Call : call'[d].on = call[d].on /\ call'[d].what = call[d].what
                      /\ call'[d].by = call[d].by
  BY <1>1
<1>3. /\ \A i \in Item :
           item'[i] = IF i \in call[c].on /\ call[c].what \notin {"export", "pretended"} /\ item[i] # "gone"
                      THEN call[c].what ELSE item[i]
      /\ item' \in [Item -> State \cup {"new", "gone"}]
      /\ call[c].on \in SUBSET Item /\ call[c].what # "new"
  BY EffectValue
<1>4. ListsTypeOK'
  BY <1>1, <1>3 DEF ListsTypeOK, CallState
<1>5. TripsTypeOK' /\ LoadingMeansFetch'
  BY DEF TripsTypeOK, LoadingMeansFetch, InFlight
<1>6. ChangeInv'
  <2>1. ASSUME NEW i \in Item
        PROVE  /\ item'[i] = "gone" => item[i] = "gone" \/ call[c].what = "gone"
               /\ item'[i] = "new" => item[i] = "new"
    BY <1>3
  <2> QED
    BY <1>2, <2>1 DEF ChangeInv
<1>7. CreateInv'
  <2>1. SUFFICES ASSUME NEW d \in Call, call'[d].at = "sent", call'[d].by = "create",
                        NEW i \in call'[d].on
                 PROVE  item'[i] = "new" /\ \A e \in Changing' \ {d} : i \notin call'[e].on
    BY DEF CreateInv
  <2>2. d # c /\ call'[d] = call[d] /\ i \in Item
    BY <1>1, <2>1, FetchType DEF CallState
  <2>3. item[i] = "new" /\ \A e \in Changing \ {d} : i \notin call[e].on
    BY <2>1, <2>2 DEF CreateInv
  <2>4. Changing' = Changing /\ c \in Changing
    BY <1>1 DEF Changing
  <2>5. item'[i] = item[i]
    BY <1>3, <2>2, <2>3, <2>4
  <2> QED
    BY <1>2, <2>3, <2>4, <2>5 DEF Changing
<1>8. CancelInv'
  <2>1. refunded' \subseteq agreed
    BY DEF CancelInv
  <2> QED
    BY <1>2, <2>1 DEF CancelInv
<1>9. BatchInv'
  <2>1. refunded \subseteq refunded'
        /\ (call[c].what = "cancelled" => call[c].on \subseteq refunded')
    OBVIOUS
  <2>2. BatchCalls \subseteq Call
    BY DEF BatchCalls, Changing
  <2>3. \A d \in BatchCalls' :
          /\ batch'.ids # {}
          /\ batch'.ids \subseteq refunded' \cup batch'.failed \cup batch'.todo \cup call'[d].on
    BY <1>1, <1>2, <2>1, <2>2 DEF BatchInv
  <2>4. \A d \in Call :
          call'[d].at = "done" /\ call'[d].what = "cancelled" => call'[d].on \subseteq refunded'
    BY <1>1, <2>1 DEF BatchInv
  <2> QED
    BY <1>1, <2>3, <2>4 DEF BatchInv
<1>10. RowsInv'
  BY <1>6, CommitRows
<1> QED
  BY <1>4, <1>5, <1>6, <1>7, <1>8, <1>9, <1>10

\* With one change under way and no fetch, its answer brings the rows up to date.
LEMMA InPlaces ==
    ASSUME PagesInv, UNCHANGED trips, NEW c \in Call, InPlace(c)
    PROVE  PagesInv'
<1> USE DEF PagesInv, server, trips, InPlace, Replace, Mark
<1>1. /\ call' \in [Call -> CallState]
      /\ CancelInv' /\ BatchInv'
      /\ \A d \in Call \ {c} : call'[d] = call[d]
      /\ call'[c] = NoCall
  BY CallEnds
<1>2. call[c].what \in State \cup {"gone", "pretended"} /\ call[c].on \in SUBSET Item
  BY FetchType DEF CallState, ChangeInv
<1>3. \A i \in Item :
        rows'[i] = IF i \in call[c].on /\ rows[i] # "absent"
                   THEN Answered(c) ELSE rows[i]
  OBVIOUS
<1>9. /\ Answered(c) \in State \cup {"absent"}
      /\ call[c].what # "pretended" => Answered(c) \in {"absent", call[c].what}
      /\ call[c].what = "gone" => Answered(c) = "absent"
  BY <1>2 DEF Answered, State
<1>10. mark' = [i \in Item |-> IF i \notin call[c].on THEN mark[i]
                               ELSE IF call[c].what = "pretended" THEN "pretended" ELSE "edited"]
  OBVIOUS
<1>4. ListsTypeOK'
  <2>1. rows' \in Rows
    BY <1>3, <1>9 DEF ListsTypeOK, Rows
  <2>2. doubt' \in BOOLEAN
    BY DEF ListsTypeOK
  <2>3. mark' \in [Item -> {"listed", "edited", "pretended"}]
    BY <1>10 DEF ListsTypeOK
  <2> QED
    BY <1>1, <2>1, <2>2, <2>3 DEF ListsTypeOK, CallState, Rows
<1>5. TripsTypeOK' /\ LoadingMeansFetch'
  BY DEF TripsTypeOK, LoadingMeansFetch, InFlight
<1>6. ChangeInv'
  <2>1. \A i \in Item : rows[i] = "absent" => rows'[i] = "absent"
    BY <1>3
  <2> QED
    BY <1>1, <2>1 DEF ChangeInv, NoCall
<1>7. CreateInv'
  BY <1>1, CreatesOn
<1>8. RowsInv'
  <2>1. SUFFICES ASSUME ~doubt' PROVE RowsInv'
    BY DEF RowsInv
  <2>2. ~doubt /\ InFlight = {} /\ Changing = {c} /\ view \in {"users", "gateway"}
    BY <2>1
  <2>3. InFlight' = {}
    BY <2>2 DEF InFlight
  <2>4. \A d \in Call \ {c} : call[d].at = "idle"
    BY <2>2 DEF Changing
  <2>5. \A d \in Call : ~Replaces(d)'
    BY <1>1, <2>4 DEF Replaces, NoCall
  <2>6. Replaces(c) /\ ~Owed /\ \A d \in Call : Replaces(d) => d = c
    BY <2>4 DEF Replaces, Owed
  <2>7. Target = {query} /\ query' = query /\ Target' = Target
    BY <2>2 DEF Target
  <2>8. GoodTable(query)
    BY <2>2, <2>7 DEF RowsInv
  <2>9. \A i \in call[c].on : call[c].what \in {item[i], "pretended"}
    BY <2>2, <2>6 DEF RowsInv
  <2>10. ASSUME NEW i \in Item
         PROVE  RowAgrees(i, query)'
    <3>1. item'[i] = item[i] /\ Shown(query)'[i] = Shown(query)[i]
      BY DEF Shown
    <3>2. CASE i \in call[c].on /\ call[c].what = "pretended"
      BY <1>10, <3>2 DEF RowAgrees
    <3>3. CASE i \in call[c].on /\ call[c].what # "pretended"
      <4>1. item[i] = call[c].what /\ mark'[i] = "edited"
        BY <1>10, <2>9, <3>3
      <4>2. rows'[i] \in {"absent", item[i]}
        BY <1>3, <1>9, <3>3, <4>1
      <4> QED
        BY <3>1, <4>1, <4>2 DEF RowAgrees
    <3>4. CASE i \notin call[c].on
      <4>1. RowAgrees(i, query)
        BY <2>6, <2>8, <3>4 DEF GoodTable, Awaited
      <4>2. rows'[i] = rows[i] /\ mark'[i] = mark[i]
        BY <1>3, <1>10, <3>4
      <4> QED
        BY <2>7, <3>1, <4>1, <4>2 DEF RowAgrees
    <3> QED
      BY <3>2, <3>3, <3>4
  <2>11. GoodTable(query)'
    BY <2>7, <2>10 DEF GoodTable
  <2> QED
    BY <2>3, <2>5, <2>7, <2>11 DEF RowsInv
<1> QED
  BY <1>1, <1>4, <1>5, <1>6, <1>7, <1>8

-----------------------------------------------------------------------------
(* Every step *)

LEMMA PageStep ==
    ASSUME PagesInv,
           \/ view \notin {"trips", "form"} /\ ListsNext /\ UNCHANGED trips
           \/ view = "trips" /\ TripsNext
           \/ Network /\ UNCHANGED trips
    PROVE  PagesInv'
<1>1. CASE view \notin {"trips", "form"} /\ ListsNext /\ UNCHANGED trips
  BY <1>1, ListQueries, Restarts, ClosesLogs, UserChanges, InPlaces, Refetches, GivesUp
     DEF ListsNext
<1>2. CASE view = "trips" /\ TripsNext
  BY <1>2, ListQueries, TripChanges, TripSelections, Answers, Errors DEF TripsNext
<1>3. CASE Network /\ UNCHANGED trips
  BY <1>3, Reads, Lands, Fails, Commits, Refusals DEF Network
<1> QED
  BY <1>1, <1>2, <1>3

LEMMA Initial ==
    ASSUME Init
    PROVE  IInv
<1> USE DEF Init, ListsInit, TripsInit, FormInit
<1>1. FormTypeOK /\ FormInv
  BY DEF FormTypeOK, FormInv, FormAgrees, AskedPicks, Picking, NoPick, NotSubmitting
<1>2. PICK F \in SUBSET FetchSlots[view] :
        /\ Cardinality(F) = CASE view = "audit" -> 0 [] view = "gateway" -> 2 [] OTHER -> 1
        /\ fetch = [f \in Fetch |-> IF f \in F THEN Asked(query) ELSE NoFetch]
        /\ doubt = (Cardinality(F) > 1)
  BY DEF Asked
<1>3. F \subseteq Fetch /\ IsFiniteSet(F)
  BY ListsAssumption, FS_Subset
<1>4. query \in Query0
  BY ListsAssumption DEF Query0
<1>5. Asked(query) \in FetchState /\ NoFetch \in FetchState /\ NoCall \in CallState
  BY <1>4, NoTypes
<1>6. ListsTypeOK
  <2>1. fetch \in [Fetch -> FetchState]
    BY <1>2, <1>5
  <2>2. call \in [Call -> CallState]
    BY <1>5
  <2>3. 0 \in 0 .. MaxChange
    BY ListsAssumption
  <2>4. doubt \in BOOLEAN
    BY <1>2
  <2> QED
    BY <1>4, <2>1, <2>2, <2>3, <2>4
       DEF ListsTypeOK, FetchState, CallState, Query0, Rows, State
<1>7. TripsTypeOK
  BY DEF TripsTypeOK, NoBatch, NoModal
<1>8. InFlight = F
  BY <1>2, <1>3 DEF InFlight, Asked, NoFetch
<1>9. ChangeInv
  <2>1. \A f \in Fetch, i \in Item : fetch[f].rows[i] = "absent"
    BY <1>2 DEF Asked, NoFetch
  <2> QED
    BY <2>1 DEF ChangeInv, NoCall
<1>10. CreateInv /\ CancelInv /\ BatchInv
  BY DEF CreateInv, CancelInv, BatchInv, BatchCalls, Changing, NoCall, NoBatch
<1>11. LoadingMeansFetch
  <2>1. view # "audit" => Cardinality(F) # 0
    BY <1>2
  <2>2. view # "audit" => F # {}
    BY <2>1, FS_EmptySet
  <2> QED
    BY <1>8, <2>2 DEF LoadingMeansFetch
<1>12. RowsInv
  <2>1. SUFFICES ASSUME view # "form", ~doubt
                 PROVE  RowsInv
    BY DEF RowsInv
  <2>2. \A c \in Call : ~Replaces(c)
    BY DEF Replaces, NoCall
  <2>3. \A f \in F : fetch[f].query = query /\ fetch[f].at = "asked"
    BY <1>2, <1>3 DEF Asked, NoFetch
  <2>4. view = "audit" \/ Cardinality(F) = 1
    <3>1. view # "gateway"
      <4>1. CASE view = "gateway"
        <5>1. Cardinality(F) = 2
          BY <1>2, <4>1
        <5>2. Cardinality(F) > 1
          BY <5>1
        <5> QED
          BY <1>2, <2>1, <5>2
      <4> QED
        BY <4>1
    <3> QED
      BY <1>2, <3>1
  <2>5. CASE view = "audit"
    <3>1. F = {}
      BY <1>2, <1>3, <2>5, FS_EmptySet
    <3>2. \A i \in Item : rows[i] = Shown(query)[i]
      BY <2>5, ListsAssumption DEF Shown
    <3>3. GoodTable(query) /\ query \in Target
      BY <3>2 DEF GoodTable, RowAgrees, Target
    <3> QED
      BY <1>8, <2>2, <3>1, <3>3 DEF RowsInv
  <2>6. CASE Cardinality(F) = 1
    <3>1. PICK f : F = {f}
      BY <1>3, <2>6, FS_Singleton
    <3> QED
      BY <1>8, <2>2, <2>3, <3>1 DEF RowsInv, Target
  <2> QED
    BY <2>4, <2>5, <2>6
<1> QED
  BY <1>1, <1>6, <1>7, <1>9, <1>10, <1>11, <1>12 DEF IInv, TypeOK

LEMMA Step ==
    ASSUME IInv, [Next]_vars
    PROVE  IInv'
<1>1. PagesInv /\ FormTypeOK /\ FormInv
  BY DEF IInv, TypeOK, PagesInv
<1>2. UNCHANGED formVars => FormTypeOK' /\ FormInv'
  BY <1>1 DEF formVars, FormTypeOK, FormInv, FormAgrees, AskedPicks, Picking
<1>3. UNCHANGED <<view, server, list, call, changes, doubt, trips>> => PagesInv'
  <2>1. UNCHANGED trips => TripsTypeOK'
    BY <1>1 DEF PagesInv, TripsTypeOK, trips
  <2> QED
    BY <1>1, <2>1, LocalSteps DEF trips
<1>4. PagesInv' /\ FormTypeOK' /\ FormInv'
  <2>1. CASE view \notin {"trips", "form"} /\ ListsNext /\ UNCHANGED <<trips, formVars>>
    BY <1>1, <1>2, <2>1, PageStep
  <2>2. CASE view = "trips" /\ TripsNext /\ UNCHANGED formVars
    BY <1>1, <1>2, <2>2, PageStep
  <2>3. CASE view # "form" /\ Network /\ UNCHANGED <<trips, formVars>>
    BY <1>1, <1>2, <2>3, PageStep
  <2>4. CASE view = "form" /\ FormNext
             /\ UNCHANGED <<view, server, list, call, changes, doubt, trips>>
    BY <1>1, <1>3, <2>4, FormTypes, FormStep
  <2>5. CASE UNCHANGED vars
    BY <1>2, <1>3, <2>5 DEF vars
  <2> QED
    BY <2>1, <2>2, <2>3, <2>4, <2>5 DEF Next
<1> QED
  BY <1>4 DEF IInv, TypeOK, PagesInv

-----------------------------------------------------------------------------
(* What is so in every state and of every step *)

\* The invariant holds in every reachable state, for any items, any numbers of
\* fetches and changes in flight, and any routes.
THEOREM Invariance == Spec => []IInv
<1>1. Init => IInv
  BY Initial
<1>2. IInv /\ [Next]_vars => IInv'
  BY Step
<1> QED
  BY <1>1, <1>2, PTL DEF Spec

\* At rest the rows of a page (the stores of users, payments, trips and the
\* others) are the server's answer to what is chosen.
THEOREM RowsAgree == Spec => []RowsMatchServer
<1>1. IInv => RowsMatchServer
  <2>1. SUFFICES ASSUME IInv, AtRest, ~doubt, view # "form"
                 PROVE  \E q \in Target : \A i \in Item : RowAgrees(i, q)
    BY DEF RowsMatchServer
  <2>2. PICK q \in Target : GoodTable(q)
    BY <2>1 DEF IInv, RowsInv, AtRest
  <2>3. ~Owed /\ \A i \in Item : ~Awaited(i)
    BY <2>1 DEF AtRest, Changing, Owed, Awaited, Replaces
  <2> QED
    BY <2>2, <2>3 DEF GoodTable
<1> QED
  BY <1>1, Invariance, PTL

\* No page spins for ever: isLoading is set only while a fetch is to end it.
THEOREM LoadingEnds == Spec => []LoadingMeansFetch
<1>1. IInv => LoadingMeansFetch
  BY DEF IInv
<1> QED
  BY <1>1, Invariance, PTL

\* handleBatchAction and handleCancelConfirm refund no trip that the
\* administrator has not been asked about.
THEOREM Agreed == Spec => []RefundsAgreed
<1>1. IInv => RefundsAgreed
  BY DEF IInv, CancelInv, RefundsAgreed
<1> QED
  BY <1>1, Invariance, PTL

\* onSubmit sends stops of the chosen route alone.
THEOREM OneRoute == Spec => []SubmitsOneRoute
<1>1. IInv => SubmitsOneRoute
  BY DEF IInv, FormInv, FormAgrees, SubmitsOneRoute, CanSubmit
<1> QED
  BY <1>1, Invariance, PTL

\* The loop of handleBatchAction ends when every trip of the selection has been
\* cancelled or has failed.
THEOREM BatchDone == Spec => BatchTriesAll
<1> DEFINE Refused == {d \in Call : call[d].at = "refused"}
           Over == batch.ids # {} /\ batch'.ids = {} =>
                     batch.ids \subseteq refunded \cup batch.failed \cup UNION {call[c].on : c \in Refused}
<1>1. ASSUME IInv, Next
      PROVE  Over
  <2>1. SUFFICES ASSUME batch.ids # {}, batch'.ids = {}
                 PROVE  batch.ids \subseteq refunded \cup batch.failed
                                              \cup UNION {call[c].on : c \in Refused}
    OBVIOUS
  <2>2. batch' # batch
    BY <2>1
  <2>3. view = "trips" /\ TripsNext
    BY <1>1, <2>2 DEF Next, trips
  <2>4. ~BatchCancel
    BY <2>1 DEF BatchCancel, CanBatch
  <2>5. PICK c \in Call : TripsAnswer(c) \/ TripsError(c)
    BY <2>2, <2>3, <2>4
       DEF TripsNext, Search, FilterStatus, ToggleSelectOne, ForceStatus, HandleCancelClick,
           HandleDeleteClick, ToggleSelectAll, BatchStatus, BatchExport, CloseModal,
           HandleCancelConfirm, HandleDeleteConfirm, SetWeek, trips
  <2>6. /\ call[c].by = "batch" /\ call[c].what = "cancelled"
        /\ \/ call[c].at = "done" /\ TripsAnswer(c)
           \/ call[c].at = "refused" /\ TripsError(c)
    <3>1. CASE TripsAnswer(c)
      BY <2>2, <3>1 DEF TripsAnswer
    <3>2. CASE TripsError(c)
      BY <2>2, <3>2 DEF TripsError
    <3> QED
      BY <2>5, <3>1, <3>2
  <2>7. batch.todo = {}
    <3>1. PICK failed : BatchGoesOn(c, failed)
      BY <2>6 DEF TripsAnswer, TripsError
    <3>2. batch.todo # {} => batch'.ids = batch.ids
      BY <1>1, <3>1 DEF IInv, TypeOK, TripsTypeOK, BatchGoesOn
    <3> QED
      BY <2>1, <3>2
  <2>8. batch.ids \subseteq refunded \cup batch.failed \cup batch.todo \cup call[c].on
    BY <1>1, <2>6 DEF IInv, BatchInv, BatchCalls, Changing
  <2>9. CASE call[c].at = "done"
    BY <1>1, <2>6, <2>7, <2>8, <2>9 DEF IInv, BatchInv
  <2>10. CASE call[c].at = "refused"
    <3>1. call[c].on \subseteq UNION {call[d].on : d \in Refused}
      BY <2>10
    <3> QED
      BY <2>7, <2>8, <3>1
  <2> QED
    BY <2>6, <2>9, <2>10
<1>2. ASSUME IInv, [Next]_vars
      PROVE  [Over]_vars
  BY <1>1, <1>2
<1>3. [Over]_vars => [batch.ids # {} /\ batch'.ids = {} =>
         batch.ids \subseteq refunded \cup batch.failed \cup
                             UNION {call[c].on : c \in {d \in Call : call[d].at = "refused"}}]_vars
  OBVIOUS
<1> QED
  BY <1>2, <1>3, Invariance, PTL DEF Spec, BatchTriesAll

=============================================================================
