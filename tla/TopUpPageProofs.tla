--------------------------- MODULE TopUpPageProofs ---------------------------
(***************************************************************************)
(* The properties of TopUpPage, for any keys, instances of the hook,       *)
(* polling loops and fetches.                                              *)
(***************************************************************************)
EXTENDS TopUpPageInv, TLAPS

-----------------------------------------------------------------------------
(* Types, in the parts the steps share                                     *)

PaymentType == payment \in [Key -> {"none", "sent", "paid", "credited"}]

FormType ==
    /\ page \in {"topup", "home", "gateway", "result"}
    /\ method \in {"MWALLET", "CARD"}
    /\ key \in Key \cup {NoKey}
    /\ hook \in Hook \cup {None}

StoreType ==
    /\ status \in {"idle", "processing", "success", "failed"}
    /\ txn \in Key \cup {NoKey}
    /\ told \in Key \cup {NoKey}

LoopState == [at : {"none", "waiting", "polling"}, hook : Hook \cup {None}, key : Key \cup {NoKey}]

HookType ==
    /\ timer \in [Hook -> BOOLEAN]
    /\ leaked \in [Hook -> BOOLEAN]
    /\ request \in [Hook -> Key \cup {NoKey}]
    /\ loop \in [Loop -> LoopState]
    /\ pollTimeout \in [Hook -> Loop \cup {None}]

CardType == card \in [Key -> {"none", "mine", "old"}]

FetchState == [at : {"idle", "asked", "read"}, seen : SUBSET Key]

MoneyType ==
    /\ balance \subseteq Key
    /\ fetch \in [Fetch -> FetchState]
    /\ doubt \in BOOLEAN

LEMMA TypeParts ==
    TypeOK <=> PaymentType /\ FormType /\ StoreType /\ HookType /\ CardType /\ MoneyType
  BY DEF TypeOK, PaymentType, FormType, StoreType, HookType, CardType, MoneyType, LoopState, FetchState

LEMMA TypePartsNext ==
    TypeOK' <=> PaymentType' /\ FormType' /\ StoreType' /\ HookType' /\ CardType' /\ MoneyType'
  BY DEF TypeOK, PaymentType, FormType, StoreType, HookType, CardType, MoneyType, LoopState, FetchState

LEMMA NoLoopType == NoLoop \in LoopState /\ NoFetch \in FetchState
  BY DEF NoLoop, LoopState, NoFetch, FetchState

-----------------------------------------------------------------------------
(* What the shared parts of the steps do                                   *)

LEMMA FetchBalanceType ==
  ASSUME MoneyType, NEW f \in Fetch, FetchBalance(f)
  PROVE  MoneyType'
<1>1. fetch[f] \in FetchState
  BY DEF MoneyType
<1>2. [fetch[f] EXCEPT !.at = "asked"] \in FetchState
  BY <1>1 DEF FetchState
<1>3. fetch' = [fetch EXCEPT ![f] = [fetch[f] EXCEPT !.at = "asked"]]
  BY DEF FetchBalance
<1>4. doubt' \in BOOLEAN /\ balance' = balance
  BY DEF FetchBalance
<1>5. QED
  BY <1>2, <1>3, <1>4 DEF MoneyType

LEMMA EndedType ==
  ASSUME HookType, NEW h, NEW l, ClearTimers(h), loop' = Going(h, l)
  PROVE  HookType'
<1>1. loop' \in [Loop -> LoopState]
  BY NoLoopType DEF Going, HookType
<1>2. QED
  BY <1>1 DEF ClearTimers, HookType

LEMMA UnmountType ==
  ASSUME HookType, Unmount
  PROVE  HookType'
<1>1. CASE hook = None
  BY <1>1 DEF Unmount, hooks, HookType
<1>2. CASE hook # None
  BY <1>2, EndedType DEF Unmount
<1>3. QED
  BY <1>1, <1>2

LEMMA MountType ==
  ASSUME HookType, Mount
  PROVE  HookType' /\ hook' \in Hook
  BY DEF Mount, hooks, HookType

LEMMA StartPollingType ==
  ASSUME HookType, NEW h \in Hook, StartPolling(h)
  PROVE  loop' \in [Loop -> LoopState] /\ pollTimeout' \in [Hook -> Loop \cup {None}]
<1>1. CASE pollTimeout[h] # None
  BY <1>1 DEF StartPolling, HookType
<1>2. CASE pollTimeout[h] = None
  <2> DEFINE l == CHOOSE l \in Loop : loop[l] = NoLoop
             new == [at |-> "waiting", hook |-> h, key |-> NoKey]
  <2>1. l \in Loop
    BY <1>2 DEF StartPolling
  <2>2. new \in LoopState
    BY DEF LoopState
  <2>3. loop' = [loop EXCEPT ![l] = new] /\ pollTimeout' = [pollTimeout EXCEPT ![h] = l]
    BY <1>2 DEF StartPolling
  <2> HIDE DEF l, new
  <2>4. QED
    BY <2>1, <2>2, <2>3 DEF HookType
<1>3. QED
  BY <1>1, <1>2

LEMMA SendType ==
  ASSUME PaymentType, FormType, NEW k \in Key, Send(k)
  PROVE  PaymentType' /\ key' \in Key /\ method' = method
  BY DEF Send, PaymentType, FormType

LEMMA LoadType ==
  ASSUME TypeOK, NEW p \in {"topup", "home", "gateway", "result"}, NEW F, Load(p, F)
  PROVE  TypeOK'
<1>1. PaymentType' /\ FormType' /\ StoreType' /\ CardType'
  BY TypeParts DEF Load, PaymentType, FormType, StoreType, CardType
<1>2. HookType'
  BY NoLoopType DEF Load, HookType
<1>3. MoneyType'
  <2>1. [NoFetch EXCEPT !.at = "asked"] \in FetchState
    BY DEF NoFetch, FetchState
  <2>2. fetch' \in [Fetch -> FetchState]
    BY <2>1, NoLoopType DEF Load, Begun
  <2>3. QED
    BY <2>2 DEF Load, MoneyType
<1>4. QED
  BY <1>1, <1>2, <1>3, TypePartsNext

-----------------------------------------------------------------------------
(* Type correctness                                                        *)

LEMMA UserTypes ==
  ASSUME TypeOK, User
  PROVE  TypeOK'
<1> USE TypeParts, TypePartsNext
<1>1. CASE Reset \/ Edit
  BY <1>1 DEF Reset, Edit, ResetPaymentState, PaymentType, FormType, StoreType, HookType, CardType, MoneyType,
              form, store, hooks, money
<1>2. CASE Visible
  <2>1. hook \in Hook
    BY <1>2 DEF Visible, FormType
  <2>2. loop' \in [Loop -> LoopState] /\ pollTimeout' \in [Hook -> Loop \cup {None}]
    BY <1>2, <2>1, StartPollingType DEF Visible
  <2>3. QED
    BY <1>2, <2>2 DEF Visible, PaymentType, FormType, StoreType, HookType, CardType, MoneyType, form, store, money
<1>3. ASSUME NEW h \in Hook, NEW k \in Key, InitiatePayment(h, k)
      PROVE  TypeOK'
  <2>1. PaymentType' /\ FormType'
    BY <1>3, SendType DEF InitiatePayment, FormType
  <2>2. StoreType' /\ CardType' /\ MoneyType'
    BY <1>3 DEF InitiatePayment, ResetPaymentState, StoreType, CardType, MoneyType, money
  <2>3. HookType'
    BY <1>3 DEF InitiatePayment, StartTimer, HookType
  <2>4. QED
    BY <2>1, <2>2, <2>3
<1>4. ASSUME NEW k \in Key, PayByCard(k)
      PROVE  TypeOK'
  <2>1. PaymentType' /\ FormType'
    BY <1>4, SendType DEF PayByCard, FormType
  <2>2. StoreType' /\ CardType' /\ MoneyType' /\ HookType'
    BY <1>4 DEF PayByCard, StoreType, CardType, MoneyType, HookType, money, hooks, store
  <2>3. QED
    BY <2>1, <2>2
<1>5. ASSUME NEW m \in {"MWALLET", "CARD"}, SetMethod(m)
      PROVE  TypeOK'
  <2>1. HookType' /\ hook' \in Hook \cup {None}
    BY <1>5, MountType, UnmountType DEF SetMethod, Unmount
  <2>2. PaymentType' /\ FormType' /\ StoreType' /\ CardType' /\ MoneyType'
    BY <1>5, <2>1 DEF SetMethod, PaymentType, FormType, StoreType, CardType, MoneyType, money, store
  <2>3. QED
    BY <2>1, <2>2
<1>6. ASSUME NEW f \in Fetch, Enter(f)
      PROVE  TypeOK'
  <2>1. HookType' /\ hook' \in Hook
    BY <1>6, MountType DEF Enter
  <2>2. MoneyType'
    BY <1>6, FetchBalanceType DEF Enter
  <2>3. PaymentType' /\ FormType' /\ StoreType' /\ CardType'
    BY <1>6, <2>1 DEF Enter, PaymentType, FormType, StoreType, CardType, store, form
  <2>4. QED
    BY <2>1, <2>2, <2>3
<1>7. ASSUME NEW f \in Fetch, Leave(f)
      PROVE  TypeOK'
  <2>1. HookType' /\ hook' = None
    BY <1>7, UnmountType DEF Leave, Unmount
  <2>2. MoneyType'
    BY <1>7, FetchBalanceType DEF Leave
  <2>3. PaymentType' /\ FormType' /\ StoreType' /\ CardType'
    BY <1>7, <2>1 DEF Leave, PaymentType, FormType, StoreType, CardType, store
  <2>4. QED
    BY <2>1, <2>2, <2>3
<1>8. ASSUME NEW f \in Fetch, BackToHome(f)
      PROVE  TypeOK'
  BY <1>8, LoadType DEF BackToHome
<1>9. ASSUME NEW f \in Fetch, Refresh(f)
      PROVE  TypeOK'
  <2>1. MoneyType'
    BY <1>9, FetchBalanceType DEF Refresh
  <2>2. QED
    BY <1>9, <2>1 DEF Refresh, PaymentType, FormType, StoreType, HookType, CardType, client, form, store, hooks
<1>10. QED
  BY <1>1, <1>2, <1>3, <1>4, <1>5, <1>6, <1>7, <1>8, <1>9 DEF User

\* An instance, or a loop of one, is told how the payment ended.
LEMMA EndTypes ==
  ASSUME TypeOK, PaymentType', CardType', UNCHANGED <<page, form, hook>>, NEW h, NEW l,
         \/ HandleFailure(h, l)
         \/ \E f \in Fetch, k \in Key \cup {NoKey} : HandleSuccess(h, l, k, f)
  PROVE  TypeOK'
<1> USE TypeParts, TypePartsNext
<1>1. HookType'
  BY EndedType DEF HandleFailure, HandleSuccess
<1>2. StoreType' /\ FormType'
  BY DEF HandleFailure, HandleSuccess, StoreType, FormType, form
<1>3. MoneyType'
  BY FetchBalanceType DEF HandleFailure, HandleSuccess, MoneyType, money
<1>4. QED
  BY <1>1, <1>2, <1>3

LEMMA AnswerTypes ==
  ASSUME TypeOK, NEW h \in Hook, Answered(h) \/ TimesOut(h)
  PROVE  TypeOK'
<1> USE TypeParts, TypePartsNext
<1>1. ASSUME UNCHANGED <<payment, card>>
      PROVE  PaymentType' /\ CardType'
  BY <1>1 DEF PaymentType, CardType
<1>2. CASE TopUpFailed(h) \/ TimesOut(h)
  BY <1>1, <1>2, EndTypes DEF TopUpFailed, TimesOut
<1>3. ASSUME NEW f \in Fetch, TopUpSucceeded(h, f)
      PROVE  TypeOK'
  <2>1. request[h] \in Key \cup {NoKey}
    BY DEF HookType
  <2>2. QED
    BY <1>1, <1>3, <2>1, EndTypes DEF TopUpSucceeded
<1>4. CASE TopUpPending(h)
  <2>1. request[h] \in Key \cup {NoKey}
    BY DEF HookType
  <2>2. loop' \in [Loop -> LoopState] /\ pollTimeout' \in [Hook -> Loop \cup {None}]
    BY <1>4, StartPollingType DEF TopUpPending
  <2>3. HookType'
    BY <1>4, <2>2 DEF TopUpPending, HookType
  <2>4. QED
    BY <1>4, <2>1, <2>3 DEF TopUpPending, PaymentType, FormType, StoreType, CardType, MoneyType, form, money
<1>5. QED
  BY <1>2, <1>3, <1>4 DEF Answered

LEMMA LoopTypes ==
  ASSUME TypeOK, NEW l \in Loop, Tick(l) \/ Polled(l)
  PROVE  TypeOK'
<1> USE TypeParts, TypePartsNext
<1>1. loop[l] \in LoopState
  BY DEF HookType
<1>2. loop[l].key \in Key \cup {NoKey}
  BY <1>1 DEF LoopState
<1>3. CASE PollFailed(l)
  BY <1>3, EndTypes DEF PollFailed, PaymentType, CardType
<1>4. ASSUME NEW f \in Fetch, PollSucceeded(l, f)
      PROVE  TypeOK'
  <2>1. PaymentType' /\ CardType'
    BY <1>4 DEF PollSucceeded, PaymentType, CardType
  <2>2. QED
    BY <1>2, <1>4, <2>1, EndTypes DEF PollSucceeded
<1>5. CASE Tick(l)
  <2>1. [loop[l] EXCEPT !.at = "polling", !.key = txn] \in LoopState
    BY <1>1 DEF LoopState, StoreType
  <2>2. loop' = [loop EXCEPT ![l] = IF Polls THEN [loop[l] EXCEPT !.at = "polling", !.key = txn] ELSE NoLoop]
    BY <1>5 DEF Tick
  <2>3. loop' \in [Loop -> LoopState]
    BY <2>1, <2>2, NoLoopType DEF HookType
  <2>4. pollTimeout' \in [Hook -> Loop \cup {None}]
    BY <1>5 DEF Tick, HookType
  <2>5. QED
    BY <1>5, <2>3, <2>4 DEF Tick, PaymentType, FormType, StoreType, HookType, CardType, MoneyType, form, store, money
<1>6. CASE PollAgain(l)
  <2>1. [loop[l] EXCEPT !.at = "waiting", !.key = NoKey] \in LoopState
    BY <1>1 DEF LoopState
  <2>2. \/ loop' = [loop EXCEPT ![l] = [loop[l] EXCEPT !.at = "waiting", !.key = NoKey]]
        \/ loop' = [loop EXCEPT ![l] = NoLoop]
    BY <1>6 DEF PollAgain, HookType
  <2>3. loop' \in [Loop -> LoopState]
    BY <2>1, <2>2, NoLoopType DEF HookType
  <2>4. pollTimeout' \in [Hook -> Loop \cup {None}]
    BY <1>6 DEF PollAgain, HookType
  <2>5. QED
    BY <1>6, <2>3, <2>4 DEF PollAgain, PaymentType, FormType, StoreType, HookType, CardType, MoneyType, form, store, money
<1>7. QED
  BY <1>3, <1>4, <1>5, <1>6 DEF Polled

LEMMA RestTypes ==
  ASSUME TypeOK,
         \/ \E f \in Fetch : Fetched(f) \/ PaymentResult(f)
         \/ \E k \in Key : Settle(k) \/ Redirect(k) \/ CardFails(k)
         \/ UNCHANGED vars
  PROVE  TypeOK'
<1> USE TypeParts, TypePartsNext
<1>1. ASSUME NEW f \in Fetch, Fetched(f)
      PROVE  TypeOK'
  <2>1. [at |-> "read", seen |-> {k \in Key : payment[k] = "credited"}] \in FetchState
    BY DEF FetchState
  <2>2. fetch[f].seen \subseteq Key
    BY DEF MoneyType, FetchState
  <2>3. fetch' \in [Fetch -> FetchState] /\ doubt' \in BOOLEAN /\ balance' \subseteq Key
    BY <1>1, <2>1, <2>2, NoLoopType DEF Fetched, GetBalance, SetBalance, FetchFails, MoneyType
  <2>4. UNCHANGED <<payment, page, client>>
    BY <1>1 DEF Fetched, GetBalance, SetBalance, FetchFails
  <2>5. QED
    BY <2>3, <2>4 DEF PaymentType, FormType, StoreType, HookType, CardType, MoneyType, client, form, store, hooks
<1>2. ASSUME NEW f \in Fetch, PaymentResult(f)
      PROVE  TypeOK'
  BY <1>2, LoadType DEF PaymentResult
<1>3. ASSUME NEW k \in Key, Settle(k)
      PROVE  TypeOK'
  BY <1>3 DEF Settle, PaymentType, FormType, StoreType, HookType, CardType, MoneyType, client, form, store, hooks, money
<1>4. ASSUME NEW k \in Key, Redirect(k)
      PROVE  TypeOK'
  BY <1>4, LoadType DEF Redirect
<1>5. ASSUME NEW k \in Key, CardFails(k)
      PROVE  TypeOK'
  BY <1>5 DEF CardFails, PaymentType, FormType, StoreType, HookType, CardType, MoneyType, form, store, hooks, money
<1>6. CASE UNCHANGED vars
  BY <1>6 DEF vars, PaymentType, FormType, StoreType, HookType, CardType, MoneyType, client, form, store, hooks, money
<1>7. QED
  BY <1>1, <1>2, <1>3, <1>4, <1>5, <1>6

LEMMA TypeStep ==
  ASSUME TypeOK, [Next]_vars
  PROVE  TypeOK'
  BY UserTypes, AnswerTypes, LoopTypes, RestTypes DEF Next

-----------------------------------------------------------------------------
(* The page and its hook                                                   *)

\* No request begins, no hook is mounted.
Quieter ==
    /\ UNCHANGED <<page, method, hook>>
    /\ \A h \in Hook : request'[h] \in {request[h], NoKey}

LEMMA QuieterKeeps ==
  ASSUME PageInv, Quieter
  PROVE  PageInv'
  BY DEF PageInv, RequestHasPage, Quieter

LEMMA ClearQuiets ==
  ASSUME HookType, NEW h, ClearTimers(h)
  PROVE  \A i \in Hook : request'[i] \in {request[i], NoKey}
  BY DEF HookType, ClearTimers

LEMMA LoadPage ==
  ASSUME NEW p \in {"home", "gateway", "result"}, NEW F, Load(p, F)
  PROVE  PageInv'
  BY DEF Load, PageInv, RequestHasPage

LEMMA MountPage ==
  ASSUME PageInv, Mount, hook = None, page' = "topup", method' = "MWALLET"
  PROVE  PageInv'
<1>1. UNCHANGED request
  BY DEF Mount, hooks
<1>2. \A h \in Hook : request[h] = NoKey
  BY TopUpPageAssumption DEF PageInv, RequestHasPage
<1>3. QED
  BY <1>1, <1>2 DEF PageInv, RequestHasPage

LEMMA UnmountPage ==
  ASSUME TypeOK, PageInv, Unmount, page' = "topup" \/ method' = "MWALLET"
  PROVE  PageInv'
<1>1. \A h \in Hook : request'[h] = NoKey
  <2>1. CASE hook = None
    BY <2>1, TopUpPageAssumption DEF Unmount, hooks, PageInv, RequestHasPage
  <2>2. CASE hook # None
    BY <2>2 DEF Unmount, ClearTimers, TypeOK, PageInv, RequestHasPage
  <2>3. QED
    BY <2>1, <2>2
<1>2. hook' = None
  BY DEF Unmount
<1>3. QED
  BY <1>1, <1>2 DEF PageInv, RequestHasPage

LEMMA UserPages ==
  ASSUME TypeOK, PageInv, User
  PROVE  PageInv'
<1>1. CASE Reset \/ Edit \/ Visible \/ (\E k \in Key : PayByCard(k)) \/ (\E f \in Fetch : Refresh(f))
  <2>1. Quieter
    BY <1>1 DEF Reset, Edit, Visible, PayByCard, Refresh, Send, Quieter, form, hooks, client
  <2>2. QED
    BY <2>1, QuieterKeeps
<1>2. ASSUME NEW h \in Hook, NEW k \in Key, InitiatePayment(h, k)
      PROVE  PageInv'
  <2>1. UNCHANGED <<page, method, hook>> /\ h = hook
    BY <1>2 DEF InitiatePayment, Send
  <2>2. \A i \in Hook : i # h => request'[i] = request[i]
    BY <1>2 DEF InitiatePayment, TypeOK
  <2>3. QED
    BY <2>1, <2>2 DEF PageInv, RequestHasPage
<1>3. ASSUME NEW m \in {"MWALLET", "CARD"}, SetMethod(m)
      PROVE  PageInv'
  <2>1. CASE m = "MWALLET"
    BY <1>3, <2>1, MountPage DEF SetMethod, PageInv
  <2>2. CASE m = "CARD"
    BY <1>3, <2>2, UnmountPage DEF SetMethod
  <2>3. QED
    BY <2>1, <2>2
<1>4. ASSUME NEW f \in Fetch, Enter(f)
      PROVE  PageInv'
  BY <1>4, MountPage DEF Enter, PageInv, form
<1>5. ASSUME NEW f \in Fetch, Leave(f)
      PROVE  PageInv'
  BY <1>5, UnmountPage DEF Leave
<1>6. ASSUME NEW f \in Fetch, BackToHome(f)
      PROVE  PageInv'
  BY <1>6, LoadPage DEF BackToHome
<1>7. QED
  BY <1>1, <1>2, <1>3, <1>4, <1>5, <1>6 DEF User

LEMMA OtherPages ==
  ASSUME TypeOK, PageInv,
         \/ \E h \in Hook : Answered(h) \/ TimesOut(h)
         \/ \E l \in Loop : Tick(l) \/ Polled(l)
         \/ \E f \in Fetch : Fetched(f)
         \/ \E k \in Key : Settle(k) \/ CardFails(k)
         \/ UNCHANGED vars
  PROVE  PageInv'
<1>1. HookType
  BY TypeParts
<1>2. ASSUME NEW h, NEW l, UNCHANGED <<page, form, hook>>,
             HandleFailure(h, l) \/ \E k, f : HandleSuccess(h, l, k, f)
      PROVE  Quieter
  BY <1>1, <1>2, ClearQuiets DEF HandleFailure, HandleSuccess, Quieter, form
<1>3. ASSUME NEW h \in Hook, Answered(h) \/ TimesOut(h)
      PROVE  Quieter
  <2>1. CASE TopUpPending(h)
    BY <1>1, <2>1 DEF TopUpPending, HookType, Quieter, form
  <2>2. CASE TopUpFailed(h) \/ TimesOut(h) \/ \E f \in Fetch : TopUpSucceeded(h, f)
    BY <1>2, <2>2 DEF TopUpFailed, TimesOut, TopUpSucceeded
  <2>3. QED
    BY <1>3, <2>1, <2>2 DEF Answered
<1>4. ASSUME NEW l \in Loop, Tick(l) \/ Polled(l)
      PROVE  Quieter
  <2>1. CASE Tick(l) \/ PollAgain(l)
    BY <2>1 DEF Tick, PollAgain, Quieter, form
  <2>2. CASE PollFailed(l) \/ \E f \in Fetch : PollSucceeded(l, f)
    BY <1>2, <2>2 DEF PollFailed, PollSucceeded
  <2>3. QED
    BY <1>4, <2>1, <2>2 DEF Polled
<1>5. ASSUME \/ \E f \in Fetch : Fetched(f)
             \/ \E k \in Key : Settle(k) \/ CardFails(k)
             \/ UNCHANGED vars
      PROVE  Quieter
  BY <1>5 DEF Fetched, GetBalance, SetBalance, FetchFails, Settle, CardFails, vars, client, form, hooks, Quieter
<1>6. QED
  BY <1>3, <1>4, <1>5, QuieterKeeps

LEMMA PageStep ==
  ASSUME TypeOK, PageInv, [Next]_vars
  PROVE  PageInv'
<1>1. ASSUME \/ \E f \in Fetch : PaymentResult(f)
             \/ \E k \in Key : Redirect(k)
      PROVE  PageInv'
  BY <1>1, LoadPage DEF PaymentResult, Redirect
<1>2. QED
  BY <1>1, UserPages, OtherPages DEF Next

-----------------------------------------------------------------------------
(* The balance                                                             *)

\* What has been credited stays credited.
CreditsStay == \A k \in Key : payment[k] = "credited" => payment'[k] = "credited"

\* The fetches go on as they were, and the user is told of no other payment.
LEMMA MoneyKept ==
  ASSUME TypeOK, MoneyInv, CreditsStay, UNCHANGED money, told' \in {told, NoKey}
  PROVE  MoneyInv'
<1>1. told \in Key \cup {NoKey} /\ NoKey \notin Key
  BY DEF TypeOK, Key, NoKey
<1>2. Fetching' = Fetching
  BY DEF money, Fetching
<1>3. QED
  BY <1>1, <1>2 DEF MoneyInv, CreditsStay, money

\* A fetch that begins is the only one, or there is doubt.
LEMMA FetchBegins ==
  ASSUME TypeOK, MoneyInv, NEW f \in Fetch, FetchBalance(f)
  PROVE  MoneyInv'
<1>1. SUFFICES ASSUME ~doubt'
               PROVE  MoneyInv'
  BY DEF MoneyInv
<1>2. Fetching = {} /\ (told' # NoKey => payment'[told'] = "credited")
  BY <1>1 DEF FetchBalance
<1>3. fetch \in [Fetch -> FetchState] /\ fetch' = [fetch EXCEPT ![f] = [fetch[f] EXCEPT !.at = "asked"]]
  BY TypeParts DEF MoneyType, FetchBalance
<1>4. fetch'[f].at = "asked" /\ \A g \in Fetch : g # f => fetch'[g] = fetch[g]
  <2>1. fetch[f] \in FetchState
    BY <1>3
  <2>2. fetch'[f] = [fetch[f] EXCEPT !.at = "asked"]
    BY <1>3
  <2>3. fetch'[f].at = "asked"
    BY <2>1, <2>2 DEF FetchState
  <2>4. QED
    BY <1>3, <2>3
<1>5. Fetching' = {f}
  BY <1>2, <1>4 DEF Fetching
<1>6. QED
  BY <1>2, <1>4, <1>5 DEF MoneyInv

LEMMA LoadMoney ==
  ASSUME NEW p, NEW F, Load(p, F), F = {} \/ \E f \in Fetch : F = {f}
  PROVE  MoneyInv'
<1>1. told' = NoKey /\ Fetching' \subseteq F
  BY DEF Load, Begun, NoFetch, Fetching
<1>2. QED
  BY <1>1 DEF MoneyInv

LEMMA SendKeepsCredits ==
  ASSUME TypeOK, NEW k \in Key, Send(k)
  PROVE  CreditsStay
  BY DEF TypeOK, Send, CreditsStay

LEMMA FetchMoney ==
  ASSUME TypeOK, MoneyInv, NEW f \in Fetch, Fetched(f)
  PROVE  MoneyInv'
<1>1. fetch \in [Fetch -> FetchState] /\ told \in Key \cup {NoKey}
  BY TypeParts DEF MoneyType, StoreType
<1>2. UNCHANGED <<payment, told>> /\ f \in Fetching
  BY DEF Fetched, GetBalance, SetBalance, FetchFails, client, Fetching
<1>3. CASE GetBalance(f)
  <2>1. fetch'[f] = [at |-> "read", seen |-> {k \in Key : payment[k] = "credited"}]
    BY <1>1, <1>3 DEF GetBalance
  <2>2. \A g \in Fetch : g # f => fetch'[g] = fetch[g]
    BY <1>1, <1>3 DEF GetBalance
  <2>3. Fetching' = Fetching
    BY <1>2, <2>1, <2>2 DEF Fetching
  <2>4. UNCHANGED <<balance, doubt>>
    BY <1>3 DEF GetBalance
  <2>5. SUFFICES ASSUME ~doubt
                 PROVE  MoneyInv'
    BY <2>4 DEF MoneyInv
  <2>6. Fetching = {f}
    BY <1>2, <2>5 DEF MoneyInv
  <2>7. told # NoKey => told \in fetch'[f].seen
    BY <1>1, <2>1, <2>5 DEF MoneyInv
  <2>8. QED
    BY <1>2, <2>3, <2>4, <2>5, <2>6, <2>7 DEF MoneyInv
<1>4. CASE SetBalance(f)
  <2>1. fetch' = [fetch EXCEPT ![f] = NoFetch] /\ balance' = fetch[f].seen /\ doubt' = doubt /\ fetch[f].at = "read"
    BY <1>4 DEF SetBalance
  <2>2. SUFFICES ASSUME ~doubt
                 PROVE  MoneyInv'
    BY <2>1 DEF MoneyInv
  <2>3. Fetching = {f}
    BY <1>2, <2>2 DEF MoneyInv
  <2>4. Fetching' = {}
    BY <1>1, <2>1, <2>3 DEF Fetching, NoFetch
  <2>5. told # NoKey => payment[told] = "credited" /\ told \in balance'
    BY <1>2, <2>1, <2>2 DEF MoneyInv
  <2>6. QED
    BY <1>2, <2>4, <2>5 DEF MoneyInv
<1>5. CASE FetchFails(f)
  BY <1>5 DEF FetchFails, MoneyInv
<1>6. QED
  BY <1>3, <1>4, <1>5 DEF Fetched

LEMMA UserMoney ==
  ASSUME TypeOK, MoneyInv, User
  PROVE  MoneyInv'
<1>1. CASE Reset \/ Edit \/ Visible \/ \E m \in {"MWALLET", "CARD"} : SetMethod(m)
  BY <1>1, MoneyKept DEF Reset, Edit, Visible, SetMethod, ResetPaymentState, CreditsStay
<1>2. CASE (\E h \in Hook, k \in Key : InitiatePayment(h, k)) \/ (\E k \in Key : PayByCard(k))
  <2>1. CreditsStay
    BY <1>2, SendKeepsCredits DEF InitiatePayment, PayByCard
  <2>2. QED
    BY <1>2, <2>1, MoneyKept DEF InitiatePayment, PayByCard, ResetPaymentState
<1>3. CASE \E f \in Fetch : Enter(f) \/ Leave(f) \/ Refresh(f)
  BY <1>3, FetchBegins DEF Enter, Leave, Refresh
<1>4. CASE \E f \in Fetch : BackToHome(f)
  BY <1>4, LoadMoney DEF BackToHome
<1>5. QED
  BY <1>1, <1>2, <1>3, <1>4 DEF User

LEMMA MoneyStep ==
  ASSUME TypeOK, MoneyInv, [Next]_vars
  PROVE  MoneyInv'
<1>1. ASSUME NEW h \in Hook, Answered(h) \/ TimesOut(h)
      PROVE  MoneyInv'
  <2>1. CASE TopUpFailed(h) \/ TopUpPending(h) \/ TimesOut(h)
    BY <2>1, MoneyKept DEF TopUpFailed, TopUpPending, TimesOut, HandleFailure, CreditsStay
  <2>2. CASE \E f \in Fetch : TopUpSucceeded(h, f)
    BY <2>2, FetchBegins DEF TopUpSucceeded, HandleSuccess
  <2>3. QED
    BY <1>1, <2>1, <2>2 DEF Answered
<1>2. ASSUME NEW l \in Loop, Tick(l) \/ Polled(l)
      PROVE  MoneyInv'
  <2>1. CASE Tick(l) \/ PollFailed(l) \/ PollAgain(l)
    BY <2>1, MoneyKept DEF Tick, PollFailed, PollAgain, HandleFailure, CreditsStay
  <2>2. CASE \E f \in Fetch : PollSucceeded(l, f)
    BY <2>2, FetchBegins DEF PollSucceeded, HandleSuccess
  <2>3. QED
    BY <1>2, <2>1, <2>2 DEF Polled
<1>3. ASSUME NEW f \in Fetch, PaymentResult(f)
      PROVE  MoneyInv'
  BY <1>3, LoadMoney DEF PaymentResult
<1>4. ASSUME NEW k \in Key, Redirect(k)
      PROVE  MoneyInv'
  BY <1>4, LoadMoney DEF Redirect
<1>5. ASSUME NEW k \in Key, Settle(k) \/ CardFails(k)
      PROVE  MoneyInv'
  <2>1. CreditsStay
    BY <1>5 DEF TypeOK, Settle, CardFails, CreditsStay
  <2>2. QED
    BY <1>5, <2>1, MoneyKept DEF Settle, CardFails, client
<1>6. CASE UNCHANGED vars
  BY <1>6, MoneyKept DEF vars, client, CreditsStay
<1>7. QED
  BY <1>1, <1>2, <1>3, <1>4, <1>5, <1>6, UserMoney, FetchMoney DEF Next

-----------------------------------------------------------------------------
(* The theorems                                                            *)

LEMMA InitInvariant ==
  ASSUME Init
  PROVE  IInv
<1>1. TypeOK
  <2>1. PaymentType /\ FormType /\ StoreType /\ CardType
    BY DEF Init, PaymentType, FormType, StoreType, CardType
  <2>2. HookType
    BY NoLoopType DEF Init, HookType
  <2>3. MoneyType
    <3>1. [NoFetch EXCEPT !.at = "asked"] \in FetchState
      BY DEF NoFetch, FetchState
    <3>2. fetch \in [Fetch -> FetchState]
      BY <3>1, NoLoopType DEF Init, Begun
    <3>3. QED
      BY <3>2 DEF Init, MoneyType
  <2>4. QED
    BY <2>1, <2>2, <2>3, TypeParts
<1>2. PageInv
  BY DEF Init, PageInv, RequestHasPage
<1>3. MoneyInv
  <2>1. \E f \in Fetch : Fetching \subseteq {f}
    BY DEF Init, Begun, NoFetch, Fetching
  <2>2. QED
    BY <2>1 DEF Init, MoneyInv
<1>4. QED
  BY <1>1, <1>2, <1>3 DEF IInv

\* In any interleaving of the user, timers, answers and fetches: the store has its types,
\* one instance of the hook at most is mounted and has all the requests, and the balance
\* is not older than the payment the user was told of, unless it is in doubt.
THEOREM Invariance == Spec => []IInv
<1>1. Init => IInv
  BY InitInvariant
<1>2. IInv /\ [Next]_vars => IInv'
  BY TypeStep, PageStep, MoneyStep DEF IInv
<1>3. QED
  BY <1>1, <1>2, PTL DEF Spec

\* A top-up in flight belongs to the hook of the page that is shown: clearAllTimers aborts
\* it on unmounting and on every end, however many instances there have been.
THEOREM RequestsHavePage == Spec => []RequestHasPage
<1>1. IInv => RequestHasPage
  BY DEF IInv, PageInv
<1>2. QED
  BY <1>1, Invariance, PTL

\* handleSuccess fetches the balance in the step that tells the user, so that what he is
\* told of is in the balance when the fetch, if it is the only one, is over.
THEOREM BalanceCatchesUp == Spec => []BalanceShowsPayment
<1>1. IInv => BalanceShowsPayment
  BY DEF IInv, MoneyInv, BalanceShowsPayment
<1>2. QED
  BY <1>1, Invariance, PTL
=============================================================================
