------------------------------ MODULE TopUpPage ------------------------------
(***************************************************************************)
(* The top-up page of the web client: the wallet store, the instances of   *)
(* useJazzCashPayment that have been mounted, with their timers, requests  *)
(* and polling loops, and the balance the home page shows.  The server is   *)
(* what module Payment promises: a payment of a key is opened once, paid    *)
(* and credited once, or it is not.                                        *)
(***************************************************************************)
EXTENDS Naturals, FiniteSets

CONSTANTS
    MaxKey,     \* bound on the idempotency keys ever sent
    Hook,       \* instances of the hook alive at once
    Loop,       \* polling loops alive at once
    Fetch,      \* fetches of the balance in flight at once
    None        \* no instance, no loop

ASSUME TopUpPageAssumption == MaxKey \in Nat /\ None \notin Hook \cup Loop

Key == 1 .. MaxKey
NoKey == 0

VARIABLES
    payment,    \* server: what has become of the payment of each key
    page,       \* "topup", "home", "gateway" or "result"
    method,     \* formData.method
    key,        \* formData.idempotency_key, NoKey for one never sent
    hook,       \* the mounted instance of useJazzCashPayment
    status,     \* store
    txn,        \* store: txnRefNo, by the key of its payment
    timer,      \* timerIntervalRef of each instance
    leaked,     \* instances with an interval no ref points at
    request,    \* the topUp of each instance in flight; isActive
    card,       \* card payments in flight, of this page or of one left
    loop,       \* polling loops: waiting for the next tick, or for an answer
    pollTimeout,\* pollTimeoutRef of each instance
    balance,    \* store: the payments in the balance that is shown
    fetch,      \* fetchBalance calls in flight
    doubt,      \* auxiliary: may the balance be older than the server's
    told        \* auxiliary: the payment the user was last told has succeeded

form == <<method, key>>
store == <<status, txn>>
hooks == <<timer, leaked, request, loop, pollTimeout>>
money == <<balance, fetch, doubt>>
client == <<form, hook, store, hooks, card, told>>
vars == <<payment, page, client, money>>

NoLoop == [at |-> "none", hook |-> None, key |-> NoKey]
NoFetch == [at |-> "idle", seen |-> {}]
Begun(F) == [f \in Fetch |-> IF f \in F THEN [NoFetch EXCEPT !.at = "asked"] ELSE NoFetch]

TypeOK ==
    /\ payment \in [Key -> {"none", "sent", "paid", "credited"}]
    /\ page \in {"topup", "home", "gateway", "result"}
    /\ method \in {"MWALLET", "CARD"}
    /\ {key, txn} \subseteq Key \cup {NoKey}
    /\ hook \in Hook \cup {None}
    /\ status \in {"idle", "processing", "success", "failed"}
    /\ timer \in [Hook -> BOOLEAN]
    /\ leaked \in [Hook -> BOOLEAN]
    /\ request \in [Hook -> Key \cup {NoKey}]
    /\ card \in [Key -> {"none", "mine", "old"}]
    /\ loop \in [Loop -> [at : {"none", "waiting", "polling"}, hook : Hook \cup {None},
                          key : Key \cup {NoKey}]]
    /\ pollTimeout \in [Hook -> Loop \cup {None}]
    /\ balance \subseteq Key
    /\ fetch \in [Fetch -> [at : {"idle", "asked", "read"}, seen : SUBSET Key]]
    /\ doubt \in BOOLEAN
    /\ told \in Key \cup {NoKey}

\* The home page has just been loaded.
Init ==
    /\ payment = [k \in Key |-> "none"]
    /\ page = "home"
    /\ method = "MWALLET"
    /\ key = NoKey
    /\ hook = None
    /\ status = "idle"
    /\ txn = NoKey
    /\ timer = [h \in Hook |-> FALSE]
    /\ leaked = [h \in Hook |-> FALSE]
    /\ request = [h \in Hook |-> NoKey]
    /\ card = [k \in Key |-> "none"]
    /\ loop = [l \in Loop |-> NoLoop]
    /\ pollTimeout = [h \in Hook |-> None]
    /\ balance = {}
    /\ told = NoKey
    /\ \E f \in Fetch : fetch = Begun({f})
    /\ doubt = FALSE

-----------------------------------------------------------------------------
(* The balance *)

Fetching == {f \in Fetch : fetch[f].at # "idle"}

\* fetchBalance begins.  It may be overtaken by one that it overlaps, and may
\* read the balance before the server has credited a payment told to be paid.
FetchBalance(f) ==
    /\ fetch[f].at = "idle"
    /\ fetch' = [fetch EXCEPT ![f].at = "asked"]
    /\ doubt' = (Fetching # {} \/ (told' # NoKey /\ payment'[told'] # "credited"))
    /\ UNCHANGED balance

Refresh(f) ==
    /\ page = "home"
    /\ UNCHANGED <<payment, page, client>>
    /\ FetchBalance(f)

GetBalance(f) ==
    /\ fetch[f].at = "asked"
    /\ fetch' = [fetch EXCEPT ![f] = [at |-> "read",
                                      seen |-> {k \in Key : payment[k] = "credited"}]]
    /\ UNCHANGED <<payment, page, client, balance, doubt>>

SetBalance(f) ==
    /\ fetch[f].at = "read"
    /\ balance' = fetch[f].seen
    /\ fetch' = [fetch EXCEPT ![f] = NoFetch]
    /\ UNCHANGED <<payment, page, client, doubt>>

\* dataError is set, and nothing fetches again.
FetchFails(f) ==
    /\ f \in Fetching
    /\ fetch' = [fetch EXCEPT ![f] = NoFetch]
    /\ doubt' = TRUE
    /\ UNCHANGED <<payment, page, client, balance>>

-----------------------------------------------------------------------------
(* The hook *)

\* Clearing that leaves the request to itself.
ClearTimersOnly(h) ==
    /\ timer' = [timer EXCEPT ![h] = FALSE]
    /\ pollTimeout' = [pollTimeout EXCEPT ![h] = None]
    /\ UNCHANGED <<leaked, request>>

\* clearAllTimers knows what the refs of its own instance point at: the
\* interval, the timeout and the request, which it aborts.
ClearTimers(h) ==
    /\ timer' = [timer EXCEPT ![h] = FALSE]
    /\ pollTimeout' = [pollTimeout EXCEPT ![h] = None]
    /\ request' = [request EXCEPT ![h] = NoKey]
    /\ UNCHANGED leaked

\* The loops that go on then: not the one whose timeout was cleared, nor that
\* which has just been told how the payment ended.
Going(h, over) ==
    [l \in Loop |-> IF l = pollTimeout[h] \/ l = over THEN NoLoop ELSE loop[l]]

\* A success that does not fetch the balance.
HandleSuccessQuietly(h, over, k, f) ==
    /\ ClearTimers(h)
    /\ loop' = Going(h, over)
    /\ status' = "success"
    /\ told' = k
    /\ UNCHANGED <<txn, money>>

\* h is told, by its loop over or otherwise, that payment k has succeeded.
HandleSuccess(h, over, k, f) ==
    /\ ClearTimers(h)
    /\ loop' = Going(h, over)
    /\ status' = "success"
    /\ told' = k
    /\ FetchBalance(f)
    /\ UNCHANGED txn

HandleFailure(h, over) ==
    /\ ClearTimers(h)
    /\ loop' = Going(h, over)
    /\ status' = "failed"
    /\ told' = NoKey
    /\ UNCHANGED <<txn, money>>

\* startPolling, if nothing is scheduled.
StartPolling(h) ==
    IF pollTimeout[h] # None THEN UNCHANGED <<loop, pollTimeout>>
    ELSE LET l == CHOOSE l \in Loop : loop[l] = NoLoop IN
         /\ \E free \in Loop : loop[free] = NoLoop
         /\ loop' = [loop EXCEPT ![l] = [at |-> "waiting", hook |-> h, key |-> NoKey]]
         /\ pollTimeout' = [pollTimeout EXCEPT ![h] = l]

\* JazzCashPayment is mounted: an instance of which no closure is left.
Free(h) ==
    /\ h # hook
    /\ ~leaked[h]
    /\ \A l \in Loop : loop[l].hook # h

Mount ==
    /\ \E h \in Hook : Free(h)
    /\ hook' = CHOOSE h \in Hook : Free(h)
    /\ UNCHANGED hooks

Unmount ==
    /\ hook' = None
    /\ IF hook = None THEN UNCHANGED hooks
       ELSE ClearTimers(hook) /\ loop' = Going(hook, None)

\* A second interval overwrites the ref of a first that still runs.
StartTimer(h) ==
    /\ timer' = [timer EXCEPT ![h] = TRUE]
    /\ leaked' = [leaked EXCEPT ![h] = @ \/ timer[h]]

ResetPaymentState(s) == status' = s /\ txn' = NoKey /\ told' = NoKey

\* Send the form under its key, a new one if it has changed since the last time.
Send(k) ==
    /\ IF key = NoKey THEN payment[k] = "none" /\ \A j \in Key : j < k => payment[j] # "none"
       ELSE k = key
    /\ key' = k
    /\ payment' = [payment EXCEPT ![k] = IF @ = "none" THEN "sent" ELSE @]
    /\ UNCHANGED method

-----------------------------------------------------------------------------
(* The user *)

\* initiatePayment, behind the button that is shown when nothing has begun.
InitiatePayment(h, k) ==
    /\ h = hook
    /\ status = "idle"
    /\ request[h] = NoKey
    /\ Send(k)
    /\ ResetPaymentState("processing")
    /\ StartTimer(h)
    /\ request' = [request EXCEPT ![h] = k]
    /\ UNCHANGED <<page, hook, card, loop, pollTimeout, money>>

\* "Try Again".
Reset ==
    /\ hook # None
    /\ status = "failed"
    /\ ResetPaymentState("idle")
    /\ UNCHANGED <<payment, page, form, hook, hooks, card, money>>

\* A field of the form is edited, even while a payment is in progress.
Edit ==
    /\ page = "topup"
    /\ key' = NoKey
    /\ UNCHANGED <<payment, page, method, hook, store, hooks, card, money, told>>

\* The form given the name that the selector has for the method.
SetMethodByName(m) ==
    /\ page = "topup"
    /\ method # m
    /\ method' = IF m = "MWALLET" THEN "jazzcash" ELSE "card"
    /\ key' = NoKey
    /\ IF m = "MWALLET" THEN Mount ELSE Unmount
    /\ UNCHANGED <<payment, page, store, card, money, told>>

SetMethod(m) ==
    /\ page = "topup"
    /\ method # m
    /\ method' = m
    /\ key' = NoKey
    /\ IF m = "MWALLET" THEN Mount ELSE Unmount
    /\ UNCHANGED <<payment, page, store, card, money, told>>

\* The page is shown and fetches the balance.  Its form is empty: resetFormData
\* runs now, but nobody has read the form since the page was left.
Enter(f) ==
    /\ page \in {"home", "result"}
    /\ page' = "topup"
    /\ Mount
    /\ UNCHANGED <<payment, form, store, card, told>>
    /\ FetchBalance(f)

\* Home, whose card fetches the balance.  What the store says of the payment
\* stays; what the hook was doing about it ends.
Leave(f) ==
    /\ page \in {"topup", "result"}
    /\ page' = "home"
    /\ Unmount
    /\ method' = "MWALLET"
    /\ key' = NoKey
    /\ card' = [k \in Key |-> IF card[k] = "mine" THEN "old" ELSE card[k]]
    /\ UNCHANGED <<payment, store, told>>
    /\ FetchBalance(f)

\* The client is loaded again at p, which may fetch the balance.
Load(p, begun) ==
    /\ page' = p
    /\ method' = "MWALLET"
    /\ key' = NoKey
    /\ hook' = None
    /\ status' = "idle"
    /\ txn' = NoKey
    /\ timer' = [h \in Hook |-> FALSE]
    /\ leaked' = [h \in Hook |-> FALSE]
    /\ request' = [h \in Hook |-> NoKey]
    /\ card' = [k \in Key |-> "none"]
    /\ loop' = [l \in Loop |-> NoLoop]
    /\ pollTimeout' = [h \in Hook |-> None]
    /\ balance' = {}
    /\ told' = NoKey
    /\ fetch' = Begun(begun)
    /\ doubt' = FALSE
    /\ UNCHANGED payment

\* "Back to Home" after a success, or the reload button of the browser.
BackToHome(f) == page \in {"topup", "home"} /\ Load("home", {f})

\* handleCardPayment, behind a button that is disabled while isLoading.
PayByCard(k) ==
    /\ page = "topup"
    /\ method = "CARD"
    /\ \A j \in Key : card[j] # "mine"
    /\ Send(k)
    /\ card' = [card EXCEPT ![k] = "mine"]
    /\ UNCHANGED <<page, hook, store, hooks, money, told>>

\* The tab is shown again: the effect of the mounted hook polls.
Visible ==
    /\ hook # None
    /\ status = "processing"
    /\ StartPolling(hook)
    /\ UNCHANGED <<payment, page, form, hook, store, timer, leaked, request, card, money, told>>

-----------------------------------------------------------------------------
(* The server *)

\* What has been sent may be paid, by a customer who approves it, or never: it
\* got lost, is open or was refused.  The server's poller or JazzCash's callback
\* credits what is paid.
Settle(k) ==
    /\ \/ payment[k] = "sent" /\ payment' = [payment EXCEPT ![k] = "paid"]
       \/ payment[k] = "paid" /\ payment' = [payment EXCEPT ![k] = "credited"]
    /\ UNCHANGED <<page, client, money>>

Paid(k) == payment[k] \in {"paid", "credited"}

-----------------------------------------------------------------------------
(* Answers and timers *)

\* SUCCESS; a request that is repeated may be told so just before the credit.
TopUpSucceeded(h, f) ==
    /\ request[h] # NoKey
    /\ Paid(request[h])
    /\ UNCHANGED payment
    /\ HandleSuccess(h, None, request[h], f)
    /\ UNCHANGED <<page, form, hook, card>>

\* PENDING: the store knows the payment, and polling starts.
TopUpPending(h) ==
    /\ request[h] # NoKey
    /\ payment[request[h]] = "sent"
    /\ txn' = request[h]
    /\ request' = [request EXCEPT ![h] = NoKey]
    /\ StartPolling(h)
    /\ UNCHANGED <<payment, page, form, hook, status, timer, leaked, card, money, told>>

\* FAILED, an error, a timeout of the request, or a form that is not valid.
TopUpFailed(h) ==
    /\ request[h] # NoKey
    /\ HandleFailure(h, None)
    /\ UNCHANGED <<payment, page, form, hook, card>>

\* The countdown of an interval of h is over; one that has leaked runs on.
TimesOut(h) ==
    /\ timer[h] \/ leaked[h]
    /\ HandleFailure(h, None)
    /\ UNCHANGED <<payment, page, form, hook, card>>

\* A loop that goes on as long as there is a payment.
PollsWhileKnown == txn # NoKey

\* What a loop asks the store before each request and each second of waiting.
Polls == status = "processing" /\ txn # NoKey

Tick(l) ==
    /\ loop[l].at = "waiting"
    /\ pollTimeout' = [pollTimeout EXCEPT ![loop[l].hook] = None]
    /\ loop' = [loop EXCEPT ![l] = IF Polls THEN [@ EXCEPT !.at = "polling", !.key = txn] ELSE NoLoop]
    /\ UNCHANGED <<payment, page, form, hook, store, timer, leaked, request, card, money, told>>

\* A status check that sees the payment credits it.
PollSucceeded(l, f) ==
    /\ loop[l].at = "polling"
    /\ Paid(loop[l].key)
    /\ payment' = [payment EXCEPT ![loop[l].key] = "credited"]
    /\ HandleSuccess(loop[l].hook, l, loop[l].key, f)
    /\ UNCHANGED <<page, form, hook, card>>

\* FAILED: refused, or open for more than two minutes.
PollFailed(l) ==
    /\ loop[l].at = "polling"
    /\ payment[loop[l].key] = "sent"
    /\ HandleFailure(loop[l].hook, l)
    /\ UNCHANGED <<payment, page, form, hook, card>>

\* PENDING, or an error: the next cycle.
PollAgain(l) ==
    /\ loop[l].at = "polling"
    /\ IF Polls
       THEN /\ loop' = [loop EXCEPT ![l].at = "waiting", ![l].key = NoKey]
            /\ pollTimeout' = [pollTimeout EXCEPT ![loop[l].hook] = l]
       ELSE /\ loop' = [loop EXCEPT ![l] = NoLoop]
            /\ UNCHANGED pollTimeout
    /\ UNCHANGED <<payment, page, form, hook, store, timer, leaked, request, card, money, told>>

\* The answer to a card payment takes the browser to JazzCash, whatever page
\* it is on by then; the callback brings it back to the result.
Redirect(k) ==
    /\ card[k] # "none"
    /\ payment[k] = "sent"
    /\ Load("gateway", {})

CardFails(k) ==
    /\ card[k] # "none"
    /\ card' = [card EXCEPT ![k] = "none"]
    /\ UNCHANGED <<payment, page, form, hook, store, hooks, money, told>>

PaymentResult(f) ==
    /\ page = "gateway"
    /\ \/ (\E k \in Key : payment[k] = "credited") /\ Load("result", {f})
       \/ Load("result", {})

-----------------------------------------------------------------------------
User ==
    \/ Reset \/ Edit \/ Visible
    \/ \E h \in Hook, k \in Key : InitiatePayment(h, k)
    \/ \E k \in Key : PayByCard(k)
    \/ \E m \in {"MWALLET", "CARD"} : SetMethod(m)
    \/ \E f \in Fetch : Enter(f) \/ Leave(f) \/ BackToHome(f) \/ Refresh(f)

Answered(h) == TopUpFailed(h) \/ TopUpPending(h) \/ \E f \in Fetch : TopUpSucceeded(h, f)
Polled(l) == PollFailed(l) \/ PollAgain(l) \/ \E f \in Fetch : PollSucceeded(l, f)
Fetched(f) == GetBalance(f) \/ SetBalance(f) \/ FetchFails(f)

Next ==
    \/ User
    \/ \E h \in Hook : Answered(h) \/ TimesOut(h)
    \/ \E l \in Loop : Tick(l) \/ Polled(l)
    \/ \E f \in Fetch : Fetched(f) \/ PaymentResult(f)
    \/ \E k \in Key : Settle(k) \/ Redirect(k) \/ CardFails(k)

Spec == Init /\ [][Next]_vars

\* Intervals and timeouts fire, status checks are answered or time out.
Fairness ==
    /\ \A h \in Hook : WF_vars(TimesOut(h))
    /\ \A l \in Loop : WF_vars(Tick(l) \/ Polled(l))

FairSpec == Spec /\ Fairness

-----------------------------------------------------------------------------
\* The user who has been told that his payment succeeded is not left with a
\* balance that lacks it, if no fetch overlapped another, none failed, and the
\* server had credited it by then.
BalanceShowsPayment ==
    status = "success" /\ Fetching = {} /\ ~doubt => told = NoKey \/ told \in balance

\* A payment request is in flight only for the page that is shown: leaving it,
\* changing the method, a failure or a success aborts it, so that no late
\* answer speaks of it.
RequestHasPage == \A h \in Hook : request[h] # NoKey => h = hook

\* Polling stops when the payment has ended, also in the instances left behind.
PollingStops ==
    \A l \in Loop : loop[l] # NoLoop /\ status # "processing"
                        ~> loop[l] = NoLoop \/ status = "processing"

\* "The UI will continue showing "Request sent" until the timer naturally hits
\* 60s": a page that shows a payment in progress does not do so for ever.
ProcessingEnds ==
    hook # None /\ status = "processing" ~> status # "processing" \/ hook = None
=============================================================================
