------------------------------- MODULE TopUp --------------------------------
(***************************************************************************)
(* Top-ups of one user's wallet (internal/payment): the request that makes *)
(* a payment, JazzCash, the card callback, status checks, and the poller.  *)
(*                                                                         *)
(* No transaction is held over a call to the gateway, so each SQL          *)
(* statement or transaction and each call is an action, and every answer   *)
(* may be old when it is used.  The deposit itself is one action: the      *)
(* Ledger module shows that it is whole or not at all.                     *)
(***************************************************************************)
EXTENDS Naturals, FiniteSets

CONSTANTS
  Key,            \* idempotency keys
  Txn,            \* txn_ref_no of the rows of gateway_transactions
  NoKey,
  Method,         \* payment methods in use, of "MWALLET" and "CARD"
  Request,        \* HTTP requests that may be in progress at once
  Poller,         \* goroutines of startPollingForTransaction at once
  MaxConcurrent,  \* tokens of the rate limiter
  MaxClaimed      \* bounds the answers of callbacks that the gateway has not given

ASSUME TopUpAssumption ==
  /\ NoKey \notin Key
  /\ Method \subseteq {"MWALLET", "CARD"}
  /\ MaxConcurrent \in Nat \ {0}
  /\ MaxClaimed \in Nat

\* The process has finitely many goroutines at a time.
ASSUME PollerAssumption == IsFiniteSet(Poller)

VARIABLES
  status,      \* txn |-> status of its row, "none" before there is one
  key,         \* txn |-> idempotency_key
  method,      \* txn |-> payment_method
  is_polling,  \* txn |-> is_polling
  old,         \* txn |-> created more than 120 seconds ago
  posted,      \* txn |-> its JAZZCASH_DEPOSIT transactions in the ledger
  claimed,     \* history: final answers of callbacks that the gateway had not given
  gateway,     \* txn |-> what JazzCash knows of it
  req,         \* request |-> where it is and what it has been told
  poller,      \* poller |-> the same
  tokens       \* tokens in the rate limiter

rows == <<status, key, method, is_polling>>
past == <<old, claimed>>
vars == <<rows, past, posted, gateway, req, poller, tokens>>

Answer == {"PENDING", "UNKNOWN", "SUCCESS", "FAILED"}
Idle == [pc |-> "idle"]
Off == [pc |-> "off"]

\* What a request does when it knows the status of a payment.
Then == [op : {"topUp", "status"}] \cup [op : {"create"}, key : Key, method : Method]

RequestState ==
  {Idle}
    \cup [pc : {"create"}, key : Key, method : Method]
    \cup [pc : {"submit"}, txn : Txn]
    \cup [pc : {"inquire"}, txn : Txn, then : Then]
    \cup [pc : {"phase1", "phase2"}, txn : Txn, then : Then, answer : Answer]
    \cup [pc : {"reply"}, txn : Txn, then : Then, answer : Answer]

PollerState ==
  {Off}
    \cup [pc : {"claim"}, txn : Txn]
    \cup [pc : {"wait", "acquire", "inquire", "clear"}, txn : Txn, expired : BOOLEAN]
    \cup [pc : {"phase1", "phase2"}, txn : Txn, expired : BOOLEAN, answer : Answer]

TableType ==
  /\ status \in [Txn -> Answer \cup {"none"}]
  /\ key \in [Txn -> Key \cup {NoKey}]
  /\ method \in [Txn -> {"MWALLET", "CARD"}]
  /\ is_polling \in [Txn -> BOOLEAN]
  /\ old \in [Txn -> BOOLEAN]
  /\ claimed \subseteq Txn \X {"SUCCESS", "FAILED"}
  /\ posted \in [Txn -> Nat]
  /\ gateway \in [Txn -> {"absent", "pending", "paid", "declined"}]

TypeOK ==
  /\ TableType
  /\ req \in [Request -> RequestState]
  /\ poller \in [Poller -> PollerState]
  /\ tokens \in 0..MaxConcurrent

-----------------------------------------------------------------------------
(* Queries, and the two phases of finalizeTransaction                      *)

Rows == {t \in Txn : status[t] # "none"}

\* A look-up by key that sees only what is not finished.
WithKeyUnfinished(k) == {t \in Rows : key[t] = k /\ status[t] \in {"PENDING", "UNKNOWN"}}

\* GetByIdempotencyKey
WithKey(k) == {t \in Rows : key[t] = k}

\* GetPendingTransaction, which takes any one of them
Open == {t \in Rows : status[t] \in {"PENDING", "UNKNOWN"}}

Terminal(a) == a \in {"SUCCESS", "FAILED"}

\* An answer without a code taken for a failure.
InquiryDefaultsToFailed(t) ==
  CASE gateway[t] = "absent"   -> {"FAILED"}
    [] gateway[t] = "pending"  -> {"PENDING", "FAILED"}
    [] gateway[t] = "paid"     -> {"SUCCESS"}
    [] gateway[t] = "declined" -> {"FAILED"}

\* Inquiry: what the gateway answers about t, in the code's terms.  A payment it does not
\* know has no payment code in the answer, and neither no code nor an unlisted one, as "004"
\* for an empty account, is a failure: it is UNKNOWN.
Inquiry(t) ==
  CASE gateway[t] = "absent"   -> {"UNKNOWN"}
    [] gateway[t] = "pending"  -> {"PENDING", "UNKNOWN"}
    [] gateway[t] = "paid"     -> {"SUCCESS"}
    [] gateway[t] = "declined" -> {"FAILED", "UNKNOWN"}

UpdateGatewayTransactionStatus(t, a) == status' = [status EXCEPT ![t] = a]

ClearPollingStatus(t) == is_polling' = [is_polling EXCEPT ![t] = FALSE]

\* Phase 1 that clears is_polling whatever the answer is.
UpdateStatusAndClear(t, a) == UpdateGatewayTransactionStatus(t, a) /\ ClearPollingStatus(t)

\* Phase 1: the status is written whatever it was.
UpdateStatus(t, a) ==
  /\ UpdateGatewayTransactionStatus(t, a)
  /\ IF Terminal(a) THEN ClearPollingStatus(t) ELSE UNCHANGED is_polling

\* A deposit whose reference is not unique.
CreditWalletAgain(t) == posted' = [posted EXCEPT ![t] = @ + 1]

\* Phase 2.  A second JAZZCASH_DEPOSIT of t violates UNIQUE(type, reference_id), and
\* the transaction is rolled back.
CreditWallet(t) ==
  /\ posted[t] = 0
  /\ posted' = [posted EXCEPT ![t] = 1]

-----------------------------------------------------------------------------
(* InitiatePayment                                                         *)

Goto(r, s) == req' = [req EXCEPT ![r] = s]

CheckTransactionStatus(t, then) == [pc |-> "inquire", txn |-> t, then |-> then]

\* handleExistingTransaction: only a SUCCESS is believed.
HandleExisting(r, t) ==
  Goto(r, IF status[t] = "SUCCESS" THEN Idle ELSE CheckTransactionStatus(t, [op |-> "topUp"]))

\* The two look-ups at the start.  An error of the second one is dropped.
InitiatePayment(r) ==
  /\ req[r] = Idle
  /\ \E k \in Key, m \in Method :
       IF WithKey(k) # {}
       THEN \E t \in WithKey(k) : HandleExisting(r, t)
       ELSE \/ \E t \in Open :
                 Goto(r, CheckTransactionStatus(t, [op |-> "create", key |-> k, method |-> m]))
            \/ Goto(r, [pc |-> "create", key |-> k, method |-> m])
  /\ UNCHANGED <<rows, past, posted, gateway, poller, tokens>>

Insert(t, k, m) ==
  /\ status' = [status EXCEPT ![t] = "PENDING"]
  /\ key' = [key EXCEPT ![t] = k]
  /\ method' = [method EXCEPT ![t] = m]

\* idempotency_key is UNIQUE: a row that has come since the look-up is used instead.
CreateGatewayTransaction(r) ==
  /\ req[r].pc = "create"
  /\ \/ /\ WithKey(req[r].key) = {}
        /\ \E t \in Txn \ Rows :
             /\ Insert(t, req[r].key, req[r].method)
             /\ Goto(r, IF req[r].method = "CARD" THEN Idle ELSE [pc |-> "submit", txn |-> t])
        /\ UNCHANGED is_polling
     \/ /\ \E t \in WithKey(req[r].key) : HandleExisting(r, t)
        /\ UNCHANGED rows
  /\ UNCHANGED <<past, posted, gateway, poller, tokens>>

\* JazzCash takes a payment, unless it has one with this txn_ref_no.
Charge(t) ==
  gateway' = IF gateway[t] = "absent" THEN [gateway EXCEPT ![t] = "pending"] ELSE gateway

\* SubmitMWallet; the answer may be lost.
SubmitMWallet(r) ==
  /\ req[r].pc = "submit"
  /\ Charge(req[r].txn)
  /\ \/ Goto(r, CheckTransactionStatus(req[r].txn, [op |-> "topUp"]))
     \/ Goto(r, Idle)
  /\ UNCHANGED <<rows, past, posted, poller, tokens>>

\* The request ends with an error: the amount or limit check (create), a malformed phone
\* number (submit), the gateway or the database.  While another payment is looked up, the
\* error is a nil dereference that the middleware recovers from.
Abandon(r) ==
  /\ \/ req[r].pc \in {"create", "submit", "inquire"}
     \/ req[r].pc = "phase1" /\ req[r].answer = "SUCCESS"
  /\ Goto(r, Idle)
  /\ UNCHANGED <<rows, past, posted, gateway, poller, tokens>>

-----------------------------------------------------------------------------
(* GetTransactionStatus and checkTransactionStatus                         *)

\* A check that trusts a SUCCESS in the row, as handleExistingTransaction does.
GetTransactionStatusTrusting(r, t) ==
  /\ req[r] = Idle /\ t \in Rows /\ status[t] # "SUCCESS"
  /\ Goto(r, CheckTransactionStatus(t, [op |-> "status"]))
  /\ UNCHANGED <<rows, past, posted, gateway, poller, tokens>>

\* CheckStatus of the client, VerifyTransaction of an administrator.
GetTransactionStatus(r, t) ==
  /\ req[r] = Idle /\ t \in Rows
  /\ Goto(r, CheckTransactionStatus(t, [op |-> "status"]))
  /\ UNCHANGED <<rows, past, posted, gateway, poller, tokens>>

\* Where a request goes when it has answer a: a new payment is made whatever the old one is.
Resume(a, s) ==
  IF s.then.op = "create"
  THEN [pc |-> "create", key |-> s.then.key, method |-> s.then.method]
  ELSE [pc |-> "reply", txn |-> s.txn, then |-> s.then, answer |-> a]

\* Without a final answer after 120 seconds the client is told FAILED.
Told(s) == IF Terminal(s.answer) THEN s.answer ELSE "FAILED"

Inquire(r) ==
  /\ req[r].pc = "inquire"
  /\ \E a \in Inquiry(req[r].txn) :
       Goto(r, IF Terminal(a) \/ old[req[r].txn]
               THEN [pc |-> "phase1", txn |-> req[r].txn, then |-> req[r].then, answer |-> a]
               ELSE Resume(a, req[r]))
  /\ UNCHANGED <<rows, past, posted, gateway, poller, tokens>>

\* An error of phase 1 matters for a SUCCESS only (Abandon).
Finalize(r) ==
  /\ req[r].pc = "phase1"
  /\ \/ /\ UpdateStatus(req[r].txn, req[r].answer)
        /\ Goto(r, IF req[r].answer = "SUCCESS" THEN [req[r] EXCEPT !.pc = "phase2"]
                   ELSE Resume(Told(req[r]), req[r]))
     \/ /\ req[r].answer # "SUCCESS"
        /\ Goto(r, Resume(Told(req[r]), req[r]))
        /\ UNCHANGED <<status, is_polling>>
  /\ UNCHANGED <<key, method, past, posted, gateway, poller, tokens>>

\* Whether the credit succeeds, fails or was there before makes no difference to the reply.
FinalizeCredit(r) ==
  /\ req[r].pc = "phase2"
  /\ CreditWallet(req[r].txn) \/ UNCHANGED posted
  /\ Goto(r, Resume("SUCCESS", req[r]))
  /\ UNCHANGED <<rows, past, gateway, poller, tokens>>

\* The TopUp handler starts a poller for a mobile-wallet payment that is PENDING.
Reply(r) ==
  /\ req[r].pc = "reply"
  /\ IF req[r].then.op = "topUp" /\ method[req[r].txn] = "MWALLET" /\ req[r].answer = "PENDING"
     THEN \E w \in Poller :
            /\ poller[w] = Off
            /\ poller' = [poller EXCEPT ![w] = [pc |-> "claim", txn |-> req[r].txn]]
     ELSE UNCHANGED poller
  /\ Goto(r, Idle)
  /\ UNCHANGED <<rows, past, posted, gateway, tokens>>

-----------------------------------------------------------------------------
(* Cards                                                                   *)

\* The browser posts the form of CardPaymentPage to JazzCash.  The page is public, comes for
\* any payment that is PENDING, whatever its method, and changes nothing; every row has been
\* PENDING, and the browser may have kept the form since.
PostForm(t) ==
  /\ t \in Rows
  /\ Charge(t)
  /\ UNCHANGED <<rows, past, posted, req, poller, tokens>>

\* The gateway has not decided what a callback says.
Unconfirmed(t, a) == Terminal(a) /\ a \notin Inquiry(t)

\* CardCallBack, one transaction: the status its form brings is taken as it is, since
\* ParseAndVerifyCardCallback leaves the hash alone and neither the method of the row nor the
\* gateway is asked.  It may come never, once, again or late.  If the credit violates the
\* unique constraint its commit fails, and with it the update of the status.
CompleteCardPayment(t) ==
  /\ t \in Rows
  /\ \E a \in Answer :
       /\ UpdateGatewayTransactionStatus(t, a)
       /\ IF a = "SUCCESS" THEN CreditWallet(t) ELSE UNCHANGED posted
       /\ claimed' = IF Unconfirmed(t, a) THEN claimed \cup {<<t, a>>} ELSE claimed
       /\ claimed' # claimed => Cardinality(claimed) < MaxClaimed
  /\ UNCHANGED <<key, method, is_polling, old, gateway, req, poller, tokens>>

-----------------------------------------------------------------------------
(* The poller                                                              *)

PollGoto(w, s) == poller' = [poller EXCEPT ![w] = s]

Waiting(w) == [pc |-> "wait", txn |-> poller[w].txn, expired |-> poller[w].expired]

\* RateLimiter.Release drops a token that has no place.
Release == tokens' = IF tokens < MaxConcurrent THEN tokens + 1 ELSE tokens

\* UpdatePollingStatus: a poller of a transaction that is polled already ends.
UpdatePollingStatus(w) ==
  /\ poller[w].pc = "claim"
  /\ \/ /\ ~ is_polling[poller[w].txn]
        /\ is_polling' = [is_polling EXCEPT ![poller[w].txn] = TRUE]
        /\ PollGoto(w, [pc |-> "wait", txn |-> poller[w].txn, expired |-> FALSE])
     \/ UNCHANGED is_polling /\ PollGoto(w, Off)
  /\ UNCHANGED <<status, key, method, past, posted, gateway, req, tokens>>

\* The context's 120 seconds are over; the row is older than the poller.
Expire(w) ==
  /\ poller[w].pc \notin {"off", "claim", "clear"}
  /\ ~ poller[w].expired /\ old[poller[w].txn]
  /\ PollGoto(w, [poller[w] EXCEPT !.expired = TRUE])
  /\ UNCHANGED <<rows, past, posted, gateway, req, tokens>>

\* select in the loop: the ticker and the context may both be ready.
Tick(w) ==
  /\ poller[w].pc = "wait"
  /\ PollGoto(w, [poller[w] EXCEPT !.pc = "acquire"])
  /\ UNCHANGED <<rows, past, posted, gateway, req, tokens>>

\* Acquire that takes a token where there is none.
AcquireAlways(w) ==
  /\ poller[w].pc = "acquire"
  /\ tokens' = tokens - 1
  /\ PollGoto(w, [poller[w] EXCEPT !.pc = "inquire"])
  /\ UNCHANGED <<rows, past, posted, gateway, req>>

Acquire(w) ==
  /\ poller[w].pc = "acquire" /\ tokens > 0
  /\ tokens' = tokens - 1
  /\ PollGoto(w, [poller[w] EXCEPT !.pc = "inquire"])
  /\ UNCHANGED <<rows, past, posted, gateway, req>>

\* The context ends while the poller wants a token: it is "done", and is_polling stays.
AcquireCancelled(w) ==
  /\ poller[w].pc = "acquire" /\ poller[w].expired
  /\ PollGoto(w, Off)
  /\ UNCHANGED <<rows, past, posted, gateway, req, tokens>>

\* An early return before the token is given back.
PollInquireKeepsToken(w) ==
  /\ poller[w].pc = "inquire"
  /\ \/ /\ ~ poller[w].expired
        /\ \E a \in Inquiry(poller[w].txn) :
             PollGoto(w, [pc |-> "phase1", txn |-> poller[w].txn, expired |-> FALSE,
                          answer |-> a])
     \/ PollGoto(w, Waiting(w))
  /\ UNCHANGED <<rows, past, posted, gateway, req, tokens>>

PollInquire(w) ==
  /\ poller[w].pc = "inquire"
  /\ \/ /\ ~ poller[w].expired
        /\ \E a \in Inquiry(poller[w].txn) :
             PollGoto(w, [pc |-> "phase1", txn |-> poller[w].txn, expired |-> FALSE,
                          answer |-> a])
        /\ UNCHANGED tokens
     \/ PollGoto(w, Waiting(w)) /\ Release
  /\ UNCHANGED <<rows, past, posted, gateway, req>>

\* Phase 1 by a poller, for every answer; its context ends its transactions too.
PollFinalize(w) ==
  /\ poller[w].pc = "phase1"
  /\ \/ /\ ~ poller[w].expired
        /\ UpdateStatus(poller[w].txn, poller[w].answer)
        /\ \/ /\ poller[w].answer = "SUCCESS"
              /\ PollGoto(w, [poller[w] EXCEPT !.pc = "phase2"])
              /\ UNCHANGED tokens
           \/ poller[w].answer = "FAILED" /\ PollGoto(w, Off) /\ Release
           \/ ~ Terminal(poller[w].answer) /\ PollGoto(w, Waiting(w)) /\ Release
     \/ PollGoto(w, Waiting(w)) /\ Release /\ UNCHANGED <<status, is_polling>>
  /\ UNCHANGED <<key, method, past, posted, gateway, req>>

\* The poller is done whether or not the credit succeeds.
PollCredit(w) ==
  /\ poller[w].pc = "phase2"
  /\ (~ poller[w].expired /\ CreditWallet(poller[w].txn)) \/ UNCHANGED posted
  /\ PollGoto(w, Off) /\ Release
  /\ UNCHANGED <<rows, past, gateway, req>>

\* A timeout after which the loop goes on.
HandlePollingTimeoutGoesOn(w) ==
  /\ poller[w].pc = "wait" /\ poller[w].expired
  /\ UpdateGatewayTransactionStatus(poller[w].txn, "FAILED") \/ UNCHANGED status
  /\ PollGoto(w, Waiting(w))
  /\ UNCHANGED <<key, method, is_polling, past, posted, gateway, req, tokens>>

\* handlePollingTimeout writes FAILED whatever the status is by now, or fails to.
HandlePollingTimeout(w) ==
  /\ poller[w].pc = "wait" /\ poller[w].expired
  /\ UpdateGatewayTransactionStatus(poller[w].txn, "FAILED") \/ UNCHANGED status
  /\ PollGoto(w, [poller[w] EXCEPT !.pc = "clear"])
  /\ UNCHANGED <<key, method, is_polling, past, posted, gateway, req, tokens>>

ClearAfterTimeout(w) ==
  /\ poller[w].pc = "clear"
  /\ ClearPollingStatus(poller[w].txn) \/ UNCHANGED is_polling
  /\ PollGoto(w, Off)
  /\ UNCHANGED <<status, key, method, past, posted, gateway, req, tokens>>

-----------------------------------------------------------------------------
(* The environment                                                         *)

\* The customer approves or refuses, or the gateway gives up.
Settle(t) ==
  /\ gateway[t] = "pending"
  /\ \E s \in {"paid", "declined"} : gateway' = [gateway EXCEPT ![t] = s]
  /\ UNCHANGED <<rows, past, posted, req, poller, tokens>>

\* 120 seconds pass.
Age(t) ==
  /\ t \in Rows /\ ~ old[t]
  /\ old' = [old EXCEPT ![t] = TRUE]
  /\ UNCHANGED <<rows, claimed, posted, gateway, req, poller, tokens>>

\* The server stops and starts; no poller is started again.
Restart ==
  /\ req' = [r \in Request |-> Idle]
  /\ poller' = [w \in Poller |-> Off]
  /\ tokens' = MaxConcurrent
  /\ UNCHANGED <<rows, past, posted, gateway>>

-----------------------------------------------------------------------------
Init ==
  /\ status = [t \in Txn |-> "none"]
  /\ key = [t \in Txn |-> NoKey]
  /\ method = [t \in Txn |-> "MWALLET"]
  /\ is_polling = [t \in Txn |-> FALSE]
  /\ old = [t \in Txn |-> FALSE]
  /\ claimed = {}
  /\ posted = [t \in Txn |-> 0]
  /\ gateway = [t \in Txn |-> "absent"]
  /\ req = [r \in Request |-> Idle]
  /\ poller = [w \in Poller |-> Off]
  /\ tokens = MaxConcurrent

Serve(r) ==
  \/ CreateGatewayTransaction(r) \/ SubmitMWallet(r) \/ Inquire(r)
  \/ Finalize(r) \/ FinalizeCredit(r) \/ Reply(r)

Poll(w) ==
  \/ UpdatePollingStatus(w) \/ Tick(w) \/ Acquire(w) \/ AcquireCancelled(w)
  \/ PollInquire(w) \/ PollFinalize(w) \/ PollCredit(w) \/ ClearAfterTimeout(w)

Next ==
  \/ \E r \in Request : InitiatePayment(r) \/ Serve(r) \/ Abandon(r)
  \/ \E r \in Request, t \in Txn : GetTransactionStatus(r, t)
  \/ \E w \in Poller : Poll(w) \/ Expire(w) \/ HandlePollingTimeout(w)
  \/ \E t \in Txn : PostForm(t) \/ CompleteCardPayment(t)
  \/ \E t \in Txn : Settle(t) \/ Age(t)
  \/ Restart

Spec == Init /\ [][Next]_vars

\* Handlers and pollers that run go on, and time passes.  Go's select takes each of its ready
\* cases again and again, so a poller that finds its context ended again and again stops.
Fairness ==
  /\ \A r \in Request : WF_vars(Serve(r))
  /\ \A w \in Poller : WF_vars(Poll(w)) /\ WF_vars(Expire(w)) /\ SF_vars(HandlePollingTimeout(w))
  /\ \A t \in Txn : WF_vars(Age(t))

\* Somebody, the client or an administrator, asks for the status of every payment again and
\* again, and neither gateway nor database fails every time.
Verified(t) ==
  LET On(r) == req[r].txn = t
  IN  /\ SF_vars(\E r \in Request : GetTransactionStatus(r, t))
      /\ SF_vars(\E r \in Request : req[r].pc = "inquire" /\ On(r) /\ Inquire(r))
      /\ SF_vars(\E r \in Request :
                   req[r].pc = "phase1" /\ On(r) /\ Finalize(r) /\ status'[t] = req[r].answer)
      /\ SF_vars(\E r \in Request :
                   req[r].pc = "phase2" /\ On(r) /\ CreditWallet(t) /\ FinalizeCredit(r))

VerifiedSpec == Spec /\ Fairness /\ \A t \in Txn : Verified(t)

-----------------------------------------------------------------------------
(* Properties                                                              *)

\* The pollers at work on t.
PollersOf(t) == {w \in Poller : poller[w].pc \notin {"off", "claim"} /\ poller[w].txn = t}

\* However old an answer is when it is written, by whomever and over whatever status: a row
\* says SUCCESS only of money that was paid, and FAILED only when the gateway declined or
\* 120 seconds have passed (finalizeTransaction, handlePollingTimeout), unless a callback
\* has said so before the gateway did: the callback's word is taken.
StatusTruthful ==
  \A t \in Txn :
    /\ status[t] = "SUCCESS" => gateway[t] = "paid" \/ <<t, "SUCCESS">> \in claimed
    /\ status[t] = "FAILED" => gateway[t] = "declined" \/ old[t] \/ <<t, "FAILED">> \in claimed

\* is_polling is a lock as long as it matters: before the gateway has decided, no payment has
\* two pollers, although other requests clear the flag (startPollingForTransaction).
OnePollerWhilePending ==
  \A t \in Txn : gateway[t] \in {"absent", "pending"} =>
    /\ Cardinality(PollersOf(t)) <= 1
    /\ PollersOf(t) # {} => is_polling[t]

\* Every way out of pollTransactionOnce gives back the token it took, and none gives back one
\* it did not take: the tokens and the pollers that call the gateway are MaxConcurrent.
TokensConserved ==
  tokens + Cardinality({w \in Poller : poller[w].pc \in {"inquire", "phase1", "phase2"}})
    = MaxConcurrent

\* Every poller ends, whatever the gateway, the rate limiter and the other pollers do
\* (the deadline of startPollingForTransaction).
PollersEnd == \A w \in Poller : poller[w] # Off ~> poller[w] = Off

\* No crash, lost answer, failed credit, poller timeout or stale write puts a paid top-up out
\* of reach of a later status check: if payments are checked again and again, every paid one
\* is credited (GetTransactionStatus, which unlike handleExistingTransaction does not trust
\* a SUCCESS in the row).
PaidIsCredited == \A t \in Txn : gateway[t] = "paid" ~> posted[t] > 0

\* What the comment on phase 2 says (the error is included "so the caller knows the credit
\* failed"): checkTransactionStatus answers SUCCESS only when the money is in the wallet.
CreditErrorKnown ==
  \A r \in Request :
    req[r].pc = "reply" /\ req[r].answer = "SUCCESS" => posted[req[r].txn] > 0

=============================================================================
