---------------------------- MODULE TopUpProofs -----------------------------
(***************************************************************************)
(* Top-ups, for any keys, payments, requests, pollers and tokens: IInv     *)
(* (TopUpInv) is inductive, and with it TopUp implements Payment; the      *)
(* rate-limiter tokens are conserved, and a payment the gateway has not    *)
(* decided has one poller.                                                 *)
(***************************************************************************)
EXTENDS TopUpInv, FiniteSetTheorems, TLAPS

USE DEF past

-----------------------------------------------------------------------------
(* Type correctness                                                        *)

\* What a request knows at each point.
LEMMA RequestShape ==
  ASSUME NEW s \in RequestState
  PROVE  /\ s.pc \in {"idle", "create", "submit", "inquire", "phase1", "phase2", "reply"}
         /\ s.pc \notin {"idle", "create"} => s.txn \in Txn
         /\ s.pc \notin {"idle", "create", "submit"} => s.then \in Then
         /\ s.pc \in {"phase1", "phase2", "reply"} => s.answer \in Answer
         /\ s.pc = "create" => s.key \in Key /\ s.method \in Method
         /\ s.pc = "idle" => s = Idle
BY DEF RequestState, Idle

\* What a poller knows at each point.
LEMMA PollerShape ==
  ASSUME NEW s \in PollerState
  PROVE  /\ s.pc \in {"off", "claim", "wait", "acquire", "inquire", "phase1", "phase2", "clear"}
         /\ s.pc # "off" => s.txn \in Txn
         /\ s.pc \notin {"off", "claim"} => s.expired \in BOOLEAN
         /\ s.pc \in {"phase1", "phase2"} => s.answer \in Answer
         /\ s.pc = "off" <=> s = Off
BY DEF PollerState, Off

\* The states a request is sent to are request states.
LEMMA RequestStates ==
  /\ Idle \in RequestState
  /\ \A k \in Key, m \in Method : [pc |-> "create", key |-> k, method |-> m] \in RequestState
  /\ \A t \in Txn : [pc |-> "submit", txn |-> t] \in RequestState
  /\ \A t \in Txn, n \in Then : CheckTransactionStatus(t, n) \in RequestState
  /\ \A c \in {"phase1", "phase2"}, t \in Txn, n \in Then, a \in Answer :
       [pc |-> c, txn |-> t, then |-> n, answer |-> a] \in RequestState
  /\ \A t \in Txn, n \in Then, a \in Answer :
       [pc |-> "reply", txn |-> t, then |-> n, answer |-> a] \in RequestState
BY DEF RequestState, CheckTransactionStatus

\* So is where a request resumes.
LEMMA ResumeType ==
  ASSUME NEW s \in RequestState, s.pc \in {"inquire", "phase1", "phase2"}, NEW a \in Answer
  PROVE  Resume(a, s) \in RequestState
<1>1. s.txn \in Txn /\ s.then \in Then
  BY RequestShape
<1>2. s.then.op = "create" => s.then.key \in Key /\ s.then.method \in Method
  BY <1>1 DEF Then
<1>3. QED
  BY <1>1, <1>2, RequestStates DEF Resume

\* The states a poller is sent to are poller states.
LEMMA PollerStates ==
  /\ Off \in PollerState
  /\ \A t \in Txn : [pc |-> "claim", txn |-> t] \in PollerState
  /\ \A c \in {"wait", "acquire", "inquire", "clear"}, t \in Txn, e \in BOOLEAN :
       [pc |-> c, txn |-> t, expired |-> e] \in PollerState
  /\ \A c \in {"phase1", "phase2"}, t \in Txn, e \in BOOLEAN, a \in Answer :
       [pc |-> c, txn |-> t, expired |-> e, answer |-> a] \in PollerState
BY DEF PollerState


\* Sending a request to a request state, or a poller to a poller state, keeps the types.
LEMMA GotoType ==
  ASSUME TypeOK
  PROVE  /\ \A r \in Request, s \in RequestState : Goto(r, s) => req' \in [Request -> RequestState]
         /\ \A w \in Poller, s \in PollerState : PollGoto(w, s) => poller' \in [Poller -> PollerState]
BY DEF TypeOK, Goto, PollGoto

\* A handler sends its request to a request state.
LEMMA RequestType ==
  ASSUME TypeOK, NEW r \in Request,
         InitiatePayment(r) \/ Serve(r) \/ Abandon(r) \/ \E t \in Txn : GetTransactionStatus(r, t)
  PROVE  req' \in [Request -> RequestState]
<1> DEFINE s == req[r]
<1>1. s \in RequestState
  BY DEF TypeOK
<1>2. [op |-> "topUp"] \in Then /\ [op |-> "status"] \in Then
      /\ \A k \in Key, m \in Method : [op |-> "create", key |-> k, method |-> m] \in Then
  BY DEF Then
<1>3. ASSUME NEW t \in Txn, HandleExisting(r, t) PROVE req' \in [Request -> RequestState]
  BY <1>2, <1>3, RequestStates, GotoType DEF HandleExisting
<1>4. CASE InitiatePayment(r)
  <2>1. \A k \in Key : WithKey(k) \subseteq Txn
    BY DEF WithKey, Rows
  <2>2. Open \subseteq Txn
    BY DEF Open, Rows
  <2>3. QED
    BY <1>2, <1>3, <1>4, <2>1, <2>2, RequestStates, GotoType DEF InitiatePayment
<1>5. CASE CreateGatewayTransaction(r)
  <2>1. WithKey(s.key) \subseteq Txn
    BY DEF WithKey, Rows
  <2>2. QED
    BY <1>1, <1>3, <1>5, <2>1, RequestStates, GotoType DEF CreateGatewayTransaction
<1>6. CASE SubmitMWallet(r)
  BY <1>1, <1>2, <1>6, RequestShape, RequestStates, GotoType DEF SubmitMWallet
<1>7. CASE Inquire(r)
  <2>1. s.pc = "inquire" /\ s.txn \in Txn /\ s.then \in Then
    BY <1>1, <1>7, RequestShape DEF Inquire
  <2>2. Inquiry(s.txn) \subseteq Answer
    BY <2>1 DEF Inquiry, Answer, TypeOK, TableType
  <2>3. ASSUME NEW a \in Answer
        PROVE  /\ [pc |-> "phase1", txn |-> s.txn, then |-> s.then, answer |-> a] \in RequestState
               /\ Resume(a, s) \in RequestState
    BY <1>1, <2>1, RequestStates, ResumeType
  <2>4. QED
    BY <1>7, <2>2, <2>3, GotoType DEF Inquire
<1>8. CASE Finalize(r)
  <2>1. s.pc = "phase1" /\ s.txn \in Txn /\ s.then \in Then /\ s.answer \in Answer
    BY <1>1, <1>8, RequestShape DEF Finalize
  <2>2. Told(s) \in Answer
    BY <2>1 DEF Told, Answer
  <2>3. Resume(Told(s), s) \in RequestState
    BY <1>1, <2>1, <2>2, ResumeType
  <2>4. [s EXCEPT !.pc = "phase2"] \in RequestState
    BY <1>1, <2>1 DEF RequestState, Idle
  <2>5. QED
    BY <1>8, <2>3, <2>4, GotoType DEF Finalize
<1>9. CASE FinalizeCredit(r)
  BY <1>1, <1>9, ResumeType, GotoType DEF FinalizeCredit, Answer
<1>10. CASE Reply(r)
  BY <1>10, RequestStates, GotoType DEF Reply
<1>11. CASE Abandon(r)
  BY <1>11, RequestStates, GotoType DEF Abandon
<1>12. CASE \E t \in Txn : GetTransactionStatus(r, t)
  BY <1>2, <1>12, RequestStates, GotoType DEF GetTransactionStatus
<1>13. QED
  BY <1>4, <1>5, <1>6, <1>7, <1>8, <1>9, <1>10, <1>11, <1>12 DEF Serve

\* A poller goes on to a poller state, and keeps the tokens within their bounds.
LEMMA PollerType ==
  ASSUME TypeOK, NEW w \in Poller, Poll(w) \/ Expire(w) \/ HandlePollingTimeout(w)
  PROVE  poller' \in [Poller -> PollerState] /\ tokens' \in 0..MaxConcurrent
<1> DEFINE s == poller[w]
<1>1. s \in PollerState /\ tokens \in 0..MaxConcurrent /\ MaxConcurrent \in Nat
  BY TopUpAssumption DEF TypeOK
<1>2. Release => tokens' \in 0..MaxConcurrent
  BY <1>1 DEF Release
<1>3. s.pc \notin {"off", "claim"} => Waiting(w) \in PollerState
  BY <1>1, PollerShape, PollerStates DEF Waiting
<1>4. CASE UpdatePollingStatus(w)
  BY <1>1, <1>4, PollerShape, PollerStates, GotoType DEF UpdatePollingStatus
<1>5. CASE Expire(w)
  <2>1. [s EXCEPT !.expired = TRUE] \in PollerState
    BY <1>1, <1>5 DEF Expire, PollerState, Off
  <2>2. QED
    BY <1>1, <1>5, <2>1, GotoType DEF Expire
<1>6. CASE Tick(w)
  <2>1. [s EXCEPT !.pc = "acquire"] \in PollerState
    BY <1>1, <1>6 DEF Tick, PollerState, Off
  <2>2. QED
    BY <1>1, <1>6, <2>1, GotoType DEF Tick
<1>7. CASE Acquire(w)
  <2>1. [s EXCEPT !.pc = "inquire"] \in PollerState
    BY <1>1, <1>7 DEF Acquire, PollerState, Off
  <2>2. QED
    BY <1>1, <1>7, <2>1, GotoType DEF Acquire
<1>8. CASE AcquireCancelled(w)
  BY <1>1, <1>8, PollerStates, GotoType DEF AcquireCancelled
<1>9. CASE PollInquire(w)
  <2>1. s.pc = "inquire" /\ s.txn \in Txn
    BY <1>1, <1>9, PollerShape DEF PollInquire
  <2>2. Inquiry(s.txn) \subseteq Answer
    BY <2>1 DEF Inquiry, Answer, TypeOK, TableType
  <2>3. QED
    BY <1>1, <1>2, <1>3, <1>9, <2>1, <2>2, PollerStates, GotoType DEF PollInquire
<1>10. CASE PollFinalize(w)
  <2>1. [s EXCEPT !.pc = "phase2"] \in PollerState
    BY <1>1, <1>10 DEF PollFinalize, PollerState, Off
  <2>2. QED
    BY <1>1, <1>2, <1>3, <1>10, <2>1, PollerStates, GotoType DEF PollFinalize
<1>11. CASE PollCredit(w)
  BY <1>2, <1>11, PollerStates, GotoType DEF PollCredit
<1>12. CASE ClearAfterTimeout(w)
  BY <1>1, <1>12, PollerStates, GotoType DEF ClearAfterTimeout
<1>13. CASE HandlePollingTimeout(w)
  <2>1. [s EXCEPT !.pc = "clear"] \in PollerState
    BY <1>1, <1>13 DEF HandlePollingTimeout, PollerState, Off
  <2>2. QED
    BY <1>1, <1>13, <2>1, GotoType DEF HandlePollingTimeout
<1>14. QED
  BY <1>4, <1>5, <1>6, <1>7, <1>8, <1>9, <1>10, <1>11, <1>12, <1>13 DEF Poll

-----------------------------------------------------------------------------
(* What a step may do to the rows, the ledger, the gateway and each actor  *)

\* A row comes for a key that has none, or gets a status that is true.
RowsMove ==
  \/ UNCHANGED <<status, key, method>>
  \/ \E t \in Txn \ Rows, k \in Key, m \in Method : WithKey(k) = {} /\ Insert(t, k, m)
  \/ /\ \E t \in Rows, a \in Answer :
          /\ UpdateGatewayTransactionStatus(t, a)
          /\ Holds(t, a) \/ (a = "FAILED" /\ old[t]) \/ <<t, a>> \in claimed'
     /\ UNCHANGED <<key, method>>

\* A payment that is paid, or that a callback says is paid, is credited once.
PostedMove ==
  \/ UNCHANGED posted
  \/ \E t \in Rows :
       /\ gateway[t] = "paid" \/ <<t, "SUCCESS">> \in claimed'
       /\ CreditWallet(t) /\ UNCHANGED gateway

\* A callback says more than the gateway has decided; a SUCCESS brings the credit with it.
ClaimedMove ==
  \/ UNCHANGED claimed
  \/ \E t \in Rows : claimed' = claimed \cup {<<t, "FAILED">>} /\ UNCHANGED <<posted, gateway, key>>
  \/ \E t \in Rows : /\ claimed' = claimed \cup {<<t, "SUCCESS">>} /\ CreditWallet(t)
                     /\ UNCHANGED <<gateway, key>>

\* A payment reaches the gateway, or it settles.
GatewayMove ==
  \/ UNCHANGED gateway
  \/ \E t \in Rows : gateway[t] = "absent" /\ gateway' = [gateway EXCEPT ![t] = "pending"]
  \/ \E t \in Rows, s \in {"paid", "declined"} :
       gateway[t] = "pending" /\ gateway' = [gateway EXCEPT ![t] = s]

OldMove == UNCHANGED old \/ \E t \in Txn : old' = [old EXCEPT ![t] = TRUE]

FlagMove == UNCHANGED is_polling \/ \E t \in Txn, b \in BOOLEAN : is_polling' = [is_polling EXCEPT ![t] = b]

TableMove == RowsMove /\ PostedMove /\ ClaimedMove /\ GatewayMove /\ OldMove /\ FlagMove

RequestMove(r) ==
  \/ req'[r] = req[r]
  \/ req'[r].pc \in {"idle", "create"}
  \/ req'[r].pc = "submit" /\ req'[r].txn \in Rows' \ Rows /\ method'[req'[r].txn] = "MWALLET"
  \/ req'[r].pc \in {"inquire", "reply"} /\ req'[r].txn \in Rows
  \/ /\ req'[r].pc \in {"phase1", "phase2"} /\ req'[r].txn \in Rows
     /\ Holds(req'[r].txn, req'[r].answer)
     /\ req'[r].pc = "phase2" => req'[r].answer = "SUCCESS"

\* One request at a time moves on to something.
OneRequest ==
  \A q, r \in Request : req'[q] \notin {req[q], Idle} /\ req'[r] \notin {req[r], Idle} => q = r

PollerMove(w) ==
  \/ poller'[w] \in {poller[w], Off}
  \/ poller'[w].pc = "claim" /\ poller'[w].txn \in Rows
  \/ /\ poller'[w].pc \in {"wait", "acquire", "inquire", "phase1", "phase2", "clear"}
     /\ poller'[w].txn \in Rows
     /\ poller'[w].expired \/ poller'[w].pc = "clear" => old[poller'[w].txn]
     /\ poller'[w].pc \in {"phase1", "phase2"} => Holds(poller'[w].txn, poller'[w].answer)
     /\ poller'[w].pc = "phase2" => poller'[w].answer = "SUCCESS"

Moves ==
  /\ TableMove
  /\ OneRequest
  /\ \A r \in Request : RequestMove(r)
  /\ \A w \in Poller : PollerMove(w)

\* Only the request, or the poller, that moves changes.
LEMMA GotoValue ==
  ASSUME TypeOK, NEW r \in Request, NEW s, Goto(r, s)
  PROVE  req'[r] = s /\ \A q \in Request \ {r} : req'[q] = req[q]
BY DEF TypeOK, Goto

LEMMA PollGotoValue ==
  ASSUME TypeOK, NEW w \in Poller, NEW s, PollGoto(w, s)
  PROVE  poller'[w] = s /\ \A v \in Poller \ {w} : poller'[v] = poller[v]
BY DEF TypeOK, PollGoto

\* A step in which one request moves, and no poller.
LEMMA RequestMoves ==
  ASSUME TypeOK, NEW r \in Request, NEW s, Goto(r, s), RequestMove(r), TableMove, UNCHANGED poller
  PROVE  Moves
BY GotoValue DEF Moves, OneRequest, RequestMove, PollerMove

\* A step in which one poller moves, and no request.
LEMMA PollerMoves ==
  ASSUME TypeOK, NEW w \in Poller, NEW s, PollGoto(w, s), PollerMove(w), TableMove, UNCHANGED req
  PROVE  Moves
BY PollGotoValue DEF Moves, OneRequest, RequestMove, PollerMove

\* What the gateway answers is true when it is final.
LEMMA AnswersHold ==
  ASSUME TypeOK, NEW t \in Txn, NEW a \in Inquiry(t)
  PROVE  a \in Answer /\ Holds(t, a)
BY DEF Inquiry, Holds, Answer, TypeOK, TableType

-----------------------------------------------------------------------------
(* Every step moves like that                                              *)

\* Nobody touches the table.
LEMMA NoTableMove ==
  ASSUME UNCHANGED <<rows, past, posted, gateway>>
  PROVE  TableMove
BY DEF TableMove, RowsMove, PostedMove, ClaimedMove, GatewayMove, OldMove, FlagMove, rows

\* The rows that are looked up are rows.
LEMMA LookUps ==
  /\ Rows \subseteq Txn /\ Open \subseteq Rows
  /\ \A k \in Key : WithKey(k) \subseteq Rows
BY DEF Rows, Open, WithKey

\* A request that resumes is at the start of a payment or has its reply.
LEMMA ResumeMove ==
  ASSUME TypeOK, NEW r \in Request, NEW a, req[r].txn \in Rows, Goto(r, Resume(a, req[r]))
  PROVE  RequestMove(r)
<1>1. req'[r] = Resume(a, req[r])
  BY GotoValue
<1>2. QED
  BY <1>1 DEF RequestMove, Resume

LEMMA ExistingMove ==
  ASSUME TypeOK, NEW r \in Request, NEW t \in Rows, HandleExisting(r, t)
  PROVE  RequestMove(r) /\ \E s : Goto(r, s)
<1>1. CASE status[t] = "SUCCESS"
  BY <1>1, GotoValue DEF HandleExisting, RequestMove, Idle
<1>2. CASE status[t] # "SUCCESS"
  BY <1>2, GotoValue DEF HandleExisting, RequestMove, CheckTransactionStatus
<1>3. QED
  BY <1>1, <1>2

LEMMA InitiatePaymentMoves ==
  ASSUME IInv, NEW r \in Request, InitiatePayment(r)
  PROVE  Moves
<1>1. TypeOK /\ TableMove /\ UNCHANGED poller
  BY NoTableMove DEF IInv, InitiatePayment
<1>2. PICK k \in Key, m \in Method :
        IF WithKey(k) # {}
        THEN \E t \in WithKey(k) : HandleExisting(r, t)
        ELSE \/ \E t \in Open :
                  Goto(r, CheckTransactionStatus(t, [op |-> "create", key |-> k, method |-> m]))
             \/ Goto(r, [pc |-> "create", key |-> k, method |-> m])
  BY DEF InitiatePayment
<1>3. CASE WithKey(k) # {}
  BY <1>1, <1>2, <1>3, LookUps, ExistingMove, RequestMoves
<1>4. ASSUME NEW t \in Open,
             Goto(r, CheckTransactionStatus(t, [op |-> "create", key |-> k, method |-> m]))
      PROVE  Moves
  <2>1. RequestMove(r)
    BY <1>1, <1>4, GotoValue, LookUps DEF RequestMove, CheckTransactionStatus
  <2>2. QED
    BY <1>1, <1>4, <2>1, RequestMoves
<1>5. CASE Goto(r, [pc |-> "create", key |-> k, method |-> m])
  <2>1. RequestMove(r)
    BY <1>1, <1>5, GotoValue DEF RequestMove
  <2>2. QED
    BY <1>1, <1>5, <2>1, RequestMoves
<1>6. QED
  BY <1>2, <1>3, <1>4, <1>5

LEMMA CreateMoves ==
  ASSUME IInv, NEW r \in Request, CreateGatewayTransaction(r)
  PROVE  Moves
<1> DEFINE k == req[r].key
           m == req[r].method
<1>1. TypeOK /\ UNCHANGED <<past, posted, gateway, poller>>
  BY DEF IInv, CreateGatewayTransaction
<1>2. k \in Key /\ m \in Method
  BY <1>1, RequestShape DEF TypeOK, CreateGatewayTransaction
<1>3. CASE /\ WithKey(k) = {} /\ UNCHANGED is_polling
           /\ \E t \in Txn \ Rows :
                /\ Insert(t, k, m)
                /\ Goto(r, IF m = "CARD" THEN Idle ELSE [pc |-> "submit", txn |-> t])
  <2>1. PICK t \in Txn \ Rows :
          /\ Insert(t, k, m)
          /\ Goto(r, IF m = "CARD" THEN Idle ELSE [pc |-> "submit", txn |-> t])
    BY <1>3
  <2>2. TableMove
    BY <1>1, <1>2, <1>3, <2>1
       DEF TableMove, RowsMove, PostedMove, ClaimedMove, GatewayMove, OldMove, FlagMove
  <2>3. t \in Rows' /\ method'[t] = m
    BY <1>1, <2>1 DEF Insert, Rows, TypeOK, TableType
  <2>4. m # "CARD" => m = "MWALLET"
    BY <1>2, TopUpAssumption
  <2>5. RequestMove(r)
    BY <1>1, <2>1, <2>3, <2>4, GotoValue DEF RequestMove, Idle
  <2>6. QED
    BY <1>1, <2>1, <2>2, <2>5, RequestMoves
<1>4. CASE (\E t \in WithKey(k) : HandleExisting(r, t)) /\ UNCHANGED rows
  BY <1>1, <1>2, <1>4, LookUps, ExistingMove, RequestMoves, NoTableMove
<1>5. QED
  BY <1>3, <1>4 DEF CreateGatewayTransaction

LEMMA SubmitMoves ==
  ASSUME IInv, NEW r \in Request, SubmitMWallet(r)
  PROVE  Moves
<1> DEFINE t == req[r].txn
<1>1. TypeOK /\ req[r].pc = "submit" /\ UNCHANGED poller
  BY DEF IInv, SubmitMWallet
<1>2. t \in Rows
  BY <1>1 DEF IInv, RowInv
<1>3. \/ Goto(r, CheckTransactionStatus(t, [op |-> "topUp"]))
      \/ Goto(r, Idle)
  BY DEF SubmitMWallet
<1>4. RequestMove(r)
  BY <1>1, <1>2, <1>3, GotoValue DEF RequestMove, CheckTransactionStatus, Idle
<1>5. TableMove
  BY <1>1, <1>2, <1>4
     DEF SubmitMWallet, Charge, TableMove, RowsMove, PostedMove, ClaimedMove, GatewayMove, OldMove, FlagMove, rows
<1>6. QED
  BY <1>1, <1>3, <1>4, <1>5, RequestMoves

LEMMA AbandonMoves ==
  ASSUME IInv, NEW r \in Request, Abandon(r)
  PROVE  Moves
<1>1. TypeOK /\ TableMove /\ UNCHANGED poller /\ Goto(r, Idle)
  BY NoTableMove DEF IInv, Abandon
<1>2. RequestMove(r)
  BY <1>1, GotoValue DEF RequestMove, Idle
<1>3. QED
  BY <1>1, <1>2, RequestMoves

LEMMA GetTransactionStatusMoves ==
  ASSUME IInv, NEW r \in Request, NEW t \in Txn, GetTransactionStatus(r, t)
  PROVE  Moves
<1>1. /\ TypeOK /\ TableMove /\ UNCHANGED poller /\ t \in Rows
      /\ Goto(r, CheckTransactionStatus(t, [op |-> "status"]))
  BY NoTableMove DEF IInv, GetTransactionStatus
<1>2. RequestMove(r)
  BY <1>1, GotoValue DEF RequestMove, CheckTransactionStatus
<1>3. QED
  BY <1>1, <1>2, RequestMoves

LEMMA InquireMoves ==
  ASSUME IInv, NEW r \in Request, Inquire(r)
  PROVE  Moves
<1> DEFINE t == req[r].txn
<1>1. TypeOK /\ TableMove /\ UNCHANGED poller /\ t \in Rows /\ t \in Txn
  BY NoTableMove, LookUps DEF IInv, RowInv, Inquire
<1>2. PICK a \in Inquiry(t) :
        Goto(r, IF Terminal(a) \/ old[t]
                THEN [pc |-> "phase1", txn |-> t, then |-> req[r].then, answer |-> a]
                ELSE Resume(a, req[r]))
  BY DEF Inquire
<1>3. CASE Goto(r, [pc |-> "phase1", txn |-> t, then |-> req[r].then, answer |-> a])
  <2>1. Holds(t, a)
    BY <1>1, AnswersHold
  <2>2. RequestMove(r)
    BY <1>1, <1>3, <2>1, GotoValue DEF RequestMove
  <2>3. QED
    BY <1>1, <1>3, <2>2, RequestMoves
<1>4. CASE Goto(r, Resume(a, req[r]))
  BY <1>1, <1>4, ResumeMove, RequestMoves
<1>5. QED
  BY <1>2, <1>3, <1>4

\* Phase 1 writes an answer that is true.
LEMMA UpdateStatusMove ==
  ASSUME TypeOK, NEW t \in Rows, NEW a \in Answer, Holds(t, a), UpdateStatus(t, a),
         UNCHANGED <<key, method, past, posted, gateway>>
  PROVE  TableMove
BY LookUps
   DEF UpdateStatus, ClearPollingStatus, TableMove, RowsMove, PostedMove, ClaimedMove, GatewayMove, OldMove,
       FlagMove

LEMMA FinalizeMoves ==
  ASSUME IInv, NEW r \in Request, Finalize(r)
  PROVE  Moves
<1> DEFINE t == req[r].txn
           a == req[r].answer
<1>1. TypeOK /\ req[r].pc = "phase1" /\ UNCHANGED poller
  BY DEF IInv, Finalize
<1>2. t \in Rows /\ t \in Txn /\ a \in Answer /\ Holds(t, a)
  BY <1>1, LookUps, RequestShape DEF IInv, RowInv, AnswerInv, TypeOK
<1>3. TableMove
  BY <1>1, <1>2, UpdateStatusMove, NoTableMove DEF Finalize, rows
<1>4. CASE Goto(r, Resume(Told(req[r]), req[r]))
  BY <1>1, <1>2, <1>3, <1>4, ResumeMove, RequestMoves
<1>5. CASE a = "SUCCESS" /\ Goto(r, [req[r] EXCEPT !.pc = "phase2"])
  <2>1. req'[r] = [req[r] EXCEPT !.pc = "phase2"]
    BY <1>1, <1>5, GotoValue
  <2>2. req'[r].pc = "phase2" /\ req'[r].txn = t /\ req'[r].answer = a
    BY <1>1, <2>1 DEF TypeOK, RequestState, Idle
  <2>3. RequestMove(r)
    BY <1>2, <1>5, <2>2 DEF RequestMove
  <2>4. QED
    BY <1>1, <1>3, <1>5, <2>3, RequestMoves
<1>6. QED
  BY <1>4, <1>5 DEF Finalize

\* Phase 2, with or without success, of a paid payment.
LEMMA CreditMove ==
  ASSUME NEW t \in Rows, gateway[t] = "paid", CreditWallet(t) \/ UNCHANGED posted,
         UNCHANGED <<rows, past, gateway>>
  PROVE  TableMove
BY DEF TableMove, RowsMove, PostedMove, ClaimedMove, GatewayMove, OldMove, FlagMove, rows

LEMMA FinalizeCreditMoves ==
  ASSUME IInv, NEW r \in Request, FinalizeCredit(r)
  PROVE  Moves
<1> DEFINE t == req[r].txn
<1>1. TypeOK /\ req[r].pc = "phase2" /\ UNCHANGED poller /\ Goto(r, Resume("SUCCESS", req[r]))
  BY DEF IInv, FinalizeCredit
<1>2. t \in Rows /\ gateway[t] = "paid"
  BY <1>1 DEF IInv, RowInv, AnswerInv, Holds
<1>3. TableMove
  BY <1>2, CreditMove DEF FinalizeCredit
<1>4. QED
  BY <1>1, <1>2, <1>3, ResumeMove, RequestMoves

LEMMA ReplyMoves ==
  ASSUME IInv, NEW r \in Request, Reply(r)
  PROVE  Moves
<1> DEFINE t == req[r].txn
<1>1. TypeOK /\ TableMove /\ req[r].pc = "reply" /\ Goto(r, Idle)
  BY NoTableMove DEF IInv, Reply
<1>2. t \in Rows
  BY <1>1 DEF IInv, RowInv
<1>3. \A q \in Request : req'[q] \in {req[q], Idle}
  BY <1>1, GotoValue
<1>4. OneRequest /\ \A q \in Request : RequestMove(q)
  BY <1>3 DEF OneRequest, RequestMove, Idle
<1>5. ASSUME NEW w \in Poller PROVE PollerMove(w)
  <2>1. CASE UNCHANGED poller
    BY <2>1 DEF PollerMove
  <2>2. CASE \E v \in Poller : poller' = [poller EXCEPT ![v] = [pc |-> "claim", txn |-> t]]
    BY <1>1, <1>2, <2>2 DEF PollerMove, TypeOK
  <2>3. QED
    BY <2>1, <2>2 DEF Reply
<1>6. QED
  BY <1>1, <1>4, <1>5 DEF Moves

LEMMA ServeMoves ==
  ASSUME IInv, NEW r \in Request, Serve(r)
  PROVE  Moves
BY CreateMoves, SubmitMoves, InquireMoves, FinalizeMoves, FinalizeCreditMoves, ReplyMoves DEF Serve

\* A poller that stays with its payment, wherever it is but at the credit.
LEMMA PollerStays ==
  ASSUME IInv, NEW w \in Poller, poller[w].pc \notin {"off", "claim"},
         NEW s \in PollerState, s.pc \in {"wait", "acquire", "inquire", "clear"},
         s.txn = poller[w].txn, s.expired => poller[w].expired,
         s.pc = "clear" => poller[w].expired,
         PollGoto(w, s), TableMove, UNCHANGED req
  PROVE  Moves
<1>1. TypeOK /\ poller[w] \in PollerState /\ poller'[w] = s
  BY PollGotoValue DEF IInv, TypeOK
<1>2. s.txn \in Rows
  BY <1>1, PollerShape DEF IInv, RowInv, Off
<1>3. s.expired \/ s.pc = "clear" => old[s.txn]
  BY <1>1, PollerShape DEF IInv, DeadlineInv
<1>4. PollerMove(w)
  BY <1>1, <1>2, <1>3 DEF PollerMove
<1>5. QED
  BY <1>1, <1>4, PollerMoves

\* A poller that ends.
LEMMA PollerEnds ==
  ASSUME IInv, NEW w \in Poller, PollGoto(w, Off), TableMove, UNCHANGED req
  PROVE  Moves
<1>1. TypeOK /\ PollerMove(w)
  BY PollGotoValue DEF IInv, PollerMove
<1>2. QED
  BY <1>1, PollerMoves

\* What is known of a poller that is neither off nor about to start.
LEMMA PollerKnows ==
  ASSUME IInv, NEW w \in Poller, poller[w].pc # "off"
  PROVE  /\ TypeOK /\ poller[w] \in PollerState
         /\ poller[w].txn \in Rows /\ poller[w].txn \in Txn
         /\ poller[w].pc # "claim" => poller[w].expired \in BOOLEAN
BY PollerShape, LookUps DEF IInv, RowInv, TypeOK, Off

\* A wait is a step a poller may go back to.
LEMMA WaitingMoves ==
  ASSUME IInv, NEW w \in Poller, poller[w].pc \notin {"off", "claim"},
         PollGoto(w, Waiting(w)), TableMove, UNCHANGED req
  PROVE  Moves
<1>1. Waiting(w) \in PollerState
  BY PollerKnows, PollerStates DEF Waiting
<1>2. QED
  BY <1>1, PollerStays DEF Waiting

\* A poller whose pc alone changes, but not to the credit.
LEMMA StepMoves ==
  ASSUME IInv, NEW w \in Poller, NEW c \in {"acquire", "inquire", "clear"},
         poller[w].pc \in {"wait", "acquire"}, c = "clear" => poller[w].expired,
         PollGoto(w, [poller[w] EXCEPT !.pc = c]), TableMove, UNCHANGED req
  PROVE  Moves
<1> DEFINE s == [poller[w] EXCEPT !.pc = c]
<1>1. poller[w] \in PollerState
  BY PollerKnows
<1>2. s \in PollerState /\ s.pc = c /\ s.txn = poller[w].txn /\ s.expired = poller[w].expired
  BY <1>1 DEF PollerState, Off
<1> HIDE DEF s
<1>3. PollGoto(w, s)
  BY DEF s
<1>4. QED
  BY <1>2, <1>3, PollerStays

LEMMA UpdatePollingStatusMoves ==
  ASSUME IInv, NEW w \in Poller, UpdatePollingStatus(w)
  PROVE  Moves
<1> DEFINE t == poller[w].txn
<1>1. TypeOK /\ t \in Rows /\ t \in Txn /\ UNCHANGED req
  BY PollerKnows DEF UpdatePollingStatus
<1>2. TableMove
  BY <1>1 DEF UpdatePollingStatus, TableMove, RowsMove, PostedMove, ClaimedMove, GatewayMove, OldMove,
              FlagMove
<1>3. CASE PollGoto(w, Off)
  BY <1>1, <1>2, <1>3, PollerEnds
<1>4. CASE PollGoto(w, [pc |-> "wait", txn |-> t, expired |-> FALSE])
  <2>1. PollerMove(w)
    BY <1>1, <1>4, PollGotoValue DEF PollerMove
  <2>2. QED
    BY <1>1, <1>2, <1>4, <2>1, PollerMoves
<1>5. QED
  BY <1>3, <1>4 DEF UpdatePollingStatus

LEMMA ExpireMoves ==
  ASSUME IInv, NEW w \in Poller, Expire(w)
  PROVE  Moves
<1> DEFINE s == [poller[w] EXCEPT !.expired = TRUE]
<1>1. /\ TypeOK /\ poller[w] \in PollerState /\ poller[w].txn \in Rows
      /\ poller[w].pc \notin {"off", "claim", "clear"} /\ old[poller[w].txn]
      /\ PollGoto(w, s) /\ TableMove /\ UNCHANGED req
  BY PollerKnows, NoTableMove DEF Expire
<1>2. /\ s.pc = poller[w].pc /\ s.txn = poller[w].txn
      /\ s.pc \in {"phase1", "phase2"} => s.answer = poller[w].answer
      /\ s.pc \in {"wait", "acquire", "inquire", "phase1", "phase2"}
  BY <1>1 DEF PollerState, Off
<1>3. /\ s.pc \in {"phase1", "phase2"} => Holds(s.txn, s.answer)
      /\ s.pc = "phase2" => s.answer = "SUCCESS"
  BY <1>2 DEF IInv, AnswerInv
<1> HIDE DEF s
<1>4. PollerMove(w)
  BY <1>1, <1>2, <1>3, PollGotoValue DEF PollerMove
<1>5. QED
  BY <1>1, <1>4, PollerMoves

LEMMA PollInquireMoves ==
  ASSUME IInv, NEW w \in Poller, PollInquire(w)
  PROVE  Moves
<1> DEFINE t == poller[w].txn
<1>1. TypeOK /\ t \in Rows /\ t \in Txn /\ poller[w].pc = "inquire" /\ UNCHANGED req
  BY PollerKnows DEF PollInquire
<1>2. TableMove
  BY NoTableMove DEF PollInquire
<1>3. CASE PollGoto(w, Waiting(w))
  BY <1>1, <1>2, <1>3, WaitingMoves
<1>4. ASSUME NEW a \in Inquiry(t),
             PollGoto(w, [pc |-> "phase1", txn |-> t, expired |-> FALSE, answer |-> a])
      PROVE  Moves
  <2>1. Holds(t, a)
    BY <1>1, AnswersHold
  <2>2. PollerMove(w)
    BY <1>1, <1>4, <2>1, PollGotoValue DEF PollerMove
  <2>3. QED
    BY <1>1, <1>2, <1>4, <2>2, PollerMoves
<1>5. QED
  BY <1>3, <1>4 DEF PollInquire

LEMMA PollFinalizeMoves ==
  ASSUME IInv, NEW w \in Poller, PollFinalize(w)
  PROVE  Moves
<1> DEFINE t == poller[w].txn
           a == poller[w].answer
           s == [poller[w] EXCEPT !.pc = "phase2"]
<1>1. /\ TypeOK /\ t \in Rows /\ t \in Txn /\ poller[w] \in PollerState
      /\ poller[w].pc = "phase1" /\ UNCHANGED req
  BY PollerKnows DEF PollFinalize
<1>2. a \in Answer /\ Holds(t, a)
  BY <1>1, PollerShape DEF IInv, AnswerInv
<1>3. TableMove
  BY <1>1, <1>2, UpdateStatusMove, NoTableMove DEF PollFinalize, rows
<1>4. CASE PollGoto(w, Waiting(w))
  BY <1>1, <1>3, <1>4, WaitingMoves
<1>5. CASE PollGoto(w, Off)
  BY <1>1, <1>3, <1>5, PollerEnds
<1>6. CASE ~ poller[w].expired /\ a = "SUCCESS" /\ PollGoto(w, s)
  <2>1. s.pc = "phase2" /\ s.txn = t /\ s.answer = a /\ s.expired = poller[w].expired
    BY <1>1 DEF PollerState, Off
  <2>2. poller'[w] = s
    BY <1>1, <1>6, PollGotoValue
  <2> HIDE DEF s
  <2>3. PollerMove(w)
    BY <1>1, <1>2, <1>6, <2>1, <2>2 DEF PollerMove
  <2>4. QED
    BY <1>1, <1>3, <1>6, <2>3, PollerMoves
<1>7. QED
  BY <1>4, <1>5, <1>6 DEF PollFinalize

LEMMA PollCreditMoves ==
  ASSUME IInv, NEW w \in Poller, PollCredit(w)
  PROVE  Moves
<1> DEFINE t == poller[w].txn
<1>1. TypeOK /\ t \in Rows /\ poller[w].pc = "phase2" /\ UNCHANGED req /\ PollGoto(w, Off)
  BY PollerKnows DEF PollCredit
<1>2. gateway[t] = "paid"
  BY <1>1 DEF IInv, AnswerInv, Holds
<1>3. TableMove
  BY <1>1, <1>2, CreditMove DEF PollCredit
<1>4. QED
  BY <1>1, <1>3, PollerEnds

LEMMA HandlePollingTimeoutMoves ==
  ASSUME IInv, NEW w \in Poller, HandlePollingTimeout(w)
  PROVE  Moves
<1> DEFINE t == poller[w].txn
<1>1. TypeOK /\ t \in Rows /\ poller[w].pc = "wait" /\ poller[w].expired /\ UNCHANGED req
  BY PollerKnows DEF HandlePollingTimeout
<1>2. old[t]
  BY <1>1 DEF IInv, DeadlineInv
<1>3. TableMove
  BY <1>1, <1>2 DEF HandlePollingTimeout, TableMove, RowsMove, PostedMove, ClaimedMove, GatewayMove, OldMove, FlagMove, Answer
<1>4. QED
  BY <1>1, <1>3, StepMoves DEF HandlePollingTimeout

LEMMA ClearAfterTimeoutMoves ==
  ASSUME IInv, NEW w \in Poller, ClearAfterTimeout(w)
  PROVE  Moves
<1>1. poller[w].txn \in Txn /\ UNCHANGED req /\ PollGoto(w, Off)
  BY PollerKnows DEF ClearAfterTimeout
<1>2. TableMove
  BY <1>1 DEF ClearAfterTimeout, ClearPollingStatus, TableMove, RowsMove, PostedMove, ClaimedMove, GatewayMove,
              OldMove, FlagMove
<1>3. QED
  BY <1>1, <1>2, PollerEnds

LEMMA PollMoves ==
  ASSUME IInv, NEW w \in Poller, Poll(w) \/ Expire(w) \/ HandlePollingTimeout(w)
  PROVE  Moves
<1>1. CASE Tick(w)
  BY <1>1, StepMoves, NoTableMove DEF Tick
<1>2. CASE Acquire(w)
  BY <1>2, StepMoves, NoTableMove DEF Acquire
<1>3. CASE AcquireCancelled(w)
  BY <1>3, PollerEnds, NoTableMove DEF AcquireCancelled
<1>4. QED
  BY <1>1, <1>2, <1>3, UpdatePollingStatusMoves, ExpireMoves, PollInquireMoves, PollFinalizeMoves,
     PollCreditMoves, HandlePollingTimeoutMoves, ClearAfterTimeoutMoves DEF Poll

\* Cards, the gateway, time and restarts.
LEMMA OthersMove ==
  ASSUME IInv, \/ \E t \in Txn : PostForm(t) \/ CompleteCardPayment(t)
               \/ \E t \in Txn : Settle(t) \/ Age(t)
               \/ Restart
  PROVE  Moves
<1> USE DEF TableMove, RowsMove, PostedMove, ClaimedMove, GatewayMove, OldMove, FlagMove, rows
<1>1. UNCHANGED <<req, poller>> => OneRequest /\ (\A r \in Request : RequestMove(r))
                                   /\ \A w \in Poller : PollerMove(w)
  BY DEF OneRequest, RequestMove, PollerMove
<1>3. ASSUME NEW t \in Txn, PostForm(t) PROVE Moves
  BY <1>1, <1>3 DEF PostForm, Charge, Moves
<1>4. ASSUME NEW t \in Txn, CompleteCardPayment(t) PROVE Moves
  <2>1. PICK a \in Answer :
          /\ UpdateGatewayTransactionStatus(t, a)
          /\ IF a = "SUCCESS" THEN CreditWallet(t) ELSE UNCHANGED posted
          /\ claimed' = IF Unconfirmed(t, a) THEN claimed \cup {<<t, a>>} ELSE claimed
    BY <1>4 DEF CompleteCardPayment
  <2>2. t \in Rows /\ UNCHANGED <<key, method, is_polling, old, gateway, req, poller>>
    BY <1>4 DEF CompleteCardPayment
  <2>3. Holds(t, a) \/ <<t, a>> \in claimed'
    <3>1. CASE Unconfirmed(t, a)
      BY <2>1, <3>1
    <3>2. CASE ~ Unconfirmed(t, a)
      BY <3>2, AnswersHold DEF Unconfirmed, Terminal, Holds, IInv
    <3>3. QED
      BY <3>1, <3>2
  <2>4. a = "SUCCESS" => gateway[t] = "paid" \/ <<t, "SUCCESS">> \in claimed'
    BY <2>3 DEF Holds
  <2>5. RowsMove
    BY <2>1, <2>2, <2>3
  <2>6. PostedMove
    BY <2>1, <2>2, <2>4
  <2>7. ClaimedMove
    BY <2>1, <2>2 DEF Unconfirmed, Terminal
  <2>8. QED
    BY <1>1, <2>2, <2>5, <2>6, <2>7 DEF Moves
<1>5. ASSUME NEW t \in Txn, Settle(t) PROVE Moves
  BY <1>1, <1>5 DEF Settle, Moves, IInv, RowInv
<1>6. ASSUME NEW t \in Txn, Age(t) PROVE Moves
  BY <1>1, <1>6 DEF Age, Moves
<1>7. CASE Restart
  <2>1. \A r \in Request : req'[r] = Idle
    BY <1>7 DEF Restart
  <2>2. \A w \in Poller : poller'[w] = Off
    BY <1>7 DEF Restart
  <2>3. QED
    BY <1>7, <2>1, <2>2 DEF Restart, Moves, OneRequest, RequestMove, PollerMove, Idle
<1>8. QED
  BY <1>3, <1>4, <1>5, <1>6, <1>7

\* Every step of TopUp is such a move.
LEMMA NextMoves ==
  ASSUME IInv, Next
  PROVE  Moves
BY InitiatePaymentMoves, ServeMoves, AbandonMoves, GetTransactionStatusMoves, PollMoves, OthersMove
   DEF Next

-----------------------------------------------------------------------------
(* IInv is inductive                                                       *)

LEMMA TableTypeStep ==
  ASSUME TypeOK, Moves
  PROVE  TableType'
<1>1. TableType /\ Method \subseteq {"MWALLET", "CARD"} /\ Rows \subseteq Txn
  BY TopUpAssumption, LookUps DEF TypeOK
<1>2. /\ status' \in [Txn -> Answer \cup {"none"}]
      /\ key' \in [Txn -> Key \cup {NoKey}]
      /\ method' \in [Txn -> {"MWALLET", "CARD"}]
  <2>1. \/ UNCHANGED <<status, key, method>>
        \/ \E t \in Txn, k \in Key, m \in Method : Insert(t, k, m)
        \/ \E t \in Txn, a \in Answer : UpdateGatewayTransactionStatus(t, a) /\ UNCHANGED <<key, method>>
    BY <1>1 DEF Moves, TableMove, RowsMove
  <2>2. QED
    BY <1>1, <2>1 DEF TableType, Insert, UpdateGatewayTransactionStatus, Answer
<1>3. is_polling' \in [Txn -> BOOLEAN]
  BY <1>1 DEF Moves, TableMove, FlagMove, TableType
<1>4. old' \in [Txn -> BOOLEAN]
  BY <1>1 DEF Moves, TableMove, OldMove, TableType
<1>5. posted' \in [Txn -> Nat]
  <2>1. UNCHANGED posted \/ \E t \in Txn : CreditWallet(t)
    BY <1>1 DEF Moves, TableMove, PostedMove
  <2>2. QED
    BY <1>1, <2>1 DEF TableType, CreditWallet
<1>6. gateway' \in [Txn -> {"absent", "pending", "paid", "declined"}]
  BY <1>1 DEF Moves, TableMove, GatewayMove, TableType
<1>7. claimed' \subseteq Txn \X {"SUCCESS", "FAILED"}
  BY <1>1 DEF Moves, TableMove, ClaimedMove, TableType
<1>8. QED
  BY <1>2, <1>3, <1>4, <1>5, <1>6, <1>7 DEF TableType

LEMMA TypeStep ==
  ASSUME IInv, Next
  PROVE  TypeOK'
<1>1. TypeOK /\ TableType' /\ MaxConcurrent \in Nat
  BY NextMoves, TableTypeStep, TopUpAssumption DEF IInv
<1>2. ASSUME NEW r \in Request, InitiatePayment(r) \/ Serve(r) \/ Abandon(r)
                                \/ \E t \in Txn : GetTransactionStatus(r, t)
      PROVE  TypeOK'
  <2>1. req' \in [Request -> RequestState]
    BY <1>1, <1>2, RequestType
  <2>2. tokens' = tokens
    BY <1>2 DEF InitiatePayment, Serve, Abandon, GetTransactionStatus, CreateGatewayTransaction,
                SubmitMWallet, Inquire, Finalize, FinalizeCredit, Reply
  <2>3. UNCHANGED poller \/ Reply(r)
    BY <1>2 DEF InitiatePayment, Serve, Abandon, GetTransactionStatus, CreateGatewayTransaction,
                SubmitMWallet, Inquire, Finalize, FinalizeCredit
  <2>4. CASE Reply(r)
    <3>1. req[r].txn \in Txn
      BY <1>1, <2>4, RequestShape DEF Reply, TypeOK
    <3>2. poller' \in [Poller -> PollerState]
      BY <1>1, <2>4, <3>1, PollerStates DEF Reply, TypeOK
    <3>3. QED
      BY <1>1, <2>1, <2>2, <3>2 DEF TypeOK
  <2>5. QED
    BY <1>1, <2>1, <2>2, <2>3, <2>4 DEF TypeOK
<1>3. ASSUME NEW w \in Poller, Poll(w) \/ Expire(w) \/ HandlePollingTimeout(w)
      PROVE  TypeOK'
  <2>1. req' = req
    BY <1>3 DEF Poll, UpdatePollingStatus, Expire, Tick, Acquire, AcquireCancelled, PollInquire,
                PollFinalize, PollCredit, HandlePollingTimeout, ClearAfterTimeout
  <2>2. QED
    BY <1>1, <1>3, <2>1, PollerType DEF TypeOK
<1>4. ASSUME NEW t \in Txn, PostForm(t) \/ CompleteCardPayment(t)
                             \/ Settle(t) \/ Age(t)
      PROVE  TypeOK'
  BY <1>1, <1>4 DEF TypeOK, PostForm, CompleteCardPayment, Settle, Age
<1>5. CASE Restart
  BY <1>1, <1>5, RequestStates, PollerStates DEF TypeOK, Restart
<1>6. QED
  BY <1>2, <1>3, <1>4, <1>5 DEF Next

\* What is never taken back: rows, their keys and methods, what the gateway decided, and age.
LEMMA Lasting ==
  ASSUME IInv, Moves
  PROVE  /\ Rows \subseteq Rows'
         /\ \A t \in Rows : key'[t] = key[t] /\ method'[t] = method[t]
         /\ \A t \in Txn : gateway[t] \in {"paid", "declined"} => gateway'[t] = gateway[t]
         /\ \A t \in Txn : old[t] => old'[t]
         /\ claimed \subseteq claimed'
         /\ \A t \in Txn : \A a : Holds(t, a) => Holds(t, a)'
<1>1. TypeOK /\ TableType /\ Rows \subseteq Txn
  BY LookUps DEF IInv, TypeOK
<1>2. Rows \subseteq Rows' /\ \A t \in Rows : key'[t] = key[t] /\ method'[t] = method[t]
  BY <1>1 DEF Moves, TableMove, RowsMove, TableType, Insert, UpdateGatewayTransactionStatus, Rows,
              Answer
<1>3. \A t \in Txn : gateway[t] \in {"paid", "declined"} => gateway'[t] = gateway[t]
  BY <1>1 DEF Moves, TableMove, GatewayMove, TableType
<1>4. \A t \in Txn : old[t] => old'[t]
  BY <1>1 DEF Moves, TableMove, OldMove, TableType
<1>5. claimed \subseteq claimed'
  BY DEF Moves, TableMove, ClaimedMove
<1>6. QED
  BY <1>2, <1>3, <1>4, <1>5 DEF Holds

LEMMA RowStep ==
  ASSUME IInv, Moves
  PROVE  RowInv'
<1>1. TypeOK /\ TableType /\ Rows \subseteq Txn /\ RowInv
  BY LookUps DEF IInv, TypeOK
<1>2. Rows \subseteq Rows'
  BY Lasting
<1>3. \A t \in Txn \ Rows' : gateway'[t] = "absent" /\ posted'[t] = 0
  <2>1. \A t \in Txn \ Rows' : gateway[t] = "absent" /\ posted[t] = 0
    BY <1>1, <1>2 DEF RowInv
  <2>2. \A t \in Txn \ Rows' : gateway'[t] = gateway[t]
    BY <1>1, <1>2 DEF Moves, TableMove, GatewayMove, TableType
  <2>3. \A t \in Txn \ Rows' : posted'[t] = posted[t]
    BY <1>1, <1>2 DEF Moves, TableMove, PostedMove, CreditWallet, TableType
  <2>4. QED
    BY <2>1, <2>2, <2>3
<1>4. \A t \in Rows' : key'[t] \in Key
  BY <1>1 DEF Moves, TableMove, RowsMove, Insert, UpdateGatewayTransactionStatus, Rows, RowInv,
              TableType
<1>5. ASSUME NEW r \in Request, req'[r].pc \notin {"idle", "create"}
      PROVE  req'[r].txn \in Rows'
  BY <1>1, <1>2, <1>5 DEF Moves, RequestMove, RowInv
<1>6. ASSUME NEW w \in Poller, poller'[w] # Off
      PROVE  poller'[w].txn \in Rows'
  BY <1>1, <1>2, <1>6 DEF Moves, PollerMove, RowInv
<1>7. QED
  BY <1>3, <1>4, <1>5, <1>6 DEF RowInv

LEMMA KeyStep ==
  ASSUME IInv, Moves
  PROVE  KeyInv'
<1>1. TypeOK /\ TableType /\ Rows \subseteq Txn /\ KeyInv
  BY LookUps DEF IInv, TypeOK
<1>2. CASE UNCHANGED <<status, key, method>>
  BY <1>1, <1>2 DEF KeyInv, Rows
<1>3. ASSUME NEW t \in Txn \ Rows, NEW k \in Key, NEW m \in Method, WithKey(k) = {}, Insert(t, k, m)
      PROVE  KeyInv'
  <2>1. Rows' = Rows \cup {t} /\ key'[t] = k /\ \A u \in Rows : key'[u] = key[u]
    BY <1>1, <1>3 DEF Insert, Rows, TableType
  <2>2. \A u \in Rows : key[u] # k
    BY <1>3 DEF WithKey
  <2>3. QED
    BY <1>1, <2>1, <2>2 DEF KeyInv
<1>4. CASE /\ \E t \in Rows, a \in Answer : UpdateGatewayTransactionStatus(t, a)
           /\ UNCHANGED <<key, method>>
  <2>1. Rows' = Rows
    BY <1>1, <1>4 DEF UpdateGatewayTransactionStatus, Rows, Answer, TableType
  <2>2. QED
    BY <1>1, <1>4, <2>1 DEF KeyInv
<1>5. QED
  BY <1>2, <1>3, <1>4 DEF Moves, TableMove, RowsMove

LEMMA SubmitStep ==
  ASSUME IInv, Moves
  PROVE  SubmitInv'
<1>1. TypeOK /\ TableType /\ Rows \subseteq Txn /\ RowInv /\ SubmitInv
  BY LookUps DEF IInv, TypeOK
<1>2. ASSUME NEW r \in Request, req'[r].pc = "submit"
      PROVE  \/ req'[r] = req[r] /\ req[r].txn \in Rows
             \/ /\ req'[r] # req[r] /\ req'[r].txn \in Rows' \ Rows
                /\ method'[req'[r].txn] = "MWALLET"
  BY <1>1, <1>2 DEF Moves, RequestMove, RowInv
<1>3. ASSUME NEW r \in Request, req'[r].pc = "submit"
      PROVE  method'[req'[r].txn] = "MWALLET"
  BY <1>1, <1>2, <1>3, Lasting DEF SubmitInv
<1>4. ASSUME NEW q \in Request, NEW r \in Request,
             req'[q].pc = "submit", req'[r].pc = "submit", req'[q].txn = req'[r].txn
      PROVE  q = r
  <2>1. CASE req'[q] = req[q] /\ req'[r] = req[r]
    BY <1>1, <1>4, <2>1 DEF SubmitInv
  <2>2. CASE req'[q] # req[q] /\ req'[r] # req[r]
    BY <1>4, <2>2 DEF Moves, OneRequest, Idle
  <2>3. QED
    BY <1>2, <1>4, <2>1, <2>2
<1>5. QED
  BY <1>3, <1>4 DEF SubmitInv

LEMMA AnswerStep ==
  ASSUME IInv, Moves
  PROVE  AnswerInv'
<1>1. TypeOK /\ RowInv /\ AnswerInv /\ Rows \subseteq Txn
  BY LookUps DEF IInv
<1>2. ASSUME NEW r \in Request, req'[r].pc \in {"phase1", "phase2"}
      PROVE  /\ Holds(req[r].txn, req[r].answer)'
             /\ req'[r].pc = "phase2" => req'[r].answer = "SUCCESS"
  <2>1. /\ req'[r].txn \in Txn /\ Holds(req'[r].txn, req'[r].answer)
        /\ req'[r].pc = "phase2" => req'[r].answer = "SUCCESS"
    BY <1>1, <1>2 DEF Moves, RequestMove, AnswerInv, RowInv
  <2>2. QED
    BY <2>1, Lasting DEF Holds
<1>3. ASSUME NEW w \in Poller, poller'[w].pc \in {"phase1", "phase2"}
      PROVE  /\ Holds(poller[w].txn, poller[w].answer)'
             /\ poller'[w].pc = "phase2" => poller'[w].answer = "SUCCESS"
  <2>1. poller'[w] # Off
    BY <1>3 DEF Off
  <2>2. /\ poller'[w].txn \in Txn /\ Holds(poller'[w].txn, poller'[w].answer)
        /\ poller'[w].pc = "phase2" => poller'[w].answer = "SUCCESS"
    BY <1>1, <1>3, <2>1 DEF Moves, PollerMove, AnswerInv, RowInv
  <2>3. QED
    BY <2>2, Lasting DEF Holds
<1>4. QED
  BY <1>2, <1>3 DEF AnswerInv, Holds

LEMMA DeadlineStep ==
  ASSUME IInv, Moves
  PROVE  DeadlineInv'
<1>1. RowInv /\ DeadlineInv /\ Rows \subseteq Txn
  BY LookUps DEF IInv
<1>2. ASSUME NEW w \in Poller,
             \/ poller'[w].pc \in {"wait", "acquire", "inquire", "phase1", "phase2"}
                /\ poller'[w].expired
             \/ poller'[w].pc = "clear"
      PROVE  old'[poller'[w].txn]
  <2>1. poller'[w] # Off
    BY <1>2 DEF Off
  <2>2. poller'[w].txn \in Txn /\ old[poller'[w].txn]
    BY <1>1, <1>2, <2>1 DEF Moves, PollerMove, DeadlineInv, RowInv
  <2>3. QED
    BY <2>2, Lasting
<1>3. QED
  BY <1>2 DEF DeadlineInv

LEMMA CreditStep ==
  ASSUME IInv, Moves
  PROVE  CreditInv'
<1>1. TableType /\ CreditInv /\ Rows \subseteq Txn
  BY LookUps DEF IInv, TypeOK
<1>2. ASSUME NEW t \in Txn
      PROVE  /\ posted'[t] \in {0, 1}
             /\ posted'[t] = 1 => gateway[t] = "paid" \/ <<t, "SUCCESS">> \in claimed'
             /\ posted[t] = 1 => posted'[t] = 1
  BY <1>1, Lasting DEF Moves, TableMove, PostedMove, CreditWallet, CreditInv, TableType
<1>3. ASSUME NEW t \in Txn, <<t, "SUCCESS">> \in claimed'
      PROVE  posted'[t] = 1
  <2>1. CASE <<t, "SUCCESS">> \in claimed
    BY <1>1, <1>2, <2>1 DEF CreditInv
  <2>2. CASE <<t, "SUCCESS">> \notin claimed
    BY <1>1, <1>3, <2>2 DEF Moves, TableMove, ClaimedMove, CreditWallet, TableType
  <2>3. QED
    BY <2>1, <2>2
<1>4. QED
  BY <1>2, <1>3, Lasting DEF CreditInv

LEMMA StatusStep ==
  ASSUME IInv, Moves
  PROVE  StatusTruthful'
<1>1. TableType /\ StatusTruthful /\ Rows \subseteq Txn
  BY LookUps DEF IInv, TypeOK
<1>2. ASSUME NEW t \in Txn
      PROVE  /\ status'[t] = "SUCCESS" => gateway[t] = "paid" \/ <<t, "SUCCESS">> \in claimed'
             /\ status'[t] = "FAILED" => \/ gateway[t] = "declined" \/ old[t]
                                         \/ <<t, "FAILED">> \in claimed'
  BY <1>1, Lasting DEF Moves, TableMove, RowsMove, Insert, UpdateGatewayTransactionStatus, Holds,
              StatusTruthful, TableType
<1>3. QED
  BY <1>2, Lasting DEF StatusTruthful

LEMMA InitInv == Init => IInv
<1> SUFFICES ASSUME Init PROVE IInv
  OBVIOUS
<1>1. Rows = {}
  BY DEF Init, Rows
<1>2. TypeOK
  BY TopUpAssumption, RequestStates, PollerStates DEF Init, TypeOK, TableType, Answer
<1>3. RowInv /\ KeyInv /\ SubmitInv /\ AnswerInv /\ DeadlineInv
  BY <1>1 DEF Init, RowInv, KeyInv, SubmitInv, AnswerInv, DeadlineInv, Idle, Off
<1>4. CreditInv /\ StatusTruthful
  BY DEF Init, CreditInv, StatusTruthful
<1>5. QED
  BY <1>2, <1>3, <1>4 DEF IInv

LEMMA InvStep == IInv /\ [Next]_vars => IInv'
<1> SUFFICES ASSUME IInv, [Next]_vars PROVE IInv'
  OBVIOUS
<1>1. CASE Next
  <2>1. Moves
    BY <1>1, NextMoves
  <2>2. QED
    BY <1>1, <2>1, TypeStep, RowStep, KeyStep, SubmitStep, AnswerStep, DeadlineStep, CreditStep,
       StatusStep DEF IInv
<1>2. CASE UNCHANGED vars
  BY <1>2 DEF vars, rows, IInv, TypeOK, TableType, RowInv, KeyInv, SubmitInv, AnswerInv, DeadlineInv,
              CreditInv, StatusTruthful, Rows, Holds
<1>3. QED
  BY <1>1, <1>2

\* The inductive invariant: types, one row for a key, one submission for a row, final answers
\* and deadlines that stay true, one credit at most, of a payment that is paid or that a
\* callback says is paid, and statuses with a reason.
THEOREM Invariance == Spec => []IInv
<1>1. QED
  BY InitInv, InvStep, PTL DEF Spec

\* A row says SUCCESS only of money that was paid, and FAILED only when the gateway declined or
\* 120 seconds have passed, unless a callback brought this answer before the gateway gave it;
\* for any number of requests, pollers, callbacks and restarts.
THEOREM Truthful == Spec => []StatusTruthful
<1>1. IInv => StatusTruthful
  BY DEF IInv
<1>2. QED
  BY <1>1, Invariance, PTL

-----------------------------------------------------------------------------
(* TopUp implements Payment                                                *)

\* What Payment sees of a row.
ChargeOf(g) == IF g = "absent" THEN "none" ELSE g

\* A key with a row is charged as its row, and a key without a row is not charged.
KeysAsRows ==
  /\ \A t \in Rows : /\ key[t] \in Key
                     /\ charged[key[t]] = ChargeOf(gateway[t])
                     /\ deposits[key[t]] = posted[t]
                     /\ key[t] \in believed <=> <<t, "SUCCESS">> \in claimed
  /\ \A k \in Key : (\A t \in Rows : key[t] # k) =>
       charged[k] = "none" /\ deposits[k] = 0 /\ k \notin believed

LEMMA RowValue ==
  IInv => \A t \in Rows : /\ key[t] \in Key
                          /\ charged[key[t]] = ChargeOf(gateway[t])
                          /\ deposits[key[t]] = posted[t]
                          /\ key[t] \in believed <=> <<t, "SUCCESS">> \in claimed
<1> SUFFICES ASSUME IInv, NEW t \in Rows
             PROVE  /\ key[t] \in Key
                    /\ charged[key[t]] = ChargeOf(gateway[t])
                    /\ deposits[key[t]] = posted[t]
                    /\ key[t] \in believed <=> <<t, "SUCCESS">> \in claimed
  OBVIOUS
<1> DEFINE k == key[t]
<1>1. k \in Key /\ t \in Txn /\ posted[t] \in {0, 1}
  BY LookUps DEF IInv, RowInv, CreditInv
<1>2. \A u \in Submitted(k) \cup Credited(k) : u = t
  BY <1>1 DEF IInv, RowInv, KeyInv, Submitted, Credited
<1>3. charged[k] = ChargeOf(gateway[t])
  <2>1. CASE gateway[t] = "absent"
    <3>1. Submitted(k) = {}
      BY <1>2, <2>1 DEF Submitted
    <3>2. QED
      BY <1>1, <2>1, <3>1 DEF charged, ChargeOf
  <2>2. CASE gateway[t] # "absent"
    <3>1. Submitted(k) = {t} /\ One({t}) = t
      BY <1>1, <1>2, <2>2 DEF Submitted, One
    <3>2. QED
      BY <1>1, <2>2, <3>1 DEF charged, ChargeOf
  <2>3. QED
    BY <2>1, <2>2
<1>4. deposits[k] = posted[t]
  <2>1. CASE posted[t] = 0
    <3>1. Credited(k) = {}
      BY <1>2, <2>1 DEF Credited
    <3>2. QED
      BY <1>1, <2>1, <3>1 DEF deposits
  <2>2. CASE posted[t] = 1
    <3>1. Credited(k) = {t} /\ One({t}) = t
      BY <1>1, <1>2, <2>2 DEF Credited, One
    <3>2. QED
      BY <1>1, <3>1 DEF deposits
  <2>3. QED
    BY <1>1, <2>1, <2>2
<1>5. k \in believed <=> <<t, "SUCCESS">> \in claimed
  <2>1. ASSUME NEW u \in Txn, key[u] = k, <<u, "SUCCESS">> \in claimed
        PROVE  u = t
    BY <1>2, <2>1 DEF IInv, CreditInv, Credited
  <2>2. QED
    BY <1>1, <2>1 DEF believed
<1>6. QED
  BY <1>1, <1>3, <1>4, <1>5

LEMMA NoRowValue ==
  IInv => \A k \in Key : (\A t \in Rows : key[t] # k) =>
            charged[k] = "none" /\ deposits[k] = 0 /\ k \notin believed
<1> SUFFICES ASSUME IInv, NEW k \in Key, \A t \in Rows : key[t] # k
             PROVE  charged[k] = "none" /\ deposits[k] = 0 /\ k \notin believed
  OBVIOUS
<1>1. Submitted(k) = {} /\ Credited(k) = {}
  BY DEF IInv, RowInv, Submitted, Credited
<1>2. ASSUME NEW t \in Txn, key[t] = k
      PROVE  <<t, "SUCCESS">> \notin claimed
  <2>1. t \notin Rows
    BY <1>2
  <2>2. posted[t] = 0
    BY <2>1 DEF IInv, RowInv
  <2>3. QED
    BY <2>2 DEF IInv, CreditInv
<1>3. k \notin believed
  BY <1>2 DEF believed
<1>4. QED
  BY <1>1, <1>3 DEF charged, deposits

LEMMA KeyValue == IInv => KeysAsRows
BY RowValue, NoRowValue DEF KeysAsRows

LEMMA KeyValueNext == IInv' => KeysAsRows'
BY KeyValue, PTL

\* What happens to a key happens to its row.
LEMMA KeyMoves ==
  ASSUME IInv, IInv', Moves, NEW k \in Key
  PROVE  \/ \E t \in Rows : /\ key[t] = k
                            /\ charged[k] = ChargeOf(gateway[t]) /\ charged'[k] = ChargeOf(gateway'[t])
                            /\ deposits[k] = posted[t] /\ deposits'[k] = posted'[t]
                            /\ k \in believed <=> <<t, "SUCCESS">> \in claimed
                            /\ k \in believed' <=> <<t, "SUCCESS">> \in claimed'
         \/ charged'[k] = charged[k] /\ deposits'[k] = deposits[k] /\ (k \in believed' <=> k \in believed)
<1>1. \A t \in Rows' : /\ charged'[key'[t]] = ChargeOf(gateway'[t])
                       /\ deposits'[key'[t]] = posted'[t]
                       /\ key'[t] \in believed' <=> <<t, "SUCCESS">> \in claimed'
  BY KeyValueNext DEF KeysAsRows, ChargeOf
<1>2. (\A t \in Rows' : key'[t] # k) => charged'[k] = "none" /\ deposits'[k] = 0 /\ k \notin believed'
  BY KeyValueNext DEF KeysAsRows
<1>3. CASE \E t \in Rows : key[t] = k
  BY <1>1, <1>3, Lasting, RowValue
<1>4. CASE \A t \in Rows : key[t] # k
  <2>1. charged[k] = "none" /\ deposits[k] = 0 /\ k \notin believed
    BY <1>4, NoRowValue
  <2>2. ASSUME NEW t \in Rows', key'[t] = k
        PROVE  gateway'[t] = "absent" /\ posted'[t] = 0 /\ <<t, "SUCCESS">> \notin claimed'
    <3>1. t \in Txn \ Rows
      BY <1>4, <2>2, Lasting DEF Rows
    <3>2. gateway[t] = "absent" /\ posted[t] = 0 /\ TableType /\ Rows \subseteq Txn
      BY <3>1, LookUps DEF IInv, RowInv, TypeOK
    <3>3. gateway'[t] = gateway[t]
      BY <3>1, <3>2 DEF Moves, TableMove, GatewayMove, TableType
    <3>4. posted'[t] = posted[t]
      BY <3>1, <3>2 DEF Moves, TableMove, PostedMove, CreditWallet, TableType
    <3>5. <<t, "SUCCESS">> \notin claimed'
      BY <3>1, <3>2, <3>4 DEF IInv, CreditInv, Rows
    <3>6. QED
      BY <3>2, <3>3, <3>4, <3>5
  <2>3. QED
    BY <1>1, <1>2, <2>1, <2>2 DEF ChargeOf
<1>5. QED
  BY <1>3, <1>4

LEMMA PromiseInit == Init => Promise!Init
<1> SUFFICES ASSUME Init PROVE Promise!Init
  OBVIOUS
<1>1. \A k \in Key : Submitted(k) = {} /\ Credited(k) = {}
  BY DEF Init, Submitted, Credited
<1>2. QED
  BY <1>1 DEF Init, Promise!Init, charged, deposits, believed

LEMMA PromiseStep ==
  ASSUME IInv, IInv', Moves
  PROVE  [Promise!Next]_Promise!vars
<1> DEFINE Said(t) == <<t, "SUCCESS">> \in claimed
<1>1. /\ charged = [k \in Key |-> charged[k]] /\ charged' = [k \in Key |-> charged'[k]]
      /\ deposits = [k \in Key |-> deposits[k]] /\ deposits' = [k \in Key |-> deposits'[k]]
      /\ believed \subseteq Key /\ believed' \subseteq Key
  BY DEF charged, deposits, believed
<1>2. TableType /\ Rows \subseteq Txn /\ KeyInv
  BY LookUps DEF IInv, TypeOK
<1>3. \A t \in Rows : /\ key[t] \in Key
                      /\ charged[key[t]] = ChargeOf(gateway[t]) /\ deposits[key[t]] = posted[t]
                      /\ key[t] \in believed <=> Said(t)
  BY RowValue
<1>4. CASE UNCHANGED gateway /\ UNCHANGED posted
  <2>1. \A t \in Rows : Said(t)' <=> Said(t)
    BY <1>2, <1>4 DEF Moves, TableMove, ClaimedMove, CreditWallet, TableType
  <2>2. \A k \in Key : charged'[k] = charged[k] /\ deposits'[k] = deposits[k]
                      /\ (k \in believed' <=> k \in believed)
    BY <1>4, <2>1, KeyMoves
  <2>3. QED
    BY <1>1, <2>2 DEF Promise!vars
<1>5. ASSUME UNCHANGED gateway, NEW t \in Rows, gateway[t] = "paid" \/ Said(t)', CreditWallet(t)
      PROVE  Promise!Deposit(key[t])
  <2>1. \A k \in Key : charged'[k] = charged[k]
    BY <1>5, KeyMoves
  <2>2. posted[t] = 0 /\ posted'[t] = 1 /\ \A u \in Rows \ {t} : posted'[u] = posted[u]
    BY <1>2, <1>5 DEF CreditWallet, TableType
  <2>3. ~ Said(t) /\ \A u \in Rows \ {t} : Said(u)' <=> Said(u)
    <3>1. ~ Said(t)
      BY <1>2, <2>2 DEF IInv, CreditInv
    <3>2. ASSUME NEW u \in Rows, claimed' = claimed \cup {<<u, "SUCCESS">>}, CreditWallet(u)
          PROVE  u = t
      BY <1>2, <2>2, <3>2 DEF CreditWallet, TableType
    <3>3. QED
      BY <1>2, <2>2, <3>1, <3>2 DEF Moves, TableMove, ClaimedMove
  <2>4. \A k \in Key \ {key[t]} : deposits'[k] = deposits[k] /\ (k \in believed' <=> k \in believed)
    BY <2>2, <2>3, KeyMoves
  <2>5. deposits'[key[t]] = 1 /\ (key[t] \in believed' <=> Said(t)')
    <3>1. t \in Rows' /\ key'[t] = key[t]
      BY Lasting
    <3>2. QED
      BY <2>2, <3>1, KeyValueNext DEF KeysAsRows
  <2>6. UNCHANGED charged /\ deposits' = [deposits EXCEPT ![key[t]] = 1] /\ deposits[key[t]] = 0
    BY <1>1, <1>3, <2>1, <2>2, <2>4, <2>5
  <2>7. CASE Said(t)'
    <3>1. believed' = believed \cup {key[t]}
      <4>1. key[t] \in Key /\ key[t] \in believed'
        BY <1>3, <2>5, <2>7
      <4>2. QED
        BY <1>1, <2>4, <4>1
    <3>2. QED
      BY <2>6, <3>1 DEF Promise!Deposit
  <2>8. CASE ~ Said(t)'
    <3>1. UNCHANGED believed
      <4>1. key[t] \notin believed /\ key[t] \notin believed'
        BY <1>3, <2>3, <2>5, <2>8
      <4>2. \A k \in Key : k \in believed' <=> k \in believed
        BY <2>4, <4>1
      <4>3. QED
        BY <1>1, <4>2
    <3>2. charged[key[t]] = "paid"
      BY <1>3, <1>5, <2>8 DEF ChargeOf
    <3>3. QED
      BY <2>6, <3>1, <3>2 DEF Promise!Deposit
  <2>9. QED
    BY <2>7, <2>8
<1>6. ASSUME NEW t \in Rows, NEW g \in {"pending", "paid", "declined"}, gateway[t] # g,
             gateway' = [gateway EXCEPT ![t] = g]
      PROVE  /\ charged' = [charged EXCEPT ![key[t]] = g]
             /\ UNCHANGED <<deposits, believed>>
             /\ charged[key[t]] = ChargeOf(gateway[t])
  <2>1. gateway'[t] = g /\ \A u \in Rows \ {t} : gateway'[u] = gateway[u]
    BY <1>2, <1>6 DEF TableType
  <2>2. UNCHANGED posted /\ \A u \in Rows : Said(u)' <=> Said(u)
    BY <1>6, <2>1 DEF Moves, TableMove, PostedMove, ClaimedMove
  <2>3. \A k \in Key : deposits'[k] = deposits[k] /\ (k \in believed' <=> k \in believed)
    BY <2>2, KeyMoves
  <2>4. \A k \in Key \ {key[t]} : charged'[k] = charged[k]
    BY <2>1, KeyMoves
  <2>5. charged'[key[t]] = g
    <3>1. t \in Rows' /\ key'[t] = key[t]
      BY Lasting
    <3>2. QED
      BY <2>1, <3>1, KeyValueNext DEF KeysAsRows, ChargeOf
  <2>6. QED
    BY <1>1, <1>3, <2>3, <2>4, <2>5
<1>7. CASE \E t \in Rows : gateway[t] = "absent" /\ gateway' = [gateway EXCEPT ![t] = "pending"]
  <2>1. PICK t \in Rows : gateway[t] = "absent" /\ gateway' = [gateway EXCEPT ![t] = "pending"]
    BY <1>7
  <2>2. Promise!Charge(key[t])
    BY <1>6, <2>1 DEF Promise!Charge, ChargeOf
  <2>3. QED
    BY <1>3, <2>2 DEF Promise!Next
<1>8. CASE \E t \in Rows, s \in {"paid", "declined"} :
             gateway[t] = "pending" /\ gateway' = [gateway EXCEPT ![t] = s]
  <2>1. PICK t \in Rows, s \in {"paid", "declined"} :
          gateway[t] = "pending" /\ gateway' = [gateway EXCEPT ![t] = s]
    BY <1>8
  <2>2. Promise!Settle(key[t])
    BY <1>6, <2>1 DEF Promise!Settle, ChargeOf
  <2>3. QED
    BY <1>3, <2>2 DEF Promise!Next
<1>9. QED
  BY <1>3, <1>4, <1>5, <1>7, <1>8 DEF Moves, TableMove, GatewayMove, PostedMove, Promise!Next

\* Requests that are repeated or race, lost answers, callbacks, pollers, checks and restarts
\* together charge a key at most once, and deposit its money at most once, and only if it was
\* paid or a callback that came before the gateway's decision said so: whatever the numbers of
\* keys, rows, requests, pollers and tokens.
THEOREM Refinement == Spec => ImplementsPayment
<1>1. IInv /\ IInv' /\ [Next]_vars => [Promise!Next]_Promise!vars
  <2> SUFFICES ASSUME IInv, IInv', [Next]_vars PROVE [Promise!Next]_Promise!vars
    OBVIOUS
  <2>1. CASE Next
    BY <2>1, NextMoves, PromiseStep
  <2>2. CASE UNCHANGED vars
    <3>1. UNCHANGED <<charged, deposits, believed>>
      BY <2>2 DEF vars, rows, charged, deposits, believed, Submitted, Credited
    <3>2. QED
      BY <3>1 DEF Promise!vars
  <2>3. QED
    BY <2>1, <2>2
<1>2. QED
  BY <1>1, PromiseInit, Invariance, PTL DEF Spec, ImplementsPayment, Promise!Spec

-----------------------------------------------------------------------------
(* Tokens                                                                  *)

\* The pollers that hold a token.
Holders == {w \in Poller : poller[w].pc \in {"inquire", "phase1", "phase2"}}

\* A step keeps the tokens, takes one for a poller, or gives back the one of a poller.
TokensMove ==
  \/ Holders' = Holders /\ tokens' = tokens
  \/ \E w \in Poller \ Holders :
       Holders' = Holders \cup {w} /\ tokens > 0 /\ tokens' = tokens - 1
  \/ \E w \in Holders : Holders' = Holders \ {w} /\ Release
  \/ Holders' = {} /\ tokens' = MaxConcurrent

\* A poller that goes from s to another state, with a token before or after or not at all.
LEMMA HoldersAfter ==
  ASSUME TypeOK, NEW w \in Poller, NEW s, PollGoto(w, s)
  PROVE  /\ s.pc \in {"inquire", "phase1", "phase2"} => Holders' = Holders \cup {w}
         /\ s.pc \notin {"inquire", "phase1", "phase2"} => Holders' = Holders \ {w}
<1>1. poller'[w] = s /\ \A v \in Poller \ {w} : poller'[v] = poller[v]
  BY PollGotoValue
<1>2. QED
  BY <1>1 DEF Holders

LEMMA RequestsKeepTokens ==
  ASSUME IInv, NEW r \in Request, InitiatePayment(r) \/ Serve(r) \/ Abandon(r)
                                  \/ \E t \in Txn : GetTransactionStatus(r, t)
  PROVE  TokensMove
<1>1. tokens' = tokens
  BY DEF InitiatePayment, Serve, Abandon, GetTransactionStatus, CreateGatewayTransaction,
         SubmitMWallet, Inquire, Finalize, FinalizeCredit, Reply
<1>2. CASE Reply(r)
  <2>1. TypeOK
    BY DEF IInv
  <2>2. CASE UNCHANGED poller
    BY <1>1, <2>2 DEF TokensMove, Holders
  <2>3. ASSUME NEW w \in Poller, poller[w] = Off,
               poller' = [poller EXCEPT ![w] = [pc |-> "claim", txn |-> req[r].txn]]
        PROVE  TokensMove
    <3>1. PollGoto(w, [pc |-> "claim", txn |-> req[r].txn])
      BY <2>3 DEF PollGoto
    <3>2. Holders' = Holders \ {w} /\ w \notin Holders
      BY <2>1, <2>3, <3>1, HoldersAfter DEF Holders, Off
    <3>3. QED
      BY <1>1, <3>2 DEF TokensMove
  <2>4. QED
    BY <1>2, <2>2, <2>3 DEF Reply
<1>3. CASE ~ Reply(r)
  <2>1. UNCHANGED poller
    BY <1>3 DEF InitiatePayment, Serve, Abandon, GetTransactionStatus, CreateGatewayTransaction,
                SubmitMWallet, Inquire, Finalize, FinalizeCredit
  <2>2. QED
    BY <1>1, <2>1 DEF TokensMove, Holders
<1>4. QED
  BY <1>2, <1>3

LEMMA PollersMoveTokens ==
  ASSUME IInv, NEW w \in Poller, Poll(w) \/ Expire(w) \/ HandlePollingTimeout(w)
  PROVE  TokensMove
<1> DEFINE s == poller[w]
<1>1. TypeOK /\ s \in PollerState
  BY DEF IInv, TypeOK
<1>2. s.pc \in {"inquire", "phase1", "phase2"} <=> w \in Holders
  BY DEF Holders
<1>3. Off.pc = "off" /\ Waiting(w).pc = "wait"
  BY DEF Off, Waiting
<1>4. ASSUME NEW c, [s EXCEPT !.pc = c].pc # c, s.pc # "off"
      PROVE  FALSE
  BY <1>1, <1>4 DEF PollerState, Off
<1>5. CASE UpdatePollingStatus(w)
  <2>1. s.pc = "claim" /\ tokens' = tokens
    BY <1>5 DEF UpdatePollingStatus
  <2>2. Holders' = Holders \ {w}
    BY <1>1, <1>3, <1>5, HoldersAfter DEF UpdatePollingStatus
  <2>3. QED
    BY <1>2, <2>1, <2>2 DEF TokensMove
<1>6. CASE Expire(w)
  <2>1. tokens' = tokens /\ PollGoto(w, [s EXCEPT !.expired = TRUE])
    BY <1>6 DEF Expire
  <2>2. [s EXCEPT !.expired = TRUE].pc = s.pc
    BY <1>1, <1>6 DEF Expire, PollerState, Off
  <2>3. Holders' = Holders
    BY <1>1, <1>2, <2>1, <2>2, HoldersAfter
  <2>4. QED
    BY <2>1, <2>3 DEF TokensMove
<1>7. CASE Tick(w) \/ AcquireCancelled(w) \/ HandlePollingTimeout(w) \/ ClearAfterTimeout(w)
  <2>1. tokens' = tokens /\ s.pc \in {"wait", "acquire", "clear"}
    BY <1>7 DEF Tick, AcquireCancelled, HandlePollingTimeout, ClearAfterTimeout
  <2>2. PICK u : PollGoto(w, u) /\ u.pc \in {"acquire", "clear", "off"}
    BY <1>3, <1>4, <1>7 DEF Tick, AcquireCancelled, HandlePollingTimeout, ClearAfterTimeout
  <2>3. Holders' = Holders \ {w}
    BY <1>1, <2>2, HoldersAfter
  <2>4. QED
    BY <1>2, <2>1, <2>3 DEF TokensMove
<1>8. CASE Acquire(w)
  <2>1. s.pc = "acquire" /\ tokens > 0 /\ tokens' = tokens - 1
        /\ PollGoto(w, [s EXCEPT !.pc = "inquire"])
    BY <1>8 DEF Acquire
  <2>2. Holders' = Holders \cup {w}
    BY <1>1, <1>4, <2>1, HoldersAfter
  <2>3. QED
    BY <1>2, <2>1, <2>2 DEF TokensMove
<1>9. CASE PollInquire(w) \/ PollFinalize(w) \/ PollCredit(w)
  <2>1. w \in Holders /\ s.pc # "off"
    BY <1>2, <1>9 DEF PollInquire, PollFinalize, PollCredit
  <2>2. PICK u : /\ PollGoto(w, u)
                 /\ \/ u.pc \in {"phase1", "phase2"} /\ UNCHANGED tokens
                    \/ u.pc \in {"wait", "off"} /\ Release
    <3>1. CASE PollInquire(w)
      <4>1. CASE PollGoto(w, Waiting(w)) /\ Release
        BY <1>3, <4>1
      <4>2. ASSUME NEW a, UNCHANGED tokens,
                   PollGoto(w, [pc |-> "phase1", txn |-> s.txn, expired |-> FALSE, answer |-> a])
            PROVE  \E u : PollGoto(w, u) /\ u.pc \in {"phase1", "phase2"} /\ UNCHANGED tokens
        <5> DEFINE u == [pc |-> "phase1", txn |-> s.txn, expired |-> FALSE, answer |-> a]
        <5>1. u.pc = "phase1" /\ PollGoto(w, u)
          BY <4>2
        <5> HIDE DEF u
        <5>2. QED
          BY <4>2, <5>1
      <4>3. QED
        BY <3>1, <4>1, <4>2 DEF PollInquire
    <3>2. CASE PollFinalize(w)
      BY <1>3, <1>4, <2>1, <3>2 DEF PollFinalize
    <3>3. CASE PollCredit(w)
      BY <1>3, <3>3 DEF PollCredit
    <3>4. QED
      BY <1>9, <3>1, <3>2, <3>3
  <2>3. CASE u.pc \in {"phase1", "phase2"} /\ UNCHANGED tokens
    <3>1. Holders' = Holders \cup {w}
      BY <1>1, <2>2, <2>3, HoldersAfter
    <3>2. QED
      BY <2>1, <2>3, <3>1 DEF TokensMove
  <2>4. CASE u.pc \in {"wait", "off"} /\ Release
    <3>1. Holders' = Holders \ {w}
      BY <1>1, <2>2, <2>4, HoldersAfter
    <3>2. QED
      BY <2>1, <2>4, <3>1 DEF TokensMove
  <2>5. QED
    BY <2>2, <2>3, <2>4
<1>10. QED
  BY <1>5, <1>6, <1>7, <1>8, <1>9 DEF Poll

LEMMA TokensStep ==
  ASSUME IInv, TokensConserved, [Next]_vars
  PROVE  TokensConserved'
<1>1. IsFiniteSet(Holders) /\ Cardinality(Holders) \in Nat /\ tokens \in Nat /\ MaxConcurrent \in Nat
  <2>1. Holders \subseteq Poller
    BY DEF Holders
  <2>2. QED
    BY <2>1, PollerAssumption, TopUpAssumption, FS_Subset, FS_CardinalityType DEF IInv, TypeOK
<1>2. tokens + Cardinality(Holders) = MaxConcurrent
  BY DEF TokensConserved, Holders
<1>3. TokensMove
  <2>1. CASE UNCHANGED vars
    BY <2>1 DEF vars, TokensMove, Holders
  <2>2. CASE \E t \in Txn : \/ PostForm(t) \/ CompleteCardPayment(t)
                            \/ Settle(t) \/ Age(t)
    BY <2>2 DEF PostForm, CompleteCardPayment, Settle, Age, TokensMove, Holders
  <2>3. CASE Restart
    BY <2>3 DEF Restart, TokensMove, Holders, Off
  <2>4. QED
    BY <2>1, <2>2, <2>3, RequestsKeepTokens, PollersMoveTokens DEF Next
<1>4. tokens' + Cardinality(Holders') = MaxConcurrent
  <2>1. CASE Holders' = Holders /\ tokens' = tokens
    BY <1>2, <2>1
  <2>2. ASSUME NEW w \in Poller \ Holders, Holders' = Holders \cup {w}, tokens' = tokens - 1
        PROVE  tokens' + Cardinality(Holders') = MaxConcurrent
    <3>1. Cardinality(Holders \cup {w}) = Cardinality(Holders) + 1
      BY <1>1, <2>2, FS_AddElement
    <3>2. QED
      BY <1>1, <1>2, <2>2, <3>1
  <2>3. ASSUME NEW w \in Holders, Holders' = Holders \ {w}, Release
        PROVE  tokens' + Cardinality(Holders') = MaxConcurrent
    <3>1. Cardinality(Holders \ {w}) = Cardinality(Holders) - 1
      BY <1>1, FS_RemoveElement
    <3>2. Cardinality(Holders \ {w}) \in Nat
      BY <1>1, FS_RemoveElement, FS_CardinalityType
    <3>3. tokens < MaxConcurrent
      BY <1>1, <1>2, <3>1, <3>2
    <3>4. tokens' = tokens + 1
      BY <2>3, <3>3 DEF Release
    <3>5. QED
      BY <1>1, <1>2, <2>3, <3>1, <3>4
  <2>4. CASE Holders' = {} /\ tokens' = MaxConcurrent
    BY <1>1, <2>4, FS_EmptySet
  <2>5. QED
    BY <1>3, <2>1, <2>2, <2>3, <2>4 DEF TokensMove
<1>5. QED
  BY <1>4 DEF TokensConserved, Holders

\* Every way out of pollTransactionOnce gives back the token it took, and Release never finds
\* the channel full: tokens and their holders are always MaxConcurrent.
THEOREM TokensAreConserved == Spec => []TokensConserved
<1>1. Init => TokensConserved
  <2> SUFFICES ASSUME Init PROVE TokensConserved
    OBVIOUS
  <2>1. Holders = {}
    BY DEF Init, Off, Holders
  <2>2. tokens = MaxConcurrent /\ MaxConcurrent \in Nat
    BY TopUpAssumption DEF Init
  <2>3. tokens + Cardinality(Holders) = MaxConcurrent
    BY <2>1, <2>2, FS_EmptySet
  <2>4. QED
    BY <2>3 DEF TokensConserved, Holders
<1>2. IInv /\ TokensConserved /\ [Next]_vars => TokensConserved'
  BY TokensStep
<1>3. QED
  BY <1>1, <1>2, Invariance, PTL DEF Spec

-----------------------------------------------------------------------------
(* One poller                                                              *)

Undecided(t) == gateway[t] \in {"absent", "pending"}

\* OnePollerWhilePending without cardinalities.
OnePollerInv ==
  \A t \in Txn : Undecided(t) =>
    /\ \A v, w \in PollersOf(t) : v = w
    /\ PollersOf(t) # {} => is_polling[t]

\* While t is undecided its flag is cleared only by its poller on its way out, and a poller
\* comes only with the flag.
PollersMove(t) ==
  \/ PollersOf(t)' \subseteq PollersOf(t) /\ (is_polling[t] => is_polling'[t])
  \/ \E w \in PollersOf(t) : PollersOf(t)' = PollersOf(t) \ {w}
  \/ /\ ~ is_polling[t] /\ is_polling'[t]
     /\ \E w \in Poller : PollersOf(t)' = PollersOf(t) \cup {w}

\* A poller at work stays with its payment or ends.
LEMMA PollersAfter ==
  ASSUME TypeOK, NEW t \in Txn, NEW w \in Poller, NEW s, PollGoto(w, s),
         poller[w].pc \notin {"off", "claim"}, s.pc = "off" \/ s.txn = poller[w].txn
  PROVE  PollersOf(t)' \subseteq PollersOf(t)
<1>1. poller'[w] = s /\ \A v \in Poller \ {w} : poller'[v] = poller[v]
  BY PollGotoValue
<1>2. QED
  BY <1>1 DEF PollersOf

\* Phase 1 clears the flag of a decided payment only.
LEMMA FlagAfterUpdate ==
  ASSUME TypeOK, NEW t \in Txn, Undecided(t), NEW u \in Txn, NEW a, Holds(u, a), UpdateStatus(u, a)
  PROVE  is_polling'[t] = is_polling[t]
<1>1. CASE Terminal(a)
  <2>1. u # t
    BY <1>1 DEF Terminal, Holds, Undecided
  <2>2. QED
    BY <1>1, <2>1 DEF UpdateStatus, ClearPollingStatus, TypeOK, TableType
<1>2. CASE ~ Terminal(a)
  BY <1>2 DEF UpdateStatus
<1>3. QED
  BY <1>1, <1>2

LEMMA RequestsKeepPollers ==
  ASSUME IInv, NEW t \in Txn, Undecided(t),
         NEW r \in Request, InitiatePayment(r) \/ Serve(r) \/ Abandon(r)
                            \/ \E u \in Txn : GetTransactionStatus(r, u)
  PROVE  PollersMove(t)
<1>1. TypeOK
  BY DEF IInv
<1>2. CASE Finalize(r)
  <2>1. req[r].txn \in Txn /\ Holds(req[r].txn, req[r].answer)
    BY <1>2, LookUps DEF Finalize, IInv, RowInv, AnswerInv
  <2>2. UNCHANGED poller /\ is_polling'[t] = is_polling[t]
    BY <1>1, <1>2, <2>1, FlagAfterUpdate DEF Finalize
  <2>3. QED
    BY <2>2 DEF PollersMove, PollersOf
<1>3. CASE Reply(r)
  <2>1. UNCHANGED is_polling
    BY <1>3 DEF Reply, rows
  <2>2. PollersOf(t)' = PollersOf(t)
    <3>1. CASE UNCHANGED poller
      BY <3>1 DEF PollersOf
    <3>2. ASSUME NEW w \in Poller, poller[w] = Off,
                 poller' = [poller EXCEPT ![w] = [pc |-> "claim", txn |-> req[r].txn]]
          PROVE  PollersOf(t)' = PollersOf(t)
      BY <1>1, <3>2 DEF PollersOf, Off, TypeOK
    <3>3. QED
      BY <1>3, <3>1, <3>2 DEF Reply
  <2>3. QED
    BY <2>1, <2>2 DEF PollersMove
<1>4. CASE ~ Finalize(r) /\ ~ Reply(r)
  <2>1. UNCHANGED <<is_polling, poller>>
    BY <1>4 DEF InitiatePayment, Serve, Abandon, GetTransactionStatus, CreateGatewayTransaction,
                SubmitMWallet, Inquire, FinalizeCredit, rows
  <2>2. QED
    BY <2>1 DEF PollersMove, PollersOf
<1>5. QED
  BY <1>2, <1>3, <1>4

LEMMA PollersMovePollers ==
  ASSUME IInv, NEW t \in Txn, Undecided(t),
         NEW w \in Poller, Poll(w) \/ Expire(w) \/ HandlePollingTimeout(w)
  PROVE  PollersMove(t)
<1> DEFINE s == poller[w]
<1>1. TypeOK /\ s \in PollerState
  BY DEF IInv, TypeOK
<1>2. Off.pc = "off" /\ Waiting(w).txn = s.txn
  BY DEF Off, Waiting
<1>3. s.pc \notin {"off", "claim"} =>
        /\ [s EXCEPT !.expired = TRUE].txn = s.txn
        /\ [s EXCEPT !.pc = "acquire"].txn = s.txn /\ [s EXCEPT !.pc = "inquire"].txn = s.txn
        /\ [s EXCEPT !.pc = "phase2"].txn = s.txn /\ [s EXCEPT !.pc = "clear"].txn = s.txn
  BY <1>1 DEF PollerState, Off
<1>4. CASE UpdatePollingStatus(w)
  <2>1. s.pc = "claim" /\ s.txn \in Txn
    BY <1>1, <1>4, PollerShape DEF UpdatePollingStatus
  <2>2. CASE UNCHANGED is_polling /\ PollGoto(w, Off)
    <3>1. PollersOf(t)' = PollersOf(t)
      BY <1>1, <1>2, <2>1, <2>2, PollGotoValue DEF PollersOf
    <3>2. QED
      BY <2>2, <3>1 DEF PollersMove
  <2>3. CASE /\ ~ is_polling[s.txn]
             /\ is_polling' = [is_polling EXCEPT ![s.txn] = TRUE]
             /\ PollGoto(w, [pc |-> "wait", txn |-> s.txn, expired |-> FALSE])
    <3>1. /\ poller'[w].pc = "wait" /\ poller'[w].txn = s.txn
          /\ \A v \in Poller \ {w} : poller'[v] = poller[v]
      BY <1>1, <2>3, PollGotoValue
    <3>2. CASE s.txn = t
      <4>1. PollersOf(t)' = PollersOf(t) \cup {w}
        BY <2>1, <3>1, <3>2 DEF PollersOf
      <4>2. ~ is_polling[t] /\ is_polling'[t]
        BY <1>1, <2>3, <3>2 DEF TypeOK, TableType
      <4>3. QED
        BY <4>1, <4>2 DEF PollersMove
    <3>3. CASE s.txn # t
      <4>1. PollersOf(t)' = PollersOf(t)
        BY <2>1, <3>1, <3>3 DEF PollersOf
      <4>2. is_polling'[t] = is_polling[t]
        BY <1>1, <2>3, <3>3 DEF TypeOK, TableType
      <4>3. QED
        BY <4>1, <4>2 DEF PollersMove
    <3>4. QED
      BY <3>2, <3>3
  <2>4. QED
    BY <1>4, <2>2, <2>3 DEF UpdatePollingStatus
<1>5. CASE \/ Expire(w) \/ Tick(w) \/ Acquire(w) \/ AcquireCancelled(w) \/ PollCredit(w)
           \/ HandlePollingTimeout(w)
  <2>1. s.pc \notin {"off", "claim"} /\ UNCHANGED is_polling
    BY <1>5 DEF Expire, Tick, Acquire, AcquireCancelled, PollCredit, HandlePollingTimeout, rows
  <2>2. PICK u : PollGoto(w, u) /\ (u.pc = "off" \/ u.txn = s.txn)
    BY <1>2, <1>3, <1>5, <2>1
       DEF Expire, Tick, Acquire, AcquireCancelled, PollCredit, HandlePollingTimeout
  <2>3. PollersOf(t)' \subseteq PollersOf(t)
    BY <1>1, <2>1, <2>2, PollersAfter
  <2>4. QED
    BY <2>1, <2>3 DEF PollersMove
<1>6. CASE PollInquire(w)
  <2>1. s.pc \notin {"off", "claim"} /\ UNCHANGED is_polling
    BY <1>6 DEF PollInquire, rows
  <2>2. CASE PollGoto(w, Waiting(w))
    BY <1>1, <1>2, <2>1, <2>2, PollersAfter DEF PollersMove
  <2>3. ASSUME NEW a,
               PollGoto(w, [pc |-> "phase1", txn |-> s.txn, expired |-> FALSE, answer |-> a])
        PROVE  PollersMove(t)
    BY <1>1, <2>1, <2>3, PollersAfter DEF PollersMove
  <2>4. QED
    BY <1>6, <2>2, <2>3 DEF PollInquire
<1>7. CASE PollFinalize(w)
  <2>1. s.pc \notin {"off", "claim"} /\ s.txn \in Txn /\ Holds(s.txn, s.answer)
    BY <1>1, <1>7, PollerShape DEF PollFinalize, IInv, AnswerInv
  <2>2. is_polling'[t] = is_polling[t]
    BY <1>1, <1>7, <2>1, FlagAfterUpdate DEF PollFinalize
  <2>3. PICK u : PollGoto(w, u) /\ (u.pc = "off" \/ u.txn = s.txn)
    BY <1>2, <1>3, <1>7, <2>1 DEF PollFinalize
  <2>4. PollersOf(t)' \subseteq PollersOf(t)
    BY <1>1, <2>1, <2>3, PollersAfter
  <2>5. QED
    BY <2>2, <2>4 DEF PollersMove
<1>8. CASE ClearAfterTimeout(w)
  <2>1. s.pc = "clear" /\ s.txn \in Txn /\ PollGoto(w, Off)
    BY <1>1, <1>8, PollerShape DEF ClearAfterTimeout
  <2>2. \A v \in Poller \ {w} : poller'[v] = poller[v]
    BY <1>1, <2>1, PollGotoValue
  <2>3. poller'[w].pc = "off"
    BY <1>1, <1>2, <2>1, PollGotoValue
  <2>4. PollersOf(t)' = PollersOf(t) \ {w}
    BY <2>2, <2>3 DEF PollersOf
  <2>5. CASE s.txn = t
    <3>1. w \in PollersOf(t)
      BY <2>1, <2>5 DEF PollersOf
    <3>2. QED
      BY <2>4, <3>1 DEF PollersMove
  <2>6. CASE s.txn # t
    <3>1. is_polling'[t] = is_polling[t]
      BY <1>1, <1>8, <2>1, <2>6 DEF ClearAfterTimeout, ClearPollingStatus, TypeOK, TableType
    <3>2. QED
      BY <2>4, <3>1 DEF PollersMove
  <2>7. QED
    BY <2>5, <2>6
<1>9. QED
  BY <1>4, <1>5, <1>6, <1>7, <1>8 DEF Poll

LEMMA OnePollerStep ==
  ASSUME IInv, OnePollerInv, [Next]_vars
  PROVE  OnePollerInv'
<1>1. CASE UNCHANGED vars
  BY <1>1 DEF vars, rows, OnePollerInv, Undecided, PollersOf
<1>2. CASE Next
  <2>1. ASSUME NEW t \in Txn, Undecided(t)
        PROVE  PollersMove(t)
    <3>1. CASE \E u \in Txn : \/ PostForm(u) \/ CompleteCardPayment(u)
                              \/ Settle(u) \/ Age(u)
      BY <3>1 DEF PostForm, CompleteCardPayment, Settle, Age, rows, PollersMove,
                  PollersOf
    <3>2. CASE Restart
      BY <3>2 DEF Restart, rows, PollersMove, PollersOf, Off
    <3>3. QED
      BY <1>2, <2>1, <3>1, <3>2, RequestsKeepPollers, PollersMovePollers DEF Next
  <2>2. ASSUME NEW t \in Txn, Undecided(t)'
        PROVE  /\ \A v, w \in PollersOf(t)' : v = w
               /\ PollersOf(t)' # {} => is_polling'[t]
    <3>1. Undecided(t)
      <4>1. gateway[t] \in {"absent", "pending", "paid", "declined"}
        BY DEF IInv, TypeOK, TableType
      <4>2. QED
        BY <1>2, <2>2, <4>1, NextMoves, Lasting DEF Undecided
    <3>2. PollersMove(t) /\ (\A v, w \in PollersOf(t) : v = w) /\ (PollersOf(t) # {} => is_polling[t])
      BY <2>1, <3>1 DEF OnePollerInv
    <3>3. QED
      BY <3>2 DEF PollersMove
  <2>3. QED
    BY <2>2 DEF OnePollerInv
<1>3. QED
  BY <1>1, <1>2

\* is_polling is a lock as long as it matters: a payment that the gateway has not decided has
\* at most one poller, although requests that hold old answers clear the flag.
THEOREM OnePoller == Spec => []OnePollerWhilePending
<1>1. Init => OnePollerInv
  BY DEF Init, OnePollerInv, PollersOf, Off
<1>2. IInv /\ OnePollerInv /\ [Next]_vars => OnePollerInv'
  BY OnePollerStep
<1>3. OnePollerInv => OnePollerWhilePending
  <2> SUFFICES ASSUME OnePollerInv, NEW t \in Txn, Undecided(t)
               PROVE  /\ Cardinality(PollersOf(t)) <= 1
                      /\ PollersOf(t) # {} => is_polling[t]
    BY DEF OnePollerWhilePending, Undecided
  <2>1. PollersOf(t) = {} \/ \E w : PollersOf(t) = {w}
    BY DEF OnePollerInv
  <2>2. Cardinality(PollersOf(t)) \in {0, 1}
    BY <2>1, FS_EmptySet, FS_Singleton
  <2>3. QED
    BY <2>2 DEF OnePollerInv
<1>4. QED
  BY <1>1, <1>2, <1>3, Invariance, PTL DEF Spec

=============================================================================
