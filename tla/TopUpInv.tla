------------------------------ MODULE TopUpInv ------------------------------
(***************************************************************************)
(* How the rows of TopUp are the keys of Payment, and the inductive        *)
(* invariant behind it.                                                    *)
(***************************************************************************)
EXTENDS TopUp

\* The payments with key k that have reached the gateway, and those that were credited.
Submitted(k) == {t \in Txn : key[t] = k /\ gateway[t] # "absent"}
Credited(k) == {t \in Txn : key[t] = k /\ posted[t] > 0}

One(S) == CHOOSE t \in S : TRUE

charged ==
  [k \in Key |->
    LET S == Submitted(k)
    IN  IF S = {} THEN "none" ELSE IF S = {One(S)} THEN gateway[One(S)] ELSE "twice"]

deposits ==
  [k \in Key |->
    LET S == Credited(k)
    IN  IF S = {} THEN 0 ELSE IF S = {One(S)} THEN posted[One(S)] ELSE 2]

\* The keys credited on the word of a callback.
believed == {k \in Key : \E t \in Txn : key[t] = k /\ <<t, "SUCCESS">> \in claimed}

Promise == INSTANCE Payment WITH charge <- charged, deposit <- deposits, vouched <- believed

\* Repeated and concurrent requests, lost answers, callbacks, pollers, checks and restarts
\* together charge a key at most once and credit it at most once, and only if it was paid or
\* a callback that came before the gateway's decision says so
\* (InitiatePayment, finalizeTransaction, CompleteCardPayment).
ImplementsPayment == Promise!Spec

-----------------------------------------------------------------------------
\* Everybody works on rows that exist, and a payment without a row is unknown to the gateway.
RowInv ==
  /\ \A t \in Txn \ Rows : gateway[t] = "absent" /\ posted[t] = 0
  /\ \A t \in Rows : key[t] \in Key
  /\ \A r \in Request : req[r].pc \notin {"idle", "create"} => req[r].txn \in Rows
  /\ \A w \in Poller : poller[w] # Off => poller[w].txn \in Rows

\* UNIQUE(idempotency_key)
KeyInv == \A t, u \in Rows : key[t] = key[u] => t = u

\* Only the request that made a mobile-wallet payment submits it, and once.
SubmitInv ==
  /\ \A r \in Request : req[r].pc = "submit" => method[req[r].txn] = "MWALLET"
  /\ \A q, r \in Request :
       req[q].pc = "submit" /\ req[r].pc = "submit" /\ req[q].txn = req[r].txn => q = r

\* A final answer stays true, since the gateway decides once.
Holds(t, a) ==
  /\ a = "SUCCESS" => gateway[t] = "paid"
  /\ a = "FAILED" => gateway[t] = "declined"

AnswerInv ==
  /\ \A r \in Request : req[r].pc \in {"phase1", "phase2"} => Holds(req[r].txn, req[r].answer)
  /\ \A r \in Request : req[r].pc = "phase2" => req[r].answer = "SUCCESS"
  /\ \A w \in Poller : poller[w].pc \in {"phase1", "phase2"} =>
       Holds(poller[w].txn, poller[w].answer)
  /\ \A w \in Poller : poller[w].pc = "phase2" => poller[w].answer = "SUCCESS"

\* A poller's deadline is later than 120 seconds after the payment was made.
DeadlineInv ==
  \A w \in Poller :
    /\ poller[w].pc \in {"wait", "acquire", "inquire", "phase1", "phase2"} /\ poller[w].expired
         => old[poller[w].txn]
    /\ poller[w].pc = "clear" => old[poller[w].txn]

\* One credit at most, of a paid payment or on the word of a callback.
CreditInv ==
  \A t \in Txn :
    /\ posted[t] \in {0, 1}
    /\ posted[t] = 1 => gateway[t] = "paid" \/ <<t, "SUCCESS">> \in claimed
    /\ <<t, "SUCCESS">> \in claimed => posted[t] = 1

IInv ==
  /\ TypeOK
  /\ RowInv
  /\ KeyInv
  /\ SubmitInv
  /\ AnswerInv
  /\ DeadlineInv
  /\ CreditInv
  /\ StatusTruthful

=============================================================================
