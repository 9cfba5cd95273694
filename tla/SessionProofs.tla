---------------------------- MODULE SessionProofs ----------------------------
(***************************************************************************)
(* The inductive invariant of Session holds in every reachable state, for  *)
(* any tabs, any requests and any number of token pairs.                   *)
(***************************************************************************)
EXTENDS SessionInv, TLAPS

CallState == [at : Place, kind : Kind, pair : {NoPair} \cup Pair, rt : {NoPair} \cup Pair]

RefreshPlace == {"reading", "issuing", "rotated"}

LEMMA CallType ==
  ASSUME TypeOK, NEW t \in Tab, NEW c \in Call
  PROVE  call[t][c] \in CallState
  BY DEF TypeOK, CallState

LEMMA Numbers == Pair \subseteq Nat \ {0} /\ NoPair \notin Pair
  BY SessionAssumption DEF Pair, NoPair

LEMMA Slotted ==
  ASSUME NEW t \in Tab, NEW c \in Slots[t]
  PROVE  c \in Call
  BY SessionAssumption

\* The requests after one of them has become r.
LEMMA PutValue ==
  ASSUME TypeOK, NEW t \in Tab, NEW c \in Call, NEW r \in CallState, Put(t, c, r)
  PROVE  /\ call'[t][c] = r
         /\ \A u \in Tab, d \in Call : u # t \/ d # c => call'[u][d] = call[u][d]
         /\ call' \in [Tab -> [Call -> CallState]]
  BY DEF TypeOK, Put, CallState

LEMMA RestStates ==
  /\ Idle \in CallState
  /\ TypeOK => \A k \in Kind : Sent(k) \in CallState
  BY DEF CallState, Idle, Sent, Place, Kind, Form, TypeOK

LEMMA RotateType ==
  ASSUME IInv, NEW t \in Tab, NEW c \in Call, Rotate(t, c)
  PROVE  TypeOK'
<1>0. TypeOK
  BY DEF IInv
<1>1. PICK g \in Pair :
          /\ access' = [access EXCEPT ![g] = "valid"]
          /\ refresh' = [refresh EXCEPT ![g] = "valid", ![call[t][c].rt] = "revoked"]
          /\ Put(t, c, [call[t][c] EXCEPT !.at = "rotated", !.pair = g])
  BY DEF Rotate
<1>2. [call[t][c] EXCEPT !.at = "rotated", !.pair = g] \in CallState
  BY <1>0, CallType DEF CallState, Place
<1>3. call' \in [Tab -> [Call -> CallState]]
  BY <1>0, <1>1, <1>2, PutValue
<1>4. access' \in [Pair -> {"none", "valid", "expired"}] /\ refresh' \in [Pair -> {"none", "valid", "revoked"}]
  BY <1>0, <1>1 DEF TypeOK
<1>5. QED
  BY <1>0, <1>3, <1>4 DEF TypeOK, Rotate, clientVars, CallState

LEMMA RefreshedType ==
  ASSUME IInv, NEW t \in Tab, NEW c \in Call, Refreshed(t, c)
  PROVE  TypeOK'
<1>0. TypeOK
  BY DEF IInv
<1> DEFINE Again(d) == [call[t][d] EXCEPT !.at = "sent", !.pair = call[t][c].pair, !.rt = NoPair]
           next == [d \in Call |-> IF d \in subscribers[t] \cup {c} THEN Again(d) ELSE call[t][d]]
<1>1. call' = [call EXCEPT ![t] = next]
  BY DEF Refreshed
<1>2. ASSUME NEW d \in Call PROVE Again(d) \in CallState
  <2>1. call[t][d] \in CallState /\ call[t][c].pair \in {NoPair} \cup Pair
    BY <1>0, CallType DEF CallState
  <2>2. QED
    BY <2>1 DEF CallState, Place
<1>3. next \in [Call -> CallState]
  BY <1>0, <1>2, CallType
<1>4. call' \in [Tab -> [Call -> CallState]]
  BY <1>0, <1>1, <1>3 DEF TypeOK, CallState
<1>5. call[t][c].pair \in Pair
  BY <1>0, CallType DEF IInv, TokenInv, UnderWayInv, Refreshed, CallState
<1>6. QED
  BY <1>0, <1>4, <1>5 DEF TypeOK, Refreshed, Store, serverVars, CallState

LEMMA LoadType ==
  ASSUME IInv, NEW t \in Tab, Load(t)
  PROVE  TypeOK'
  BY Numbers, CallType DEF IInv, TokenInv, PresentsInv, TypeOK, Load, Sent, Idle, CallState, Place,
                           Kind, Form

\* The steps that put one request into a new state.
LEMMA RequestType ==
  ASSUME IInv, NEW t \in Tab, NEW c \in Call, NEW r \in CallState, Put(t, c, r),
         Request(t, c) \/ (\E form \in Form : Submit(t, c, form)) \/ ReadRow(t, c) \/ Handle(t, c),
         ~ Refreshed(t, c)
  PROVE  TypeOK'
<1>1. TypeOK /\ call' \in [Tab -> [Call -> CallState]]
  BY PutValue DEF IInv
<1>2. CASE Request(t, c)
  BY <1>1, <1>2, Numbers DEF TypeOK, CallState, Request, clientVars, serverVars
<1>3. CASE \E form \in Form : Submit(t, c, form)
  BY <1>1, <1>3, Numbers DEF TypeOK, CallState, Submit, serverVars
<1>4. CASE Succeed(t, c)
  <2>1. /\ refreshToken' = refreshToken \/ refreshToken' = [refreshToken EXCEPT ![t] = saved]
        /\ user' = user \/ user' = [user EXCEPT ![t] = "self"]
        /\ initialized' = initialized \/ initialized' = [initialized EXCEPT ![t] = TRUE]
    BY <1>4 DEF Succeed
  <2>2. UNCHANGED <<saved, isLoading, isRefreshing, subscribers, disturbed, access, refresh, orphans>>
    BY <1>4 DEF Succeed, serverVars
  <2>3. refreshToken' \in [Tab -> {NoPair} \cup Pair]
    BY <1>1, <2>1 DEF TypeOK
  <2>4. user' \in [Tab -> {"none", "self", "blank"}]
    BY <1>1, <2>1 DEF TypeOK
  <2>5. initialized' \in [Tab -> BOOLEAN]
    BY <1>1, <2>1 DEF TypeOK
  <2>6. QED
    BY <1>1, <2>2, <2>3, <2>4, <2>5 DEF TypeOK, CallState
<1>5. CASE Fail(t, c)
  BY <1>1, <1>5, Numbers DEF TypeOK, CallState, Fail, Caught, serverVars
<1>6. CASE SignedIn(t, c)
  BY <1>1, <1>6, Numbers DEF TypeOK, CallState, SignedIn, Store
<1>7. CASE Registered(t, c)
  BY <1>1, <1>7, Numbers DEF TypeOK, CallState, Registered, serverVars
<1>8. CASE SignInRefused(t, c)
  BY <1>1, <1>8, Numbers DEF TypeOK, CallState, SignInRefused, Wipe, Caught, serverVars
<1>9. CASE NothingToRefresh(t, c)
  BY <1>1, <1>9, Numbers DEF TypeOK, CallState, NothingToRefresh, Store, ClearStore, serverVars
<1>10. CASE NoRefreshToken(t, c)
  BY <1>1, <1>10, Numbers DEF TypeOK, CallState, NoRefreshToken, Wipe, Caught, serverVars
<1>11. CASE RefreshFailed(t, c)
  <2>1. call[t][c].rt \in Pair
    BY <1>1, <1>11, CallType DEF RefreshFailed, CallState, IInv, TokenInv, PresentsInv
  <2>2. QED
    BY <1>1, <1>11, <2>1 DEF TypeOK, CallState, RefreshFailed, Store, ClearStore
<1>12. CASE ReadRow(t, c)
  BY <1>1, <1>12, Numbers DEF TypeOK, CallState, ReadRow, clientVars, serverVars
<1>13. CASE Subscribe(t, c)
  BY <1>1, <1>13, Numbers DEF TypeOK, CallState, Subscribe, serverVars
<1>14. CASE StartRefresh(t, c)
  BY <1>1, <1>14, Numbers DEF TypeOK, CallState, StartRefresh, serverVars
<1>15. QED
  BY <1>2, <1>3, <1>4, <1>5, <1>6, <1>7, <1>8, <1>9, <1>10, <1>11, <1>12, <1>13, <1>14 DEF Handle

-----------------------------------------------------------------------------
(* Tokens.  Most steps only let requests come to rest.                     *)

Resting(r) == r.rt = NoPair /\ r.at \notin RefreshPlace

\* No token is issued or used; the storage is as it was, or is wiped; requests stay
\* as they are, or come to rest with what is in the storage; a refresh that is given up
\* leaves its token behind.
Quiet ==
    /\ refresh' = refresh
    /\ saved' \in {saved, NoPair}
    /\ orphans \subseteq orphans'
    /\ \A g \in orphans' \ orphans : \E t \in Tab, c \in Call : call[t][c].rt = g
    /\ \A t \in Tab, c \in Call :
          \/ call'[t][c] = call[t][c]
          \/ /\ Resting(call'[t][c])
             /\ call'[t][c].pair \in {saved, NoPair}
             /\ call[t][c].rt \in {NoPair} \cup orphans'

LEMMA PresentsKept ==
  ASSUME TypeOK, TypeOK', TokenInv, Quiet
  PROVE  PresentsInv'
  BY DEF TokenInv, PresentsInv, Quiet, Resting, RefreshPlace

LEMMA FreshKept ==
  ASSUME TypeOK, TypeOK', TokenInv, Quiet
  PROVE  FreshInv'
  BY Numbers DEF TokenInv, FreshInv, Quiet, Resting

LEMMA UnderWayKept ==
  ASSUME TypeOK, TypeOK', TokenInv, Quiet
  PROVE  UnderWayInv'
<1> SUFFICES ASSUME NEW t \in Tab, NEW c \in Call, call'[t][c].at = "rotated"
             PROVE  LET g == call'[t][c].pair IN
                    /\ g # NoPair
                    /\ refresh'[g] = "valid"
                    /\ saved' # g /\ g \notin orphans'
                    /\ \A u \in Tab, d \in Call :
                          /\ call'[u][d].rt # g
                          /\ call'[u][d].at = "rotated" /\ call'[u][d].pair = g => u = t /\ d = c
  BY DEF UnderWayInv
<1>1. call'[t][c] = call[t][c]
  BY DEF Quiet, Resting, RefreshPlace
<1>2. QED
  BY <1>1 DEF TokenInv, UnderWayInv, Quiet, Resting, RefreshPlace

LEMMA UsedKept ==
  ASSUME TypeOK, TypeOK', TokenInv, Quiet
  PROVE  UsedTokenIsReplaced'
<1> SUFFICES ASSUME saved' # NoPair, refresh'[saved'] = "revoked", saved' \notin orphans'
             PROVE  \E t \in Tab, c \in Call : call'[t][c].rt = saved'
  BY DEF UsedTokenIsReplaced
<1>1. saved' = saved /\ refresh' = refresh /\ saved \notin orphans
  BY DEF Quiet
<1>2. PICK t \in Tab, c \in Call : call[t][c].rt = saved
  BY <1>1 DEF TokenInv, UsedTokenIsReplaced
<1>3. call'[t][c] = call[t][c]
  BY <1>1, <1>2 DEF Quiet
<1>4. QED
  BY <1>1, <1>2, <1>3

LEMMA QuietKeeps ==
  ASSUME TypeOK, TypeOK', TokenInv, Quiet
  PROVE  TokenInv'
  BY PresentsKept, FreshKept, UnderWayKept, UsedKept DEF TokenInv

-----------------------------------------------------------------------------
(* The quiet steps                                                         *)

LEMMA IdleQuiet ==
  ASSUME IInv, NEW t \in Tab, NEW c \in Call, Put(t, c, Idle), call[t][c].at = "sent",
         saved' \in {saved, NoPair}, UNCHANGED <<refresh, orphans>>
  PROVE  Quiet
<1>1. /\ call'[t][c] = Idle
      /\ \A u \in Tab, d \in Call : u # t \/ d # c => call'[u][d] = call[u][d]
  BY PutValue, RestStates DEF IInv
<1>2. call[t][c].rt = NoPair
  BY DEF IInv, TokenInv, PresentsInv
<1>3. QED
  BY <1>1, <1>2 DEF Quiet, Resting, Idle, RefreshPlace

LEMMA SentQuiet ==
  ASSUME IInv, NEW t \in Tab, NEW c \in Call, NEW k \in Kind, Put(t, c, Sent(k)),
         call[t][c].at = "idle", UNCHANGED <<saved, refresh, orphans>>
  PROVE  Quiet
<1>1. /\ call'[t][c] = Sent(k)
      /\ \A u \in Tab, d \in Call : u # t \/ d # c => call'[u][d] = call[u][d]
  BY PutValue, RestStates DEF IInv
<1>2. call[t][c].rt = NoPair
  BY DEF IInv, TokenInv, PresentsInv
<1>3. QED
  BY <1>1, <1>2 DEF Quiet, Resting, Sent, RefreshPlace

LEMMA HandlersQuiet ==
  ASSUME IInv, NEW t \in Tab, NEW c \in Call,
         \/ Succeed(t, c) \/ Fail(t, c) \/ Registered(t, c) \/ SignInRefused(t, c)
         \/ NothingToRefresh(t, c) \/ NoRefreshToken(t, c)
  PROVE  Quiet
<1>1. Put(t, c, Idle) /\ call[t][c].at = "sent"
  BY DEF Succeed, Accepted, Fail, Registered, SignInRefused, NothingToRefresh, NoRefreshToken, Denied
<1>2. saved' \in {saved, NoPair}
  BY DEF Succeed, Fail, Registered, SignInRefused, NothingToRefresh, NoRefreshToken, Wipe, Store
<1>3. UNCHANGED <<refresh, orphans>>
  BY DEF Succeed, Fail, Registered, SignInRefused, NothingToRefresh, NoRefreshToken, serverVars
<1>4. QED
  BY <1>1, <1>2, <1>3, IdleQuiet

LEMMA SubscribeQuiet ==
  ASSUME IInv, NEW t \in Tab, NEW c \in Call, Subscribe(t, c)
  PROVE  Quiet
<1> DEFINE r == [call[t][c] EXCEPT !.at = "queued", !.pair = NoPair]
<1>1. call[t][c] \in CallState /\ call[t][c].rt = NoPair
  BY CallType DEF IInv, TokenInv, PresentsInv, Subscribe, Denied
<1>2. r \in CallState /\ r.at = "queued" /\ r.pair = NoPair /\ r.rt = NoPair
  BY <1>1 DEF CallState, Place
<1>3. Put(t, c, r)
  BY DEF Subscribe
<1>4. /\ call'[t][c] = r
      /\ \A u \in Tab, d \in Call : u # t \/ d # c => call'[u][d] = call[u][d]
  BY <1>2, <1>3, PutValue DEF IInv
<1>5. UNCHANGED <<saved, refresh, orphans>>
  BY DEF Subscribe, serverVars
<1> HIDE DEF r
<1>6. QED
  BY <1>1, <1>2, <1>4, <1>5 DEF Quiet, Resting, RefreshPlace

LEMMA RefreshFailedQuiet ==
  ASSUME IInv, NEW t \in Tab, NEW c \in Call, RefreshFailed(t, c)
  PROVE  Quiet
<1>1. /\ call'[t][c] = Idle
      /\ \A u \in Tab, d \in Call : u # t \/ d # c => call'[u][d] = call[u][d]
  BY PutValue, RestStates DEF IInv, RefreshFailed
<1>2. QED
  BY <1>1 DEF RefreshFailed, Store, Quiet, Resting, Idle, RefreshPlace

LEMMA LoadQuiet ==
  ASSUME IInv, NEW t \in Tab, Load(t)
  PROVE  Quiet
<1>1. TypeOK
  BY DEF IInv
<1>2. /\ \A c \in Call : call'[t][c] \in {Idle, Sent("me")}
      /\ \A u \in Tab \ {t}, c \in Call : call'[u][c] = call[u][c]
  BY <1>1 DEF TypeOK, Load
<1>3. orphans' = orphans \cup ({call[t][c].rt : c \in Call} \ {NoPair})
  BY DEF Load
<1>4. \A c \in Call : call[t][c].rt \in {NoPair} \cup orphans'
  BY <1>3
<1>5. saved' = saved /\ refresh' = refresh
  BY DEF Load
<1>6. QED
  BY <1>2, <1>3, <1>4, <1>5 DEF Quiet, Resting, Idle, Sent, RefreshPlace

LEMMA StillQuiet ==
  ASSUME IInv, UNCHANGED <<call, refresh, orphans>>, saved' \in {saved, NoPair}
  PROVE  Quiet
  BY DEF Quiet

-----------------------------------------------------------------------------
(* The steps that issue or use a token                                     *)

LEMMA SignedInTokens ==
  ASSUME IInv, TypeOK', NEW t \in Tab, NEW c \in Call, SignedIn(t, c)
  PROVE  TokenInv'
<1>1. /\ call'[t][c] = Idle
      /\ \A u \in Tab, d \in Call : u # t \/ d # c => call'[u][d] = call[u][d]
  BY PutValue, RestStates DEF IInv, SignedIn
<1>2. PICK g \in Pair : refresh[g] = "none" /\ refresh' = [refresh EXCEPT ![g] = "valid"] /\ saved' = g
  BY DEF SignedIn, Issues, Store
<1>3. orphans' = orphans /\ call[t][c].rt = NoPair
  BY DEF SignedIn, IInv, TokenInv, PresentsInv
<1>4. TypeOK /\ TokenInv
  BY DEF IInv
<1>5. refresh'[g] = "valid" /\ \A h \in Pair : h # g => refresh'[h] = refresh[h]
  BY <1>2, <1>4 DEF TypeOK
<1>6. ASSUME NEW u \in Tab, NEW d \in Call
      PROVE  \/ call'[u][d] = call[u][d]
             \/ Resting(call'[u][d]) /\ call'[u][d].pair = NoPair
  BY <1>1 DEF Idle, Resting, RefreshPlace
<1>7. PresentsInv'
  BY <1>4, <1>6 DEF TokenInv, PresentsInv, Resting, RefreshPlace
<1>8. FreshInv'
  BY <1>2, <1>3, <1>4, <1>5, <1>6, Numbers DEF TokenInv, FreshInv, Resting
<1>9. UnderWayInv'
  <2>1. \A u \in Tab, d \in Call :
           call[u][d].pair # g /\ call[u][d].rt # g /\ call[u][d].pair \in {NoPair} \cup Pair
    BY <1>2, <1>4, CallType DEF TokenInv, FreshInv, CallState
  <2>2. QED
    BY <1>2, <1>3, <1>4, <1>5, <1>6, <2>1 DEF TokenInv, UnderWayInv, Resting, RefreshPlace
<1>10. UsedTokenIsReplaced'
  BY <1>2, <1>5 DEF UsedTokenIsReplaced
<1>11. QED
  BY <1>7, <1>8, <1>9, <1>10 DEF TokenInv

LEMMA ReadRowTokens ==
  ASSUME IInv, TypeOK', NEW t \in Tab, NEW c \in Call, ReadRow(t, c)
  PROVE  TokenInv'
<1> DEFINE r == [call[t][c] EXCEPT !.at = "issuing"]
<1>1. TypeOK /\ TokenInv /\ call[t][c] \in CallState
  BY CallType DEF IInv
<1>2. r \in CallState /\ r.at = "issuing" /\ r.pair = call[t][c].pair /\ r.rt = call[t][c].rt
  BY <1>1 DEF CallState, Place
<1>3. Put(t, c, r) /\ call[t][c].at = "reading" /\ UNCHANGED <<saved, refresh, orphans>>
  BY DEF ReadRow, clientVars, serverVars
<1>4. /\ call'[t][c] = r
      /\ \A u \in Tab, d \in Call : u # t \/ d # c => call'[u][d] = call[u][d]
  BY <1>1, <1>2, <1>3, PutValue
<1> HIDE DEF r
<1>5. PresentsInv'
  BY <1>1, <1>2, <1>3, <1>4 DEF TokenInv, PresentsInv
<1>6. FreshInv'
  BY <1>1, <1>2, <1>3, <1>4 DEF TokenInv, FreshInv
<1>7. UnderWayInv'
  BY <1>1, <1>2, <1>3, <1>4 DEF TokenInv, UnderWayInv
<1>8. UsedTokenIsReplaced'
  BY <1>1, <1>2, <1>3, <1>4 DEF TokenInv, UsedTokenIsReplaced
<1>9. QED
  BY <1>5, <1>6, <1>7, <1>8 DEF TokenInv

LEMMA RotateTokens ==
  ASSUME IInv, TypeOK', NEW t \in Tab, NEW c \in Call, Rotate(t, c)
  PROVE  TokenInv'
<1>1. PICK g \in Pair :
          /\ refresh[g] = "none"
          /\ refresh' = [refresh EXCEPT ![g] = "valid", ![call[t][c].rt] = "revoked"]
          /\ Put(t, c, [call[t][c] EXCEPT !.at = "rotated", !.pair = g])
  BY DEF Rotate, Issues
<1> DEFINE r == [call[t][c] EXCEPT !.at = "rotated", !.pair = g]
<1>2. TypeOK /\ TokenInv /\ call[t][c] \in CallState
  BY CallType DEF IInv
<1>3. r \in CallState /\ r.at = "rotated" /\ r.pair = g /\ r.rt = call[t][c].rt
  BY <1>2 DEF CallState, Place
<1>4. call[t][c].at = "issuing" /\ UNCHANGED <<saved, orphans>>
  BY DEF Rotate, clientVars
<1>5. /\ call'[t][c] = r
      /\ \A u \in Tab, d \in Call : u # t \/ d # c => call'[u][d] = call[u][d]
  BY <1>1, <1>2, <1>3, PutValue
<1> HIDE DEF r
<1>6. r.rt \in Pair /\ r.rt # g
  BY <1>1, <1>2, <1>3, <1>4 DEF TokenInv, PresentsInv, FreshInv, CallState
<1>7. /\ refresh'[g] = "valid" /\ refresh'[r.rt] = "revoked"
      /\ \A h \in Pair : h # g /\ h # r.rt => refresh'[h] = refresh[h]
  BY <1>1, <1>2, <1>3, <1>6 DEF TypeOK
<1>8. PresentsInv'
  BY <1>2, <1>3, <1>4, <1>5, <1>6, Numbers DEF TokenInv, PresentsInv
<1>9. FreshInv'
  BY <1>2, <1>3, <1>4, <1>5, <1>7 DEF TokenInv, FreshInv
<1>10. UnderWayInv'
  <2>1. /\ saved # g /\ g \notin orphans
        /\ \A u \in Tab, d \in Call : call[u][d].rt # g /\ call[u][d].pair # g
    BY <1>1, <1>2 DEF TokenInv, FreshInv
  <2>2. \A u \in Tab, d \in Call : call[u][d].pair \in {NoPair} \cup Pair
    BY <1>2, CallType DEF CallState
  <2>3. QED
    BY <1>2, <1>3, <1>4, <1>5, <1>6, <1>7, <2>1, <2>2, Numbers DEF TokenInv, UnderWayInv
<1>11. UsedTokenIsReplaced'
  <2>1. \A u \in Tab, d \in Call : call'[u][d].rt = call[u][d].rt
    BY <1>3, <1>5
  <2>2. saved' = saved /\ orphans' = orphans /\ saved \in {NoPair} \cup Pair
    BY <1>2, <1>4 DEF TypeOK
  <2>3. saved # NoPair /\ refresh'[saved] = "revoked" => refresh[saved] = "revoked" \/ saved = call[t][c].rt
    BY <1>3, <1>7, <2>2
  <2>4. QED
    BY <1>2, <2>1, <2>2, <2>3 DEF TokenInv, UsedTokenIsReplaced
<1>12. QED
  BY <1>8, <1>9, <1>10, <1>11 DEF TokenInv

LEMMA RotateOrphanTokens ==
  ASSUME IInv, NEW g \in Pair, RotateOrphan(g)
  PROVE  TokenInv'
<1>1. TypeOK /\ TokenInv
  BY DEF IInv
<1>2. g \in orphans /\ refresh' = [refresh EXCEPT ![g] = "revoked"] /\ UNCHANGED <<saved, call, orphans>>
  BY DEF RotateOrphan, clientVars
<1>3. \A u \in Tab, d \in Call : call[u][d].pair \in {NoPair} \cup Pair
  BY <1>1, CallType DEF CallState
<1>4. PresentsInv' /\ FreshInv'
  BY <1>1, <1>2 DEF TypeOK, TokenInv, PresentsInv, FreshInv
<1>5. UnderWayInv'
  BY <1>1, <1>2, <1>3 DEF TypeOK, TokenInv, UnderWayInv
<1>6. UsedTokenIsReplaced'
  BY <1>1, <1>2 DEF TypeOK, TokenInv, UsedTokenIsReplaced
<1>7. QED
  BY <1>4, <1>5, <1>6 DEF TokenInv

LEMMA StartRefreshTokens ==
  ASSUME IInv, TypeOK', NEW t \in Tab, NEW c \in Call, StartRefresh(t, c)
  PROVE  TokenInv'
<1> DEFINE r == [call[t][c] EXCEPT !.at = "reading", !.pair = NoPair, !.rt = saved]
<1>1. TypeOK /\ TokenInv /\ call[t][c] \in CallState
  BY CallType DEF IInv
<1>2. r \in CallState /\ r.at = "reading" /\ r.pair = NoPair /\ r.rt = saved
  BY <1>1 DEF CallState, Place, TypeOK
<1>3. Put(t, c, r) /\ call[t][c].at = "sent" /\ saved # NoPair /\ UNCHANGED <<saved, refresh, orphans>>
  BY DEF StartRefresh, serverVars, Denied
<1>4. /\ call'[t][c] = r
      /\ \A u \in Tab, d \in Call : u # t \/ d # c => call'[u][d] = call[u][d]
  BY <1>1, <1>2, <1>3, PutValue
<1> HIDE DEF r
<1>5. call[t][c].rt = NoPair
  BY <1>1, <1>3 DEF TokenInv, PresentsInv
<1>6. PresentsInv'
  BY <1>1, <1>2, <1>3, <1>4 DEF TokenInv, PresentsInv
<1>7. FreshInv'
  BY <1>1, <1>2, <1>3, <1>4, Numbers DEF TokenInv, FreshInv
<1>8. UnderWayInv'
  BY <1>1, <1>2, <1>3, <1>4 DEF TokenInv, UnderWayInv
<1>9. UsedTokenIsReplaced'
  BY <1>2, <1>4, <1>3 DEF UsedTokenIsReplaced
<1>10. QED
  BY <1>6, <1>7, <1>8, <1>9 DEF TokenInv

LEMMA RefreshedTokens ==
  ASSUME IInv, TypeOK', NEW t \in Tab, NEW c \in Call, Refreshed(t, c)
  PROVE  TokenInv'
<1> DEFINE g == call[t][c].pair
<1>1. TypeOK /\ TokenInv /\ \A u \in Tab, d \in Call : call[u][d] \in CallState
  BY CallType DEF IInv
<1>2. call[t][c].at = "rotated" /\ saved' = g /\ UNCHANGED <<refresh, orphans>>
  BY DEF Refreshed, Store, serverVars
<1>3. g \in Pair /\ refresh[g] = "valid"
  BY <1>1, <1>2 DEF TokenInv, UnderWayInv, CallState
<1> DEFINE Again(d) == [call[t][d] EXCEPT !.at = "sent", !.pair = g, !.rt = NoPair]
           next == [d \in Call |-> IF d \in subscribers[t] \cup {c} THEN Again(d) ELSE call[t][d]]
<1>4. ASSUME NEW u \in Tab, NEW d \in Call
      PROVE  \/ /\ call'[u][d] = call[u][d]
                /\ u # t \/ d # c
             \/ call'[u][d].at = "sent" /\ call'[u][d].pair = g /\ call'[u][d].rt = NoPair
  <2>1. call' = [call EXCEPT ![t] = next]
    BY DEF Refreshed
  <2>2. Again(d).at = "sent" /\ Again(d).pair = g /\ Again(d).rt = NoPair
    <3>1. call[t][d] \in CallState
      BY <1>1
    <3>2. QED
      BY <3>1 DEF CallState
  <2>3. next[d] = IF d \in subscribers[t] \cup {c} THEN Again(d) ELSE call[t][d]
    OBVIOUS
  <2>4. call'[u][d] = IF u = t THEN next[d] ELSE call[u][d]
    BY <1>1, <2>1 DEF TypeOK
  <2> HIDE DEF Again, next
  <2>5. QED
    BY <2>2, <2>3, <2>4
<1> HIDE DEF g
<1>5. PresentsInv'
  BY <1>1, <1>4 DEF TokenInv, PresentsInv
<1>6. FreshInv'
  BY <1>1, <1>2, <1>3, <1>4, Numbers DEF TokenInv, FreshInv
<1>7. UnderWayInv'
  BY <1>1, <1>2, <1>3, <1>4, Numbers DEF TokenInv, UnderWayInv, g
<1>8. UsedTokenIsReplaced'
  BY <1>2, <1>3 DEF UsedTokenIsReplaced
<1>9. QED
  BY <1>5, <1>6, <1>7, <1>8 DEF TokenInv

-----------------------------------------------------------------------------
(* Every step keeps the types and the tokens                               *)

LEMMA SignOutStep ==
  ASSUME IInv, NEW t \in Tab, SignOut(t)
  PROVE  TypeOK' /\ TokenInv'
<1>1. TypeOK'
  BY Numbers DEF IInv, TypeOK, SignOut, Store, ClearStore, serverVars
<1>2. Quiet
  BY StillQuiet DEF SignOut, Store, serverVars
<1>3. QED
  BY <1>1, <1>2, QuietKeeps DEF IInv

LEMMA LoadStep ==
  ASSUME IInv, NEW t \in Tab, Load(t)
  PROVE  TypeOK' /\ TokenInv'
  BY LoadType, LoadQuiet, QuietKeeps DEF IInv

LEMMA RotateOrphanStep ==
  ASSUME IInv, NEW g \in Pair, RotateOrphan(g)
  PROVE  TypeOK' /\ TokenInv'
  BY RotateOrphanTokens DEF IInv, TypeOK, RotateOrphan, clientVars

LEMMA ExpireStep ==
  ASSUME IInv, NEW g \in Pair, ExpireAccess(g)
  PROVE  TypeOK' /\ TokenInv'
<1>1. TypeOK'
  BY DEF IInv, TypeOK, ExpireAccess, clientVars
<1>2. Quiet
  BY StillQuiet DEF ExpireAccess, clientVars
<1>3. QED
  BY <1>1, <1>2, QuietKeeps DEF IInv

LEMMA StutterStep ==
  ASSUME IInv, UNCHANGED vars
  PROVE  TypeOK' /\ TokenInv'
<1>1. TypeOK'
  BY DEF IInv, TypeOK, vars, clientVars, serverVars
<1>2. Quiet
  BY StillQuiet DEF vars, clientVars, serverVars
<1>3. QED
  BY <1>1, <1>2, QuietKeeps DEF IInv

LEMMA SendStep ==
  ASSUME IInv, NEW t \in Tab, NEW c \in Call,
         Request(t, c) \/ \E form \in Form : Submit(t, c, form)
  PROVE  TypeOK' /\ TokenInv'
<1>1. PICK k \in Kind : Put(t, c, Sent(k))
  BY DEF Request, Submit, Kind
<1>2. Sent(k) \in CallState
  BY RestStates DEF IInv
<1>3. ~ Refreshed(t, c)
  BY DEF Refreshed, Request, Submit
<1>4. TypeOK'
  BY <1>1, <1>2, <1>3, RequestType
<1>5. call[t][c].at = "idle" /\ UNCHANGED <<saved, refresh, orphans>>
  BY DEF Request, Submit, clientVars, serverVars
<1>6. QED
  BY <1>1, <1>4, <1>5, SentQuiet, QuietKeeps DEF IInv

LEMMA RestStep ==
  ASSUME IInv, NEW t \in Tab, NEW c \in Call,
         \/ Succeed(t, c) \/ Fail(t, c) \/ Registered(t, c) \/ SignInRefused(t, c)
         \/ NothingToRefresh(t, c) \/ NoRefreshToken(t, c)
  PROVE  TypeOK' /\ TokenInv'
<1>1. Put(t, c, Idle)
  BY DEF Succeed, Fail, Registered, SignInRefused, NothingToRefresh, NoRefreshToken
<1>2. ~ Refreshed(t, c)
  BY DEF Refreshed, Succeed, Accepted, Fail, Registered, SignInRefused, NothingToRefresh,
         NoRefreshToken, Denied
<1>3. Handle(t, c)
  BY DEF Handle
<1>4. TypeOK'
  BY <1>1, <1>2, <1>3, RestStates, RequestType
<1>5. QED
  BY <1>4, HandlersQuiet, QuietKeeps DEF IInv

LEMMA SignedInStep ==
  ASSUME IInv, NEW t \in Tab, NEW c \in Call, SignedIn(t, c)
  PROVE  TypeOK' /\ TokenInv'
<1>1. Put(t, c, Idle) /\ ~ Refreshed(t, c) /\ Handle(t, c)
  BY DEF Refreshed, SignedIn, Handle
<1>2. TypeOK'
  BY <1>1, RestStates, RequestType
<1>3. QED
  BY <1>2, SignedInTokens

LEMMA RefreshFailedStep ==
  ASSUME IInv, NEW t \in Tab, NEW c \in Call, RefreshFailed(t, c)
  PROVE  TypeOK' /\ TokenInv'
<1>1. CASE Refreshed(t, c)
  BY <1>1, RefreshedType, RefreshedTokens
<1>2. CASE ~ Refreshed(t, c)
  <2>1. Put(t, c, Idle) /\ Handle(t, c)
    BY DEF RefreshFailed, Handle
  <2>2. TypeOK'
    BY <1>2, <2>1, RestStates, RequestType
  <2>3. QED
    BY <2>2, RefreshFailedQuiet, QuietKeeps DEF IInv
<1>3. QED
  BY <1>1, <1>2

LEMMA AdvanceType ==
  ASSUME IInv, NEW t \in Tab, NEW c \in Call,
         ReadRow(t, c) \/ Subscribe(t, c) \/ StartRefresh(t, c)
  PROVE  TypeOK'
<1>1. PICK at \in Place, pair \in {NoPair} \cup Pair, rt \in {NoPair} \cup Pair :
         Put(t, c, [call[t][c] EXCEPT !.at = at, !.pair = pair, !.rt = rt])
  <2>1. call[t][c] \in CallState /\ saved \in {NoPair} \cup Pair
    BY CallType DEF IInv, TypeOK
  <2>2. CASE ReadRow(t, c)
    <3>1. [call[t][c] EXCEPT !.at = "issuing"] =
          [call[t][c] EXCEPT !.at = "issuing", !.pair = call[t][c].pair, !.rt = call[t][c].rt]
      BY <2>1 DEF CallState
    <3>2. call[t][c].pair \in {NoPair} \cup Pair /\ call[t][c].rt \in {NoPair} \cup Pair
      BY <2>1 DEF CallState
    <3>3. QED
      BY <2>2, <3>1, <3>2 DEF ReadRow, Place
  <2>3. CASE Subscribe(t, c)
    <3>1. [call[t][c] EXCEPT !.at = "queued", !.pair = NoPair] =
          [call[t][c] EXCEPT !.at = "queued", !.pair = NoPair, !.rt = call[t][c].rt]
      BY <2>1 DEF CallState
    <3>2. call[t][c].rt \in {NoPair} \cup Pair
      BY <2>1 DEF CallState
    <3>3. QED
      BY <2>3, <3>1, <3>2 DEF Subscribe, Place
  <2>4. CASE StartRefresh(t, c)
    BY <2>1, <2>4 DEF StartRefresh, Place
  <2>5. QED
    BY <2>2, <2>3, <2>4
<1>2. [call[t][c] EXCEPT !.at = at, !.pair = pair, !.rt = rt] \in CallState
  BY CallType DEF IInv, CallState
<1>3. ~ Refreshed(t, c)
  BY DEF Refreshed, ReadRow, Subscribe, StartRefresh, Denied
<1>4. ReadRow(t, c) \/ Handle(t, c)
  BY DEF Handle
<1>5. QED
  BY <1>1, <1>2, <1>3, <1>4, RequestType

LEMMA AdvanceStep ==
  ASSUME IInv, NEW t \in Tab, NEW c \in Call,
         ReadRow(t, c) \/ Subscribe(t, c) \/ StartRefresh(t, c)
  PROVE  TypeOK' /\ TokenInv'
  BY AdvanceType, ReadRowTokens, StartRefreshTokens, SubscribeQuiet, QuietKeeps DEF IInv

LEMMA RotateStep ==
  ASSUME IInv, NEW t \in Tab, NEW c \in Call, Rotate(t, c) \/ Refreshed(t, c)
  PROVE  TypeOK' /\ TokenInv'
  BY RotateType, RotateTokens, RefreshedType, RefreshedTokens

LEMMA TokensStep ==
  ASSUME IInv, [Next]_vars
  PROVE  TypeOK' /\ TokenInv'
<1>1. ASSUME NEW t \in Tab, NEW c \in Call,
             Request(t, c) \/ Answer(t, c) \/ Handle(t, c)
             \/ SignIn(t, c) \/ Verify(t, c) \/ Register(t, c)
      PROVE  TypeOK' /\ TokenInv'
  BY <1>1, SendStep, RestStep, SignedInStep, RefreshFailedStep, AdvanceStep, RotateStep
     DEF Answer, Handle, SignIn, Verify, Register, Form
<1>2. QED
  BY <1>1, Slotted, SignOutStep, LoadStep, RotateOrphanStep, ExpireStep, StutterStep DEF Next

-----------------------------------------------------------------------------
(* One refresh at a time                                                   *)

\* Enough for SingleRefresh: no request starts to refresh.
LEMMA RefreshingKept ==
  ASSUME SingleRefresh,
         \A t \in Tab, c \in Call :
            call'[t][c].at \in RefreshPlace => call[t][c].at \in RefreshPlace /\ isRefreshing'[t]
  PROVE  SingleRefresh'
  BY DEF SingleRefresh, Refreshing, RefreshPlace

\* A request that is sent or comes to rest, or moves on at the server.
LEMMA SinglePut ==
  ASSUME IInv, NEW t \in Tab, NEW c \in Call, NEW r \in CallState, Put(t, c, r),
         r.at \in RefreshPlace => call[t][c].at \in RefreshPlace,
         \/ isRefreshing' = isRefreshing
         \/ isRefreshing' = [isRefreshing EXCEPT ![t] = TRUE]
  PROVE  SingleRefresh'
<1>1. TypeOK /\ SingleRefresh
  BY DEF IInv
<1>2. /\ call'[t][c] = r
      /\ \A u \in Tab, d \in Call : u # t \/ d # c => call'[u][d] = call[u][d]
  BY <1>1, PutValue
<1>3. \A u \in Tab : isRefreshing[u] => isRefreshing'[u]
  BY <1>1 DEF TypeOK
<1>4. \A u \in Tab, d \in Call : call[u][d].at \in RefreshPlace => isRefreshing[u]
  BY <1>1 DEF SingleRefresh, Refreshing, RefreshPlace
<1>5. QED
  BY <1>1, <1>2, <1>3, <1>4, RefreshingKept

LEMMA SingleSend ==
  ASSUME IInv, NEW t \in Tab, NEW c \in Call,
         Request(t, c) \/ \E form \in Form : Submit(t, c, form)
  PROVE  SingleRefresh'
<1>1. PICK k \in Kind : Put(t, c, Sent(k))
  BY DEF Request, Submit, Kind
<1>2. Sent(k) \in CallState /\ Sent(k).at \notin RefreshPlace
  BY RestStates DEF IInv, Sent, RefreshPlace
<1>3. isRefreshing' = isRefreshing
  BY DEF Request, Submit, clientVars
<1>4. QED
  BY <1>1, <1>2, <1>3, SinglePut

LEMMA SingleRest ==
  ASSUME IInv, NEW t \in Tab, NEW c \in Call,
         \/ Succeed(t, c) \/ Fail(t, c) \/ Registered(t, c) \/ SignInRefused(t, c)
         \/ NothingToRefresh(t, c) \/ NoRefreshToken(t, c) \/ SignedIn(t, c)
  PROVE  SingleRefresh'
<1>1. Put(t, c, Idle)
  BY DEF Succeed, Fail, Registered, SignInRefused, NothingToRefresh, NoRefreshToken, SignedIn
<1>2. Idle \in CallState /\ Idle.at \notin RefreshPlace
  BY RestStates DEF Idle, RefreshPlace
<1>3. isRefreshing' = isRefreshing \/ isRefreshing' = [isRefreshing EXCEPT ![t] = TRUE]
  BY DEF Succeed, Fail, Registered, SignInRefused, NothingToRefresh, NoRefreshToken, SignedIn
<1>4. QED
  BY <1>1, <1>2, <1>3, SinglePut

LEMMA SingleAdvance ==
  ASSUME IInv, NEW t \in Tab, NEW c \in Call,
         ReadRow(t, c) \/ Rotate(t, c) \/ Subscribe(t, c)
  PROVE  SingleRefresh'
<1>1. PICK at \in Place, pair \in {NoPair} \cup Pair :
         /\ Put(t, c, [call[t][c] EXCEPT !.at = at, !.pair = pair])
         /\ at \in RefreshPlace => call[t][c].at \in RefreshPlace
  <2>1. call[t][c] \in CallState
    BY CallType DEF IInv
  <2>2. CASE ReadRow(t, c)
    <3>1. [call[t][c] EXCEPT !.at = "issuing"] =
          [call[t][c] EXCEPT !.at = "issuing", !.pair = call[t][c].pair]
      BY <2>1 DEF CallState
    <3>2. call[t][c].pair \in {NoPair} \cup Pair
      BY <2>1 DEF CallState
    <3>3. QED
      BY <2>2, <3>1, <3>2 DEF ReadRow, Place, RefreshPlace
  <2>3. CASE Rotate(t, c)
    BY <2>3 DEF Rotate, Place, RefreshPlace
  <2>4. CASE Subscribe(t, c)
    BY <2>4 DEF Subscribe, Place, RefreshPlace
  <2>5. QED
    BY <2>2, <2>3, <2>4
<1> DEFINE r == [call[t][c] EXCEPT !.at = at, !.pair = pair]
<1>2. r \in CallState /\ r.at = at
  BY CallType DEF IInv, CallState
<1>3. isRefreshing' = isRefreshing
  BY DEF ReadRow, Rotate, Subscribe, clientVars
<1> HIDE DEF r
<1>4. QED
  BY <1>1, <1>2, <1>3, SinglePut DEF r

\* The flag was not set, so nobody refreshes in this tab.
LEMMA SingleStart ==
  ASSUME IInv, NEW t \in Tab, NEW c \in Call, StartRefresh(t, c)
  PROVE  SingleRefresh'
<1>1. TypeOK /\ SingleRefresh /\ ~isRefreshing[t] /\ call[t][c] \in CallState
  BY CallType DEF IInv, StartRefresh
<1> DEFINE r == [call[t][c] EXCEPT !.at = "reading", !.pair = NoPair, !.rt = saved]
<1>2. r \in CallState /\ Put(t, c, r)
  BY <1>1 DEF StartRefresh, CallState, Place, TypeOK
<1> HIDE DEF r
<1>3. \A u \in Tab, d \in Call : u # t \/ d # c => call'[u][d] = call[u][d]
  BY <1>1, <1>2, PutValue
<1>4. isRefreshing'[t] /\ \A u \in Tab : u # t => isRefreshing'[u] = isRefreshing[u]
  BY <1>1 DEF StartRefresh, TypeOK
<1>5. \A d \in Call : call[t][d].at \notin RefreshPlace
  BY <1>1 DEF SingleRefresh, Refreshing, RefreshPlace
<1>6. QED
  BY <1>1, <1>3, <1>4, <1>5 DEF SingleRefresh, Refreshing, RefreshPlace

\* The request that ends its refresh was the only one of its tab.
LEMMA SingleEnd ==
  ASSUME IInv, NEW t \in Tab, NEW c \in Call, Refreshed(t, c) \/ RefreshFailed(t, c)
  PROVE  SingleRefresh'
<1>1. TypeOK /\ SingleRefresh
  BY DEF IInv
<1>2. \A d \in Call : call[t][d].at \in RefreshPlace => d = c
  BY <1>1 DEF SingleRefresh, Refreshing, Refreshed, RefreshFailed, RefreshPlace
<1>3. call'[t][c].at \in {"sent", "idle"}
  <2>1. CASE Refreshed(t, c)
    <3> DEFINE Again(d) == [call[t][d] EXCEPT !.at = "sent", !.pair = call[t][c].pair, !.rt = NoPair]
               next == [d \in Call |-> IF d \in subscribers[t] \cup {c} THEN Again(d) ELSE call[t][d]]
    <3>1. call' = [call EXCEPT ![t] = next]
      BY <2>1 DEF Refreshed
    <3>2. next[c] = Again(c) /\ Again(c).at = "sent"
      BY <1>1, CallType DEF CallState
    <3>3. QED
      BY <1>1, <3>1, <3>2 DEF TypeOK
  <2>2. CASE RefreshFailed(t, c)
    BY <1>1, <2>2, PutValue, RestStates DEF RefreshFailed, Idle
  <2>3. QED
    BY <2>1, <2>2
<1>4. \A d \in Call : d # c => call'[t][d].at \in {"sent", call[t][d].at}
  <2>1. CASE Refreshed(t, c)
    <3> TAKE d \in Call
    <3> DEFINE Again(e) == [call[t][e] EXCEPT !.at = "sent", !.pair = call[t][c].pair, !.rt = NoPair]
               next == [e \in Call |-> IF e \in subscribers[t] \cup {c} THEN Again(e) ELSE call[t][e]]
    <3>1. call' = [call EXCEPT ![t] = next]
      BY <2>1 DEF Refreshed
    <3>2. Again(d).at = "sent"
      BY <1>1, CallType DEF CallState
    <3>3. next[d].at \in {"sent", call[t][d].at}
      BY <3>2
    <3>4. QED
      BY <1>1, <3>1, <3>3 DEF TypeOK
  <2>2. CASE RefreshFailed(t, c)
    BY <1>1, <2>2, PutValue, RestStates DEF RefreshFailed
  <2>3. QED
    BY <2>1, <2>2
<1>5. \A u \in Tab : u # t => call'[u] = call[u] /\ isRefreshing'[u] = isRefreshing[u]
  BY <1>1 DEF TypeOK, Refreshed, RefreshFailed, Put
<1>6. \A d \in Call : call'[t][d].at \notin RefreshPlace
  BY <1>2, <1>3, <1>4 DEF RefreshPlace
<1>7. QED
  BY <1>1, <1>5, <1>6 DEF SingleRefresh, Refreshing, RefreshPlace

LEMMA SingleLoad ==
  ASSUME IInv, NEW t \in Tab, Load(t)
  PROVE  SingleRefresh'
<1>1. TypeOK /\ SingleRefresh
  BY DEF IInv
<1>2. /\ \A d \in Call : call'[t][d] \in {Idle, Sent("me")}
      /\ \A u \in Tab : u # t => call'[u] = call[u] /\ isRefreshing'[u] = isRefreshing[u]
  BY <1>1 DEF TypeOK, Load
<1>3. QED
  BY <1>1, <1>2 DEF SingleRefresh, Refreshing, Idle, Sent

LEMMA SingleStep ==
  ASSUME IInv, [Next]_vars
  PROVE  SingleRefresh'
<1>1. ASSUME NEW t \in Tab, NEW c \in Call,
             Request(t, c) \/ Answer(t, c) \/ Handle(t, c)
             \/ SignIn(t, c) \/ Verify(t, c) \/ Register(t, c)
      PROVE  SingleRefresh'
  BY <1>1, SingleSend, SingleRest, SingleAdvance, SingleStart, SingleEnd
     DEF Answer, Handle, SignIn, Verify, Register, Form
<1>2. ASSUME UNCHANGED <<call, isRefreshing>>
      PROVE  SingleRefresh'
  BY <1>2 DEF IInv, SingleRefresh, Refreshing
<1>3. QED
  BY <1>1, <1>2, Slotted, SingleLoad
     DEF Next, SignOut, RotateOrphan, ExpireAccess, vars, clientVars

-----------------------------------------------------------------------------
(* The queue, the stores and the storage                                   *)

\* Enough for NobodyLeftQueued: one tab at most changes, and its queue is emptied
\* or its flag set.
LEMMA QueueKept ==
  ASSUME NobodyLeftQueued, NEW t \in Tab,
         \A u \in Tab : u # t => subscribers'[u] = subscribers[u] /\ isRefreshing'[u] = isRefreshing[u],
         \/ subscribers'[t] = {}
         \/ isRefreshing'[t]
         \/ subscribers'[t] = subscribers[t] /\ isRefreshing'[t] = isRefreshing[t]
  PROVE  NobodyLeftQueued'
  BY DEF NobodyLeftQueued

LEMMA QueueStep ==
  ASSUME IInv, [Next]_vars
  PROVE  NobodyLeftQueued'
<1>1. TypeOK /\ NobodyLeftQueued
  BY DEF IInv
<1>2. ASSUME UNCHANGED <<subscribers, isRefreshing>>
      PROVE  NobodyLeftQueued'
  BY <1>1, <1>2 DEF NobodyLeftQueued
<1>3. ASSUME NEW t \in Tab, NEW c \in Call, Handle(t, c)
      PROVE  NobodyLeftQueued'
  <2>1. CASE Subscribe(t, c)
    BY <1>1, <2>1, QueueKept DEF TypeOK, Subscribe
  <2>2. CASE StartRefresh(t, c) \/ NoRefreshToken(t, c)
    BY <1>1, <2>2, QueueKept DEF TypeOK, StartRefresh, NoRefreshToken
  <2>3. CASE Refreshed(t, c) \/ RefreshFailed(t, c)
    BY <1>1, <2>3, QueueKept DEF TypeOK, Refreshed, RefreshFailed
  <2>4. CASE Succeed(t, c) \/ Fail(t, c) \/ SignedIn(t, c) \/ Registered(t, c)
             \/ SignInRefused(t, c) \/ NothingToRefresh(t, c)
    BY <1>2, <2>4 DEF Succeed, Fail, SignedIn, Registered, SignInRefused, NothingToRefresh
  <2>5. QED
    BY <1>3, <2>1, <2>2, <2>3, <2>4 DEF Handle
<1>4. ASSUME NEW t \in Tab, Load(t)
      PROVE  NobodyLeftQueued'
  BY <1>1, <1>4, QueueKept DEF TypeOK, Load
<1>5. ASSUME NEW t \in Tab, NEW c \in Call,
             Request(t, c) \/ Answer(t, c) \/ SignIn(t, c) \/ Verify(t, c) \/ Register(t, c)
      PROVE  NobodyLeftQueued'
  BY <1>2, <1>5 DEF Request, Answer, ReadRow, Rotate, SignIn, Verify, Register, Submit, clientVars
<1>6. QED
  BY <1>2, <1>3, <1>4, <1>5, Slotted DEF Next, SignOut, RotateOrphan, ExpireAccess, vars, clientVars

\* A tab that writes a pair to the storage puts it into its store.
LEMMA StoreKept ==
  ASSUME TypeOK, StoreMatchesStorage, NEW t \in Tab, NEW pair, Store(t, pair),
         refreshToken' = [refreshToken EXCEPT ![t] = pair]
  PROVE  StoreMatchesStorage'
<1>1. /\ refreshToken'[t] = pair
      /\ \A u \in Tab : u # t => refreshToken'[u] = refreshToken[u]
  BY DEF TypeOK
<1>2. CASE pair = saved
  BY <1>1, <1>2 DEF Store, StoreMatchesStorage
<1>3. CASE pair # saved
  BY <1>1, <1>3 DEF Store, StoreMatchesStorage
<1>4. QED
  BY <1>2, <1>3

\* A tab takes over what is in the storage.
LEMMA StoreTaken ==
  ASSUME TypeOK, StoreMatchesStorage, NEW t \in Tab, saved' = saved,
         disturbed' = disturbed \/ disturbed' = disturbed \ {t},
         refreshToken' = [refreshToken EXCEPT ![t] = saved]
  PROVE  StoreMatchesStorage'
<1>1. /\ refreshToken'[t] = saved
      /\ \A u \in Tab : u # t => refreshToken'[u] = refreshToken[u]
  BY DEF TypeOK
<1>2. QED
  BY <1>1 DEF StoreMatchesStorage

LEMMA StoreWiped ==
  ASSUME StoreMatchesStorage, Wipe, refreshToken' = refreshToken
  PROVE  StoreMatchesStorage'
  BY DEF Wipe, StoreMatchesStorage

LEMMA StoreUnchanged ==
  ASSUME StoreMatchesStorage, UNCHANGED <<saved, refreshToken, disturbed>>
  PROVE  StoreMatchesStorage'
  BY DEF StoreMatchesStorage

LEMMA StoreStep ==
  ASSUME IInv, [Next]_vars
  PROVE  StoreMatchesStorage'
<1>1. TypeOK /\ StoreMatchesStorage
  BY DEF IInv
<1>2. ASSUME NEW t \in Tab, NEW c \in Call, Handle(t, c)
      PROVE  StoreMatchesStorage'
  <2>1. CASE Succeed(t, c)
    <3>1. CASE refreshToken' = refreshToken
      BY <1>1, <2>1, <3>1, StoreUnchanged DEF Succeed
    <3>2. CASE refreshToken' = [refreshToken EXCEPT ![t] = saved]
      BY <1>1, <2>1, <3>2, StoreTaken DEF Succeed
    <3>3. QED
      BY <2>1, <3>1, <3>2 DEF Succeed
  <2>2. CASE SignedIn(t, c)
    <3>1. PICK g \in Pair : Store(t, g) /\ refreshToken' = [refreshToken EXCEPT ![t] = g]
      BY <2>2 DEF SignedIn
    <3>2. QED
      BY <1>1, <3>1, StoreKept
  <2>3. CASE NothingToRefresh(t, c) \/ RefreshFailed(t, c)
    <3>1. Store(t, NoPair) /\ refreshToken' = [refreshToken EXCEPT ![t] = NoPair]
      BY <2>3 DEF NothingToRefresh, RefreshFailed, ClearStore
    <3>2. QED
      BY <1>1, <3>1, StoreKept
  <2>4. CASE Refreshed(t, c)
    <3>1. /\ Store(t, call[t][c].pair)
          /\ refreshToken' = [refreshToken EXCEPT ![t] = call[t][c].pair]
      BY <2>4 DEF Refreshed
    <3>2. QED
      BY <1>1, <3>1, StoreKept
  <2>5. CASE SignInRefused(t, c) \/ NoRefreshToken(t, c)
    BY <1>1, <2>5, StoreWiped DEF SignInRefused, NoRefreshToken
  <2>6. CASE Fail(t, c) \/ Registered(t, c) \/ Subscribe(t, c) \/ StartRefresh(t, c)
    BY <1>1, <2>6, StoreUnchanged DEF Fail, Registered, Subscribe, StartRefresh
  <2>7. QED
    BY <1>2, <2>1, <2>2, <2>3, <2>4, <2>5, <2>6 DEF Handle
<1>3. ASSUME NEW t \in Tab, SignOut(t)
      PROVE  StoreMatchesStorage'
  BY <1>1, <1>3, StoreKept DEF SignOut, ClearStore
<1>4. ASSUME NEW t \in Tab, Load(t)
      PROVE  StoreMatchesStorage'
  BY <1>1, <1>4, StoreTaken DEF Load
<1>5. ASSUME NEW t \in Tab, NEW c \in Call,
             Request(t, c) \/ Answer(t, c) \/ SignIn(t, c) \/ Verify(t, c) \/ Register(t, c)
      PROVE  StoreMatchesStorage'
  BY <1>1, <1>5, StoreUnchanged
     DEF Request, Answer, ReadRow, Rotate, SignIn, Verify, Register, Submit, clientVars
<1>6. QED
  BY <1>1, <1>2, <1>3, <1>4, <1>5, Slotted, StoreUnchanged
     DEF Next, RotateOrphan, ExpireAccess, vars, clientVars

-----------------------------------------------------------------------------
(* Theorems                                                                *)

LEMMA InitHolds == Init => IInv
<1> SUFFICES ASSUME Init PROVE IInv
  OBVIOUS
<1>1. TypeOK
  BY DEF Init, TypeOK, Idle, Place, Kind
<1>2. \A t \in Tab, c \in Call : call[t][c] = Idle
  BY DEF Init
<1>3. SingleRefresh /\ NobodyLeftQueued /\ StoreMatchesStorage
  BY <1>2 DEF Init, SingleRefresh, Refreshing, Idle, NobodyLeftQueued, StoreMatchesStorage
<1>4. TokenInv
  BY <1>2, Numbers
     DEF Init, TokenInv, PresentsInv, FreshInv, UnderWayInv, UsedTokenIsReplaced, Idle
<1>5. QED
  BY <1>1, <1>3, <1>4 DEF IInv

LEMMA StepKeeps == IInv /\ [Next]_vars => IInv'
  BY TokensStep, SingleStep, QueueStep, StoreStep DEF IInv

\* The invariant that carries the others: no pair is known before it is issued, the
\* pair on its way to a request is unused and known to nobody else, and a request
\* presents a refresh token exactly while it refreshes.
THEOREM Invariance == Spec => []IInv
  BY InitHolds, StepKeeps, PTL DEF Spec

\* The interceptor of a tab refreshes one token at a time, under its isRefreshing flag.
THEOREM OneRefresh == Spec => []SingleRefresh
<1>1. IInv => SingleRefresh
  BY DEF IInv
<1>2. QED
  BY <1>1, Invariance, PTL

\* refreshSubscribers is empty whenever the flag is not set.
THEOREM QueueEmptied == Spec => []NobodyLeftQueued
<1>1. IInv => NobodyLeftQueued
  BY DEF IInv
<1>2. QED
  BY <1>1, Invariance, PTL

\* The store of a tab has the refresh token of the storage unless another tab or a
\* refused sign-in has changed the storage.
THEOREM StoreAgrees == Spec => []StoreMatchesStorage
<1>1. IInv => StoreMatchesStorage
  BY DEF IInv
<1>2. QED
  BY <1>1, Invariance, PTL

\* The storage never holds a used refresh token unless the answer with its successor is
\* on its way or lost: however many tabs refresh at once, the last answer leaves a
\* session that can be refreshed again.
THEOREM UsedTokenReplaced == Spec => []UsedTokenIsReplaced
<1>1. IInv => UsedTokenIsReplaced
  BY DEF IInv, TokenInv
<1>2. QED
  BY <1>1, Invariance, PTL
=============================================================================
