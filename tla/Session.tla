------------------------------- MODULE Session -------------------------------
(***************************************************************************)
(* The session of the web client: the axios interceptors, the auth store   *)
(* and the localStorage that the tabs of one browser share, against the    *)
(* server's refresh tokens.  A step is what one tab does between two        *)
(* awaits, or what the server does to a request.  JavaScript runs such a    *)
(* step to its end, so tokens written one after the other are one write.   *)
(***************************************************************************)
EXTENDS Naturals, FiniteSets

CONSTANTS
    Tab,        \* the open tabs of the browser
    Call,       \* requests in flight at once
    Slots,      \* those of each tab
    MaxPair     \* bound on the token pairs ever issued

ASSUME SessionAssumption == MaxPair \in Nat /\ Slots \in [Tab -> SUBSET Call]

Pair == 1 .. MaxPair
NoPair == 0

VARIABLES
    saved,          \* auth_token and refresh_token in localStorage
    refreshToken,   \* of each tab's auth store
    user,           \* of each tab's auth store
    isLoading,
    initialized,
    isRefreshing,   \* of the axios module of each tab
    subscribers,    \* refreshSubscribers, by the request that waits
    call,           \* the requests of each tab
    access,         \* the access tokens the server has signed
    refresh,        \* the rows of refresh_tokens
    orphans,        \* refresh tokens presented by a request nobody waits for
    disturbed       \* tabs whose storage changed behind their store's back

clientVars == <<saved, refreshToken, user, isLoading, initialized,
                isRefreshing, subscribers, disturbed>>
serverVars == <<access, refresh, orphans>>
vars == <<clientVars, call, serverVars>>

\* loadMe, any request of a page to a route behind Authenticate, and those of the
\* pages of the signed-out user: login, verifyAndLogin and registerUser.
Form == {"login", "verify", "register"}
Kind == Form \cup {"me", "api"}

\* Where a request is: at the server, in the queue, or refreshing the session,
\* while the server reads the row, issues the pair and has committed.
Place == {"idle", "sent", "queued", "reading", "issuing", "rotated"}

\* A request with the pair it carries or that its refresh has been given, and
\* the refresh token it presents.
Idle == [at |-> "idle", kind |-> "api", pair |-> NoPair, rt |-> NoPair]

Sent(kind) == [at |-> "sent", kind |-> kind, pair |-> saved, rt |-> NoPair]

TypeOK ==
    /\ saved \in {NoPair} \cup Pair
    /\ refreshToken \in [Tab -> {NoPair} \cup Pair]
    /\ user \in [Tab -> {"none", "self", "blank"}]
    /\ isLoading \in [Tab -> BOOLEAN]
    /\ initialized \in [Tab -> BOOLEAN]
    /\ isRefreshing \in [Tab -> BOOLEAN]
    /\ subscribers \in [Tab -> SUBSET Call]
    /\ call \in [Tab -> [Call -> [at : Place, kind : Kind,
                                  pair : {NoPair} \cup Pair, rt : {NoPair} \cup Pair]]]
    /\ access \in [Pair -> {"none", "valid", "expired"}]
    /\ refresh \in [Pair -> {"none", "valid", "revoked"}]
    /\ orphans \subseteq Pair
    /\ disturbed \subseteq Tab

Init ==
    /\ saved = NoPair
    /\ refreshToken = [t \in Tab |-> NoPair]
    /\ user = [t \in Tab |-> "none"]
    /\ isLoading = [t \in Tab |-> FALSE]
    /\ initialized = [t \in Tab |-> TRUE]
    /\ isRefreshing = [t \in Tab |-> FALSE]
    /\ subscribers = [t \in Tab |-> {}]
    /\ call = [t \in Tab |-> [c \in Call |-> Idle]]
    /\ access = [g \in Pair |-> "none"]
    /\ refresh = [g \in Pair |-> "none"]
    /\ orphans = {}
    /\ disturbed = {}

-----------------------------------------------------------------------------
(* What the router shows: App waits for loadMe, RequireAuth wants a user.     *)
Renders(t) == initialized[t] /\ user[t] # "none"

\* Tab t writes the storage and knows what is in it now.
Store(t, pair) ==
    /\ saved' = pair
    /\ disturbed' = (IF pair = saved THEN disturbed ELSE Tab) \ {t}

\* The interceptor removes the tokens without telling any store.
Wipe ==
    /\ saved' = NoPair
    /\ disturbed' = IF saved = NoPair THEN disturbed ELSE Tab

Put(t, c, r) == call' = [call EXCEPT ![t][c] = r]

\* The set() of signOut.
ClearStore(t) ==
    /\ refreshToken' = [refreshToken EXCEPT ![t] = NoPair]
    /\ user' = [user EXCEPT ![t] = "none"]
    /\ isLoading' = [isLoading EXCEPT ![t] = FALSE]
    /\ initialized' = [initialized EXCEPT ![t] = TRUE]

-----------------------------------------------------------------------------
(* The user *)

\* A page that the router shows makes a request; the request interceptor
\* adds the token that is in the storage now.
Request(t, c) ==
    /\ call[t][c].at = "idle"
    /\ Renders(t)
    /\ Put(t, c, Sent("api"))
    /\ UNCHANGED <<clientVars, serverVars>>

\* The forms are disabled while isLoading.
Submit(t, c, form) ==
    /\ call[t][c].at = "idle"
    /\ initialized[t]
    /\ ~isLoading[t]
    /\ Put(t, c, Sent(form))
    /\ isLoading' = [isLoading EXCEPT ![t] = TRUE]
    /\ UNCHANGED <<saved, refreshToken, user, initialized, isRefreshing,
                   subscribers, disturbed, serverVars>>

SignIn(t, c) == Submit(t, c, "login")
Verify(t, c) == Submit(t, c, "verify")
Register(t, c) == Submit(t, c, "register")

SignOut(t) ==
    /\ initialized[t]
    /\ user[t] # "none"
    /\ Store(t, NoPair)
    /\ ClearStore(t)
    /\ UNCHANGED <<isRefreshing, subscribers, call, serverVars>>

\* The page is loaded again: the requests are gone, but not what the server
\* makes of them, and App calls loadMe.
Load(t) ==
    LET inFlight == {call[t][c].rt : c \in Call} \ {NoPair} IN
    /\ orphans' = orphans \cup inFlight
    /\ refreshToken' = [refreshToken EXCEPT ![t] = saved]
    /\ user' = [user EXCEPT ![t] = "none"]
    /\ isLoading' = [isLoading EXCEPT ![t] = FALSE]
    /\ initialized' = [initialized EXCEPT ![t] = saved = NoPair]
    /\ isRefreshing' = [isRefreshing EXCEPT ![t] = FALSE]
    /\ subscribers' = [subscribers EXCEPT ![t] = {}]
    /\ disturbed' = disturbed \ {t}
    /\ \E me \in Slots[t] :
          call' = [call EXCEPT ![t] = [c \in Call |->
                      IF c = me /\ saved # NoPair THEN Sent("me") ELSE Idle]]
    /\ UNCHANGED <<saved, access, refresh>>

-----------------------------------------------------------------------------
(* The server *)

\* A new pair, known to nobody else.
Issues(g) ==
    /\ refresh[g] = "none"
    /\ \A h \in Pair : h < g => refresh[h] # "none"

\* Authenticate accepts the access token, or answers 401 for one that is
\* missing or has expired.
Accepted(r) == r.at = "sent" /\ r.kind \notin Form /\ r.pair # NoPair /\ access[r.pair] = "valid"
Denied(r) ==
    /\ r.at = "sent" /\ r.kind \notin Form
    /\ r.pair # NoPair => access[r.pair] = "expired"

\* RefreshToken reads the row without a lock.
ReadRow(t, c) ==
    LET r == call[t][c].rt IN
    /\ call[t][c].at = "reading"
    /\ refresh[r] = "valid"
    /\ Put(t, c, [call[t][c] EXCEPT !.at = "issuing"])
    /\ UNCHANGED <<clientVars, serverVars>>

\* A rotation that deletes the row it replaces.
RotateDeleting(t, c) ==
    LET r == call[t][c].rt IN
    /\ call[t][c].at = "issuing"
    /\ \E g \in Pair :
          /\ Issues(g)
          /\ access' = [access EXCEPT ![g] = "valid"]
          /\ refresh' = [refresh EXCEPT ![g] = "valid", ![r] = "deleted"]
          /\ Put(t, c, [call[t][c] EXCEPT !.at = "rotated", !.pair = g])
    /\ UNCHANGED <<clientVars, orphans>>

\* It replaces the row whatever has become of it, and commits.
Rotate(t, c) ==
    LET r == call[t][c].rt IN
    /\ call[t][c].at = "issuing"
    /\ \E g \in Pair :
          /\ Issues(g)
          /\ access' = [access EXCEPT ![g] = "valid"]
          /\ refresh' = [refresh EXCEPT ![g] = "valid", ![r] = "revoked"]
          /\ Put(t, c, [call[t][c] EXCEPT !.at = "rotated", !.pair = g])
    /\ UNCHANGED <<clientVars, orphans>>

\* A refresh whose client has gone may still commit.
RotateOrphan(g) ==
    /\ g \in orphans
    /\ refresh[g] = "valid"
    /\ refresh' = [refresh EXCEPT ![g] = "revoked"]
    /\ UNCHANGED <<clientVars, call, access, orphans>>

\* The hour of an access token that somebody carries is over.
ExpireAccess(g) ==
    /\ access[g] = "valid"
    /\ saved = g \/ \E t \in Tab, c \in Call : call[t][c].pair = g
    /\ access' = [access EXCEPT ![g] = "expired"]
    /\ UNCHANGED <<clientVars, call, refresh, orphans>>

-----------------------------------------------------------------------------
(* Answers, as the client handles them.  What the server makes of a request  *)
(* that nobody else can see is part of the same step.                        *)

\* The request succeeds.  loadMe takes the refresh token from the storage as
\* it is by then.
Succeed(t, c) ==
    /\ Accepted(call[t][c])
    /\ Put(t, c, Idle)
    /\ IF call[t][c].kind = "me"
       THEN /\ refreshToken' = [refreshToken EXCEPT ![t] = saved]
            /\ user' = [user EXCEPT ![t] = "self"]
            /\ initialized' = [initialized EXCEPT ![t] = TRUE]
       ELSE UNCHANGED <<refreshToken, user, initialized>>
    /\ UNCHANGED <<saved, isLoading, isRefreshing, subscribers, disturbed, serverVars>>

\* The catch blocks of the store: of loadMe, and of those that forms call.
Caught(t, c) ==
    /\ initialized' = [initialized EXCEPT ![t] = @ \/ call[t][c].kind = "me"]
    /\ isLoading' = [isLoading EXCEPT ![t] = @ /\ call[t][c].kind \notin Form]

\* A timeout, a lost connection, an error other than 401.
Fail(t, c) ==
    /\ call[t][c].at = "sent"
    /\ Caught(t, c)
    /\ Put(t, c, Idle)
    /\ UNCHANGED <<saved, refreshToken, user, isRefreshing, subscribers,
                   disturbed, serverVars>>

\* A pair is issued; login and verifyAndLogin save it.
SignedIn(t, c) ==
    /\ call[t][c].at = "sent"
    /\ call[t][c].kind \in {"login", "verify"}
    /\ \E g \in Pair :
          /\ Issues(g)
          /\ access' = [access EXCEPT ![g] = "valid"]
          /\ refresh' = [refresh EXCEPT ![g] = "valid"]
          /\ Store(t, g)
          /\ refreshToken' = [refreshToken EXCEPT ![t] = g]
    /\ user' = [user EXCEPT ![t] = "self"]
    /\ isLoading' = [isLoading EXCEPT ![t] = FALSE]
    /\ initialized' = [initialized EXCEPT ![t] = TRUE]
    /\ Put(t, c, Idle)
    /\ UNCHANGED <<isRefreshing, subscribers, orphans>>

\* The account is there; nobody is signed in.
Registered(t, c) ==
    /\ call[t][c].at = "sent"
    /\ call[t][c].kind = "register"
    /\ isLoading' = [isLoading EXCEPT ![t] = FALSE]
    /\ Put(t, c, Idle)
    /\ UNCHANGED <<saved, refreshToken, user, initialized, isRefreshing, subscribers,
                   disturbed, serverVars>>

\* A 401 from /auth/signin is not refreshed, but removes the tokens.
SignInRefused(t, c) ==
    /\ call[t][c].at = "sent"
    /\ call[t][c].kind = "login"
    /\ Wipe
    /\ Caught(t, c)
    /\ Put(t, c, Idle)
    /\ UNCHANGED <<refreshToken, user, isRefreshing, subscribers, serverVars>>

\* The response interceptor, on a 401, while another request refreshes.
Subscribe(t, c) ==
    /\ Denied(call[t][c])
    /\ isRefreshing[t]
    /\ subscribers' = [subscribers EXCEPT ![t] = @ \cup {c}]
    /\ Put(t, c, [call[t][c] EXCEPT !.at = "queued", !.pair = NoPair])
    /\ UNCHANGED <<saved, refreshToken, user, isLoading, initialized,
                   isRefreshing, disturbed, serverVars>>

\* A refresh that does not look at the flag.
StartRefreshAnyway(t, c) ==
    /\ Denied(call[t][c])
    /\ refreshToken[t] # NoPair
    /\ saved # NoPair
    /\ isRefreshing' = [isRefreshing EXCEPT ![t] = TRUE]
    /\ Put(t, c, [call[t][c] EXCEPT !.at = "reading", !.pair = NoPair, !.rt = saved])
    /\ UNCHANGED <<saved, refreshToken, user, isLoading, initialized,
                   subscribers, disturbed, serverVars>>

\* It calls refreshSession, which presents the token in the storage.
StartRefresh(t, c) ==
    /\ Denied(call[t][c])
    /\ ~isRefreshing[t]
    /\ refreshToken[t] # NoPair
    /\ saved # NoPair
    /\ isRefreshing' = [isRefreshing EXCEPT ![t] = TRUE]
    /\ Put(t, c, [call[t][c] EXCEPT !.at = "reading", !.pair = NoPair, !.rt = saved])
    /\ UNCHANGED <<saved, refreshToken, user, isLoading, initialized,
                   subscribers, disturbed, serverVars>>

\* refreshSession finds nothing in the storage, signs out and returns.
NothingToRefresh(t, c) ==
    /\ Denied(call[t][c])
    /\ ~isRefreshing[t]
    /\ refreshToken[t] # NoPair
    /\ saved = NoPair
    /\ Store(t, NoPair)
    /\ ClearStore(t)
    /\ Put(t, c, Idle)
    /\ UNCHANGED <<isRefreshing, subscribers, serverVars>>

\* The store has no refresh token: the flag is set and nobody resets it.
NoRefreshToken(t, c) ==
    /\ Denied(call[t][c])
    /\ ~isRefreshing[t]
    /\ refreshToken[t] = NoPair
    /\ isRefreshing' = [isRefreshing EXCEPT ![t] = TRUE]
    /\ Wipe
    /\ Caught(t, c)
    /\ Put(t, c, Idle)
    /\ UNCHANGED <<refreshToken, user, subscribers, serverVars>>

\* A new pair that reaches the store but not the storage.
RefreshedInMemory(t, c) ==
    LET pair == call[t][c].pair
        Again(d) == [call[t][d] EXCEPT !.at = "sent", !.pair = pair, !.rt = NoPair]
    IN
    /\ call[t][c].at = "rotated"
    /\ refreshToken' = [refreshToken EXCEPT ![t] = pair]
    /\ user' = [user EXCEPT ![t] = "blank"]
    /\ initialized' = [initialized EXCEPT ![t] = TRUE]
    /\ isRefreshing' = [isRefreshing EXCEPT ![t] = FALSE]
    /\ subscribers' = [subscribers EXCEPT ![t] = {}]
    /\ call' = [call EXCEPT ![t] = [d \in Call |->
                   IF d \in subscribers[t] \cup {c} THEN Again(d) ELSE @[d]]]
    /\ UNCHANGED <<saved, disturbed, isLoading, serverVars>>

\* The new pair is saved, the request and those that waited are sent again.
\* The answer to /auth/refresh carries no user, but an id that is not empty.
Refreshed(t, c) ==
    LET pair == call[t][c].pair
        Again(d) == [call[t][d] EXCEPT !.at = "sent", !.pair = pair, !.rt = NoPair]
    IN
    /\ call[t][c].at = "rotated"
    /\ Store(t, pair)
    /\ refreshToken' = [refreshToken EXCEPT ![t] = pair]
    /\ user' = [user EXCEPT ![t] = "blank"]
    /\ initialized' = [initialized EXCEPT ![t] = TRUE]
    /\ isRefreshing' = [isRefreshing EXCEPT ![t] = FALSE]
    /\ subscribers' = [subscribers EXCEPT ![t] = {}]
    /\ call' = [call EXCEPT ![t] = [d \in Call |->
                   IF d \in subscribers[t] \cup {c} THEN Again(d) ELSE @[d]]]
    /\ UNCHANGED <<isLoading, serverVars>>

\* A failure that keeps those that wait for the next refresh.
RefreshFailedQueueKept(t, c) ==
    /\ call[t][c].at \in {"reading", "issuing", "rotated"}
    /\ Store(t, NoPair)
    /\ ClearStore(t)
    /\ isRefreshing' = [isRefreshing EXCEPT ![t] = FALSE]
    /\ orphans' = orphans \cup {call[t][c].rt}
    /\ Put(t, c, Idle)
    /\ UNCHANGED <<subscribers, access, refresh>>

\* The token has been used, or something else went wrong on the way there or
\* back: refreshSession signs out.  Those that wait are forgotten and never
\* settle.
RefreshFailed(t, c) ==
    /\ call[t][c].at \in {"reading", "issuing", "rotated"}
    /\ Store(t, NoPair)
    /\ ClearStore(t)
    /\ isRefreshing' = [isRefreshing EXCEPT ![t] = FALSE]
    /\ subscribers' = [subscribers EXCEPT ![t] = {}]
    /\ orphans' = orphans \cup {call[t][c].rt}
    /\ Put(t, c, Idle)
    /\ UNCHANGED <<access, refresh>>

-----------------------------------------------------------------------------
Answer(t, c) == ReadRow(t, c) \/ Rotate(t, c)

Handle(t, c) ==
    \/ Succeed(t, c) \/ Fail(t, c) \/ SignedIn(t, c) \/ Registered(t, c)
    \/ SignInRefused(t, c)
    \/ Subscribe(t, c) \/ StartRefresh(t, c) \/ NothingToRefresh(t, c)
    \/ NoRefreshToken(t, c) \/ Refreshed(t, c) \/ RefreshFailed(t, c)

Next ==
    \/ \E t \in Tab : \E c \in Slots[t] :
          \/ Request(t, c) \/ Answer(t, c) \/ Handle(t, c)
          \/ SignIn(t, c) \/ Verify(t, c) \/ Register(t, c)
    \/ \E t \in Tab : SignOut(t) \/ Load(t)
    \/ \E g \in Pair : RotateOrphan(g) \/ ExpireAccess(g)

Spec == Init /\ [][Next]_vars

-----------------------------------------------------------------------------
Refreshing(t) == {c \in Call : call[t][c].at \in {"reading", "issuing", "rotated"}}

\* A tab refreshes one token at a time, and its flag says so: requests that
\* are denied meanwhile wait instead of presenting the same token again.
SingleRefresh ==
    \A t \in Tab : \A c, d \in Refreshing(t) : c = d /\ isRefreshing[t]

\* Nobody is left in the queue once a refresh is over, so that no request of
\* one session is sent again with the token of the next.
NobodyLeftQueued ==
    \A t \in Tab : subscribers[t] # {} => isRefreshing[t]

\* "Queue the request until refresh is done": a request that waits waits for a
\* refresh that is going on.
SubscribersWait ==
    \A t \in Tab : subscribers[t] # {} => Refreshing(t) # {}

\* A tab whose storage has not been changed by another tab, or by a refused
\* sign-in, agrees with it whatever answers were late.
StoreMatchesStorage == \A t \in Tab \ disturbed : refreshToken[t] = saved

\* The browser keeps a used refresh token only while the answer that replaces
\* it is on its way, or has been lost.
UsedTokenIsReplaced ==
    saved # NoPair /\ refresh[saved] = "revoked" =>
        \/ saved \in orphans
        \/ \E t \in Tab, c \in Call : call[t][c].rt = saved
=============================================================================
