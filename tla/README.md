# Verification of the GIKI wallet

TLA+ models of the GIKI wallet and transport system: the backend (`src/backend`, Go over PostgreSQL)
in sections 3 to 5, the React client (`src/frontend`) in sections 6 to 9; the TLC configurations that
check them, and TLAPS proofs about all of them.  Paths are relative to
`src/backend/` in sections 1 to 5 and to `src/frontend/src/` in sections 6 to 9, unless they say otherwise.

## 1. Inventory

| Component | State | Operations | Talks to |
|---|---|---|---|
| wallet (`internal/wallet`) | `wallets`, `transactions` (headers, unique `(type, reference_id)`), `ledger` (rows with `balance_after`) | `ExecuteTransaction`, `RefundTicket`, `GetOrCreateWallet`, `GetSystemWalletByName`, `VerifyBookingDebitExists` | called by payment and transport inside *their* database transactions; two helpers use the pool instead |
| transactions (`internal/common/db.go`) | one pool connection per transaction | begin, roll back on error, commit | everybody |
| transport (`internal/transport`) | trips (`available_seats`, `total_capacity`, `manual_status`), holds, tickets, quota rules | `HoldSeats`, `ConfirmBatch`, `ReleaseAllHolds`, `CancelTicketWithRole`; for administrators `CancelTrip`, `UpdateTrip`, `UpdateTripManualStatus`, `CreateTrip`, `DeleteTrip` | wallet, worker |
| hold cleaner (`internal/transport/cleanup.go`) | the list of expired holds of the current round | every 30 s: list, then one transaction per hold | the same tables |
| payment (`internal/payment`) | gateway transactions (status, `is_polling`), audit rows, a 50-token rate limiter | `InitiatePayment`, card callback, poller, `GetTransactionStatus`, `VerifyTransaction` | JazzCash gateway, wallet |
| worker (`internal/worker`) | the `jobs` table | `Enqueue`, ten workers, retries, status ticker | mailer, transport |
| auth (`internal/auth`) | refresh, verification and reset tokens | login, refresh, verify, reset | user, worker |
| user (`internal/user`) | accounts | registration, approval, rejection | auth, worker |
| config, audit, feedback, mailer, api, middleware | small tables, or none | reads and single writes | |
| client: session (`lib/axios.ts`, `shared/stores/authStore.ts`) | tokens in `localStorage`, shared by the tabs; per tab the store, the refresh flag and the queue | sign in, sign out, `loadMe`, refresh, retry | auth |
| client: booking (`client/modules/transport`) | the store (holds, selections, loading), the page, the timer | hold, release, confirm, cancel, poll, leave | transport |
| client: top-up page (`client/modules/wallet`) | the store (status, txn), per mounted hook its interval, request and loops; the balance | initiate, poll, time out, leave | payment |
| client: admin console (`admin/`) | rows, filters, selection, dialogs, route template | list, change, batch, cancel, create and edit trips | transport, user, payment |

What is hard in it: every handler is one or more PostgreSQL transactions at READ COMMITTED, so
what is read without a lock may change before it is used; some helpers run on a *second* pool
connection while the first holds locks; the same payment may be completed by a callback, a poller
and a client request; the cleaner and the users' own releases race for the same rows; the process
may stop between two transactions that belong together.  In the client every `await` lets another
handler run: answers come late or out of order, after the page that asked has gone, or never.

What makes each component correct:

* wallet: balances are the sums of the posted transfers, no transfer is posted twice or by half,
  personal wallets are never overdrawn, every transfer ends.
* transport: seats are neither lost nor sold twice, quotas hold, tickets are paid while valid and
  refunded once, holds end.
* payment: a key is charged once, a payment that succeeded at the gateway is credited once and in
  the end, and its status is what the gateway or a callback said.
* worker: every job is done or has failed for good, at least once and normally once.
* auth: one successor per refresh token, a reused token ends its family.
* pool: nobody waits for ever for a connection or a row.
* session: a tab refreshes once at a time, the tabs' stores agree with the storage, a used refresh
  token is replaced.
* booking: what is shown is what the server holds, and no seat is left held behind.
* top-up page: what is shown of a payment is true, and what was started for a page ends with it.
* admin console: the rows are those asked for, and only what was confirmed is refunded.

## 2. Plan

Done, in this order:

1. `Bank`, `Ledger`, `LedgerInv`, `LedgerBank`, `LedgerProofs`, `BankProofs`, `MCLedger` (section 3).
2. `Seats`, `SeatsInv`, `SeatsProofs`, `MCSeats` (section 4).
3. `Payment`, `TopUp`, `TopUpInv`, `TopUpProofs`, `MCTopUp` (section 5).
4. `Session`, `SessionInv`, `SessionProofs`, `MCSession` (section 6).
5. `Booking`, `BookingInv`, `BookingProofs`, `MCBooking` (section 7).
6. `TopUpPage`, `TopUpPageInv`, `TopUpPageProofs` (section 8).
7. `Lists`, `Trips`, `TripForm`, `Admin`, `AdminInv`, `AdminProofs`, `MCAdmin` (section 9).

For each component, `XInv` states the inductive invariant that TLC checks in the component's run, and
`XProofs` proves it and what follows from it; `MCX` instantiates it for TLC.

Worth doing next, most important first: the lock and connection acquisitions of
all handlers as programs over rows and the pool; the job worker (fetch, complete, fail, retry,
crash); the one-time tokens of auth and the life cycle of accounts.

## 3. The ledger

`Ledger.tla` models `executeDoubleEntryTransaction` (`internal/wallet/service.go:37-155`), one SQL
statement per action: the amount check, the two row locks in sorted order, the two balance reads,
`checkBalance`, the header, the debit and the credit, and the commit or rollback of
`WithTransaction`.  A transaction posts a *sequence* of transfers, as `ConfirmBatch` does.

| In the model | In the code |
|---|---|
| `ledger`, `headers` | committed rows of `giki_wallet.ledger` and `giki_wallet.transactions` |
| `rows[t]`, `keys[t]` | what transaction `t` wrote and has not committed |
| `lock` | `GetWalletForUpdate`, held to the end of the transaction |
| `clock`, `CreatedAt` | `clock_timestamp()`, the default of `ledger.created_at` since migration 021 |
| `seen[t]` | `senderBalance`, `receiverBalance` |
| `Taken`, the wait in `CreateTransactionHeader` | `UNIQUE(type, reference_id)`: an insert waits for an uncommitted duplicate and then fails |
| `Fail` | an error, a cancelled request, a lost connection, a crash: rollback |

What PostgreSQL does is modelled from what the code relies on (`Visible`, `Release`).

`Bank.tla` is the specification without a database: a journal of transfers that only grows; keys
are unique, and personal balances, computed from the journal, never negative.  `LedgerBank.tla` maps
the committed tables to the journal: a transfer is `Posted` when somebody has asked for it and its
debit and credit rows are there.  `Ledger` implements `Bank`.

*Run `ledger`*: three transactions, each any of five requests (top-up, one seat, two seats, refund,
a negative amount) on three wallets.  Three transactions are enough for two to race while a third
has committed, for a repeated request, for a retry after a rollback, and for a wait on a wait.
56,272 states.  It checks the properties of `Ledger`, the inductive invariant `BankInv` (which
contains `IInv` and the type invariant), that the stored balances are the bank's and sum to zero
(`BalancesAgree`), the refinement (`ImplementsBank`) and, under weak fairness of each begun
transaction's next statement, that every transaction ends (`EveryTransactionEnds`).  The fairness
says that a goroutine inside a handler goes on; starting requests and failing are not fair.
No deadlock is possible between transfers that move one passenger's money; `CancelTrip` is the
only caller that would move more, and it does not get that far (finding 1).

### Proofs

`LedgerProofs.tla` proves for *all* wallets, transactions, keys and requests, of any number, that
`Spec` implies always `TypeOK`, `BalanceChain`, `NeverOverdrawn` and `DoubleEntry`, from the
assumptions of `Ledger` alone: wallet ids are totally ordered (`WalletAssumption`), no transfer has
one wallet on both sides (`RequestAssumption`), and the null owner is not a transaction
(`TxnAssumption`).

None of the properties is inductive.  `LedgerInv.tla` strengthens them to `IInv`:

* `ControlInv`: a transaction that posts has a validated transfer in hand;
* `LockInv`: it holds the rows of its transfer and of every row it wrote, so nobody else writes
  those wallets;
* `ClockInv`, `HistoryInv`, `CommittedInv`: every wallet's history, as committed and as each
  transaction sees it, is strictly ordered in the past and carries the running sum;
* `SeenInv`: what was read under the lock is still the balance when it is written;
* `KeyInv`: each key is taken by one transaction, and has both its rows or is the one in hand.

Each conjunct has a lemma that every step keeps it; `HistoryExtends` is the heart (a later row with
the right sum keeps a history good), `LockedApart` what makes transactions independent.

`BankProofs.tla` proves the refinement of `Bank` and `BalancesAgree`.  They need two facts more, and
`BankInv` is `IInv` with them: every debit and credit that pair up record a transfer that was asked
for (`AskedInv`; without it rows would be money that the bank has never heard of), and the tables are
finite (`FiniteInv`).  The argument:

* A balance of the bank is a sum over a finite set, which the fold of the community modules
  defines by recursion on an arbitrary element.  Induction (`Numbers`, `Sets`) is drawn from the
  library's `WFMin`: the numbers, or subsets, that a claim holds of are collected in a set, so that
  no operator has to be a parameter.  By induction the recursion has a solution (`FoldExists`), only one
  (`FoldsAgree`), and the order of the elements does not matter (`FoldAnyOrder`); so a sum grows by
  what is added (`TotalAdds`, `SumAdds`).
* In a history in order the latest `balance_after` is the sum of all amounts (`BalanceIsSum`, by
  removing the latest row), so a snapshot is the sum of its wallet's rows.
* The rows of a header are one posted transfer (`OneTransfer`, from `DoubleEntry` and `AskedInv`).
  Header by header, rows and transfers add up to the same in each wallet (`RowsAreTransfers`), and
  over all wallets to zero (`LegsCancel`).  The last needs finitely many wallets, which
  `FinitelyManyWallets` states: they are rows of a table.
* A step removes no committed row, so `Posted` only grows (`PostedGrows`); what it is afterwards is
  `Sound` (keys unique by `OneTransfer`, nobody overdrawn by `NeverOverdrawn`), so it is one batch
  posted, or nothing (`GrowthPosts`).

Only model-checked: liveness.

## 4. Seats

`Seats.tla` models booking.  A database transaction is cut where another may come between: an
unlocked read is an action of its own, and everything from the last lock to the commit another; a
transaction that locks all it reads is one action.  `ConfirmBatch` is one action for this reason,
while `HoldSeats` is two (the quota is counted and the trip's status read before the trip's row is
locked), as are cancelling a ticket, cancelling a trip and changing a capacity.

| In the model | In the code |
|---|---|
| `available`, `capacity`, `manual` | columns of `giki_transport.trip` |
| `week`, `departs` | the calendar week of `NOW()`, and that of a trip's `departure_time` |
| `window` | where `NOW()` is in the booking window |
| `status`, `trip`, `user` | the row of `trip_holds`, later of `tickets`; a ticket keeps the name of its hold |
| `debited`, `refunds`, `funds` | the TRANSPORT_BOOKING and REFUND transactions of a ticket and the balance, as `Ledger` keeps them |
| `req` | the requests in progress, with what they have read; `hold` holds the user's advisory lock |
| `reap` | the list in `CleanupExpiredHolds` |
| `op = "hung"` | `CancelTrip` waiting, on its second connection, for the row it locked on its first |
| `moved`, `counted`, `repeated` | history: the trips given another week, the bookings made in the week their trip departs, the tickets of a hold named again |

`ReleaseAllHolds` compares `expires_at` with `NOW()`, the beginning of its transaction, and so may
delete a hold that has expired since and that the cleaner has already listed; the model keeps that
window (`BeginRelease`).

The weekly count (`Usage`) looks at trips that depart in the week of its `NOW()` only, whatever trip is being
booked, and `NOW()` is the beginning of the transaction, which may have waited for the user's lock since an
earlier week (`now` of a request).  `ConfirmBatch` takes a list from the client in which a hold may come more
than once (`Batches`): every mention gets a ticket and a debit.  `UpdateTrip` sets the departure and the booking
window too.

*Run `seats`* (1,329,806 states): two students, one paying trip with two seats, three bookings, two requests at
a time, batches with one repetition.  `SeatsConserved` says that free and occupied seats add up to the capacity,
but for the seats of tickets voided by the cancellation of the trip, and for one seat each time a confirmed
batch named a hold again.  It holds with paying students only and without
capacity changes: the first two observations below are what breaks it otherwise.  `TicketsPaid` ties tickets to
debits and refunds.  The run also checks the invariants of the proofs, `IInv` (whose `TypeOK` includes that
`available_seats` is never negative) and `PaidTripsInv`.
*Run `seats_staff`* (189,051 states): one employee on a free trip of next week, whose capacity and week the
administrator changes, the turn of the week, failures and restarts: `QuotaRespected` (what is booked for a week
during that week stays within the quota), `BookingsMoveForward` (an action property on the life cycle of a
booking) and `HoldsEnd`.  Fairness: requests in progress go on, holds expire, the
cleaner's ticker ticks, and it does not fail for ever on the same hold (strong fairness, because a
failed or restarted round drops the hold and a later one lists it again).

Bounds: `Booking` bounds the holds ever made; `MaxCount` and `WeeklyLimit` are 1 or 2, so that one
request can take several seats and two can exceed the quota; `ReapLimit` is 1 where the code has
50, so that a round leaves holds over.  Two requests in progress are enough for every race
between two handlers; `ConfirmBatch`, the cleaner, time and restarts come on top of them.  `MaxWeek` is 1
in `seats_staff`: the week a booking is made for, and the one before it; `MaxRepeat` is 1 in `seats`.

Left out: `UpdateTrip` changes neither the price nor the bus type of a trip.

### Proofs

`SeatsProofs.tla` proves for any users, trips, requests, prices, quotas and funds and any finite set of
bookings (`SeatAssumption`) that `Spec` implies always `IInv`, `TicketsPaid` and `QuotaRespected`, and
`BookingsMoveForward`; and, for a trip `t` that only paying students take (`PaidTrip(t)`), that
`Spec` and `[][NotReduced(t)]_vars` imply always `ConservedOn(t)`, whatever happens on the other trips.
While no capacity is reduced, `PaidTripsInv` keeps this argument going on all such trips (`PaidTripsKept`);
`SeatsConserved` follows if all trips are of the kind (`AllConserved`), and without any condition on steps where nobody
asks for a new capacity, which is the instance of the run (`FixedCapacity`).  The two conditions are not
for the proof's convenience: the first two observations below are violations without them.

`IInv` is `TypeOK` and

* `RequestInv`: a cancellation, which has read its ticket without a lock, finds a ticket of the same trip when
  it writes, though perhaps one cancelled by somebody else; and
  the history names bookings that have been made (`counted`) and tickets (`repeated`);
* `PaidInv`: `TicketsPaid`, and the debited tickets are those of students that cost something.
  A refund is decided on what `RequestInv` is about;
* `QuotaInv`: at most one `HoldSeats` per user is past the quota check, and what it will take still fits.  Every other
  step leaves alone, or lowers, the number of the user's bookings that count (`NoNewUse`).  What counts is what the
  query was right about: bookings made in the week of the trip (`counted`), on trips that were never moved to
  another week.

Seats need an argument of their own.  The *slack* of a trip is its capacity less its occupied and free seats.
`SlackInv` bounds it from both sides: at least the voided tickets (those the trip's cancellation has cancelled) that
are not refunded yet, less the tickets in `repeated`, at most all voided tickets.  Hence a returned seat always fits under the capacity (the
bound in `IncrementTripSeat`, `sql/queries.sql:230`, refuses none), and a second cancellation of a voided ticket, which does
return a seat, does so only if the refund is still due, that is, at most once per ticket.  For an unpaid ticket
nothing stops the second return, which is why the trip has to be paid.

Only model-checked: `HoldsEnd` (liveness).

### Findings

Each is a run that TLC ends with a counterexample; PROJECT.json quotes the lines they contradict.

1. `cancel_trip_hangs`: cancelling a trip with two paid tickets never ends, and meanwhile blocks
   every booking and refund of students.
2. `cancel_trip_refund`: a ticket confirmed while `CancelTrip` runs is cancelled and not refunded.

### Observations

* The weekly quota is one of calendar weeks (`queries.sql:156-181`).  A trip of next week can be booked when its
  window opens, is checked against what the user has in this week, and is not counted in either check until its
  week has come: `QuotaRespected` says nothing of such bookings, nor of trips moved between weeks.
* `ConfirmBatch` does not compare the holds it is given with each other, and `DeleteHold` is content to find none
  (`service.go:397`): a hold named twice becomes two paid tickets for one seat.  The pages name each hold once.
  This is the `oversold` of `ConservedOn`.  Such a ticket was never counted against the quota when it was made.

Three further properties of `Seats` are stated, hold of no run, and belong to none.  TLC refutes each when it is
put in place of the INVARIANT of `MCCancelTripRefund.cfg`, with the constants given here.

* `SoldTicketsKnown` (`User = {omar}`, `Trip = {van}`): two concurrent cancellations of an unpaid ticket both
  return its seat.  The ticket is read without a lock, and the seat comes back whether or not
  `SetTicketCancelled` changed a row (`internal/transport/service.go:713`).
* `CapacityCoversSold` (`User = {ali}`, `Trip = {bus}`, `NewCapacity = {1}`): `UpdateTrip` counts tickets and not
  holds, in a statement of its own (`service.go:168`).
* `NoTicketOnCancelledTrip` (`User = {ali}`, `Trip = {bus}`): a hold on a cancelled trip can still be confirmed
  and paid (`service.go:351`).

## 5. Top-ups

`TopUp.tla` models the payments of one user.  No transaction of `internal/payment` is held over a
call to the gateway, so an action is one SQL statement, one transaction or one call; whatever a
request or a poller has read may be old when it acts on it.

| In the model | In the code |
|---|---|
| `status`, `key`, `method`, `is_polling` | columns of `giki_wallet.gateway_transactions`; `old` is `created_at` against 120 seconds |
| `posted` | the JAZZCASH_DEPOSIT transactions of a payment, whole or not at all by section 3 |
| `gateway` | what JazzCash knows of the payment: nothing, pending, and then one decision for good |
| `Inquiry` | the mapping of its codes (`internal/payment/gateway/jazzcash.go`) |
| `PostForm` | the self-submitting form of `CardPaymentPage`, which the browser may post late or never; the page comes for any payment that is PENDING, whatever its method |
| `CompleteCardPayment` | one transaction of `CardCallBack`: any answer for any row, at any time and any number of times |
| `claimed` | auxiliary: the final answers of callbacks that the gateway had not given |
| `req[r]` | an HTTP request in `TopUp`, `CheckStatus` or `VerifyTransaction`: where it is, the payment it looks up, what it does next (`then`) and the answer it has |
| `phase1`, `phase2` | the two transactions of `finalizeTransaction` |
| `poller[w]`, `expired` | a goroutine of `startPollingForTransaction` and its context |
| `tokens` | the channel of the `RateLimiter` |
| `Abandon` | every error return before a payment is final; a refusal by the amount or limit check is one that may or may not come |
| `Restart` | requests and pollers are gone, the limiter is full, the tables stay |

The callback is not tied to the gateway.  Its route is public (`internal/api/server.go:105-106`), the
verification of the hash is commented out (`internal/payment/gateway/jazzcash.go:180-186`), and
`CompleteCardPayment` (`internal/payment/service.go:253-306`) looks at neither the payment's method nor the
gateway.  So the model takes the answer of a callback from nowhere, and what it says of success and of
the wallet has this exception: a row may be SUCCESS or FAILED, and a wallet credited, on the word of a
callback alone.  `claimed` records when; only a poller's or a request's inquiry is what the gateway said.
That JazzCash takes one `txn_ref_no` once (`Charge`) is an assumption about it.

`Payment.tla` says what this is for, without rows, requests and pollers: a key is charged at most
once, and is deposited at most once, and the deposits that rest on a callback's word instead of a charge
that was paid are known (`vouched`).  `TopUpInv` maps the rows to it:
a key is charged as the one row with that key (`charged`, `deposits`); two submitted rows of one key
would be a charge `"twice"` that `Payment` does not know.

*Run `topup`* (1,083,329 states): one key with two possible rows, two requests, two pollers on one token,
both methods.  Two requests with one key are a retry and a double click; two rows would be the double
charge; two pollers on one token are what waiting for a token, a second poller for the same payment
and a lost token need.  It checks the inductive invariant `IInv`, `StatusTruthful`,
`OnePollerWhilePending`, `TokensConserved` and the refinement `ImplementsPayment`.
With one key the look-up for another open payment finds nothing; that `ImplementsPayment` holds with more keys
is what the theorem of that name says.
*Run `topup_recovery`* (51,471 states): one payment, with liveness.  `PollersEnd`: every poller ends.
`PaidIsCredited`: whatever was lost, a paid top-up is credited in the end.

Bounds: `Poller` bounds the goroutines at once, and a `Reply` that would start one more waits;
`Txn` bounds the rows.  `MaxConcurrent` is 1 where the code has 50.  `MaxClaimed`, the callbacks ahead of
the gateway, is 1 in `topup`, one being enough to set a status and to credit, and 0 in `topup_recovery`,
whose liveness check would take too long with 1; there, callbacks say what the gateway says.

Fairness: requests and pollers that run go on and time passes (weak fairness).  The poller's `select`
has two ready cases when its context has ended and the ticker has ticked; Go picks one at random,
so the timeout is taken if it is possible again and again (strong fairness of
`HandlePollingTimeout`).  `PaidIsCredited` needs more (`VerifiedSpec`): somebody asks for the status
again and again, and neither the gateway nor the database fails each time.  The code does retry nothing
by itself after the poller has ended, so this is the client's or the administrator's doing, and the
property says that it suffices.

What the model shows about the code as it is: a SUCCESS in the row may be overwritten by FAILED (the
poller's timeout), by an old answer or by a callback; `is_polling` stays set after a restart or when the context
ends while the poller waits for a token.  None of it breaks a property above, since status checks
ask the gateway whatever the row says and the ledger refuses the second deposit.

### Proofs

`TopUpProofs.tla` proves for any keys, rows, requests, pollers and number of tokens, from
`TopUpAssumption` alone, that `Spec` implies always `IInv` and `StatusTruthful`, and that it implements
`Payment`.  `StatusTruthful` is not inductive: a status is written from an answer that was read
before.  `IInv` adds

* `RowInv`: every actor works on a row that exists; no row, no charge and no deposit;
* `KeyInv`: `UNIQUE(idempotency_key)`, which makes `Submitted(k)` one row at most;
* `SubmitInv`: a row that is about to be submitted is a mobile-wallet payment and has one submitter;
* `AnswerInv`: a final answer in somebody's hand is still true, because the gateway decides once;
* `DeadlineInv`: who times out does so on a payment older than 120 seconds;
* `CreditInv`: one deposit at most, of a paid payment or on the word of a callback.

The proof goes in two stages.  `NextMoves` shows, with one lemma per action, that every step is a
`Moves`: a row is inserted or gets a true status, a payment reaches the gateway or settles, one is
credited, a callback is believed, one request or poller moves.  Each conjunct of `IInv`, and the refinement (`KeyMoves`,
`PromiseStep`), follows from `Moves` without looking at the actions again.

The last part of `TopUpProofs.tla` adds `TokensConserved` (every step moves one token between the limiter and one
poller, `TokensMove`; this needs finitely many pollers, `PollerAssumption`) and
`OnePollerWhilePending`, which holds because until the gateway has decided no answer is final, so
that only the poller itself clears the flag, on its way out (`PollersMove`).

Only model-checked: liveness.

### Observations

A wallet is credited, once per payment, for any callback that names the payment and says SUCCESS (above).

`CreditErrorKnown` is refuted if it is added to `MCTopUp.cfg` (without the symmetry): when phase 2 fails, the
client is told SUCCESS and the error is dropped (`service.go:499`), contrary to the comment in
`finalizeTransaction`; the money is not in the wallet until somebody checks again, which is what `PaidIsCredited`
says suffices.

## 6. The session

`Session.tla` models the tabs of one browser and the server's refresh tokens.  A step is what JavaScript does
between two awaits, what the server does to one request, or the clock; JavaScript runs such a step to its
end.  `auth_token` and `refresh_token` are always written together, so they are one pair, `saved`.

| In the model | In the code |
|---|---|
| `saved` | `localStorage`, shared by the tabs |
| `refreshToken`, `user`, `isLoading`, `initialized` | each tab's `useAuthStore`; a user is `"blank"` after a refresh, whose answer has no name |
| `isRefreshing`, `subscribers` | the module variables of `lib/axios.ts` |
| `call[t][c]` | a request of tab `t`: at the server, queued, or refreshing, which the server does in two steps (`reading`, `issuing`) because it reads the row without a lock |
| `access`, `refresh` | what the server signed and its `refresh_tokens` rows |
| `orphans` | refresh tokens in requests whose client has gone (a reload, a timeout): they may still be used |
| `disturbed` | auxiliary: tabs whose storage was changed by another tab or by a refused sign-in |
| `Load` | the page is loaded again: requests, flag and queue are gone, the storage stays |

*Run `session`* (786,863 states up to the symmetry of one tab's requests): two tabs, one with two requests, two pairs ever.  Two requests are what the
queue needs, a second tab what changes the storage behind a store, two pairs a token that is used and the one
that replaces it.  The view `UpToForgottenPairs` leaves out pairs that nobody can present any more and the
difference between a user with and without a name.

* `SingleRefresh`: one refresh per tab at a time, and the flag says so.
* `NobodyLeftQueued`: the queue is empty once a refresh is over.
* `StoreMatchesStorage`: a tab that nobody disturbed agrees with the storage, however late answers come.
* `UsedTokenIsReplaced`: a used token stays in the storage only while its successor is under way or lost.

The import of the store between setting the flag and reading the token is part of the step.

`SubscribersWait` is not among them: see below.

### Proofs

`SessionProofs.tla` proves for any tabs, requests and number of pairs, from `SessionAssumption` alone, that `Spec`
implies always `IInv` (which contains `TypeOK`), `SingleRefresh`, `NobodyLeftQueued`, `StoreMatchesStorage` and
`UsedTokenIsReplaced`.

The first of these are almost inductive: a denied request starts a refresh only if the flag is down, and the flag
goes down only with the refresh that raised it, which empties the queue (`SingleStep`, `QueueStep`, `StoreStep`).
`UsedTokenIsReplaced` is not: the token of `Refreshed` comes from an answer that the server prepared steps before,
with other tabs refreshing the same row meanwhile, since `RefreshToken` reads it without a lock.  `SessionInv`
adds

* `PresentsInv`: a request presents a token exactly while it refreshes;
* `FreshInv`: nobody knows a pair that has not been issued;
* `UnderWayInv`: the pair on its way to a request is unused, and known to nobody else.

Most steps are `Quiet`: they issue and use no token, may wipe the storage, and let requests come to rest, leaving
what they presented among the orphans.  `QuietKeeps` shows once that such a step keeps all of this; the six steps
that are not quiet have a lemma each (`RotateTokens` is the heart: it uses one token and makes another known).

### Observations

`SubscribersWait` is stated and refuted by TLC when it is added to `MCSession.cfg`: a 401 in a tab whose store
has no refresh token raises the flag and nobody lowers it (`lib/axios.ts:74-91`), so that every later denied
request waits for ever.  Also visible in the model: a refused sign-in in one tab removes the tokens of a live
session (`lib/axios.ts:109`); when a refresh fails because another tab was first, the tab signs out and
removes the other's valid pair; requests in the queue never settle when the refresh fails; a `loadMe`
answered after a sign-out brings the user back.

## 7. Booking

`Booking.tla` models the transport store and its pages against the seats the server holds for one user.
Other users, prices and quotas are in `Seats`; here the server grants or refuses.

| In the model | In the code |
|---|---|
| `seat` | the user's holds and tickets at the server; a hold is in its last second before it expires |
| `activeHolds`, `loading`, `initialized`, `isRoundTrip`, `selected` | the store |
| `page`, `blocked` | the route shown, and the one that `useBlocker` keeps the user from |
| `timeLeft`, `due` | `useHoldTimer`, and whether React is to run the expiry effect |
| `call[o]` | an operation of the store: `asked`, changed at the server (`fetching`), with its list read (`read`) |
| `doubt` | auxiliary: why the store may differ from the server at rest (overlapping fetches, a lost answer, an expiry) |

*Run `booking`* (1,474,156 states up to the symmetry of operations and of the two directions): a seat of each direction, two operations in flight for an employee and one for
a student, who differs only in where he confirms.  Two operations are enough for one to overtake the other.
The view `UpToLostSeats` leaves out how a seat was lost once nobody shows it.  The run checks `IInv`, the invariant
of the proofs, and

* `CartMatchesServer`: at rest and out of doubt the store shows the server's holds.  What it excludes by `doubt`
  is what the code does not order: two fetches that overlap.
* `LoadingHasOwner`: the one loading flag is never left on.
* `LeavesNoSeats`: who leaves when nothing is under way and nothing failed leaves no hold ("Leaving this page
  will release your seats", `AbandonBookingModal.tsx:38`).

### Proofs

`BookingProofs.tla` proves for any finite set of seats, any operations, and any number of them in flight for a student or
another user, from `BookingAssumption` alone, that `Spec` implies always `IInv`, `CartMatchesServer` and
`LoadingHasOwner`, and that it implies `LeavesNoSeats`.  `IInv` adds to the types and to `LoadingHasOwner`

* `HoldInv`: a return of seats to a selection knows its trip;
* `DataInv`: unless in doubt, operations do not overlap, the store has the cart until the server has served the one
  under way, and what a fetch has read is still the cart;
* `EmptyInv`: a confirmation asks for the whole cart, so that once it or the release of a user who leaves has been
  served, the cart is empty.

Steps come in four kinds, each with one lemma: an operation begins (`Opened`), is served (`Served`, `Reads`), is
over (`Ends`, `Over`: what it turns into, and who answers for the loading flag then), or only the page changes (`Shown`).
`NoSeats` is why nobody leaves seats behind: either the answer of a served operation takes the user
away and `EmptyInv` applies, or nothing was under way and the store that lets him go is right about being empty.

### Observations

`ExpiredHoldLeaves` (with `FairSpec`, one hold `Hold = {h1}`, `TripOf <- MCOneTripOf`, `Call = {c1}`,
`Slots <- MCOneSlot`, without SYMMETRY and VIEW) is refuted: the timer shows zero before the server lets the hold go (`hooks.ts:26` rounds down),
the fetch that the expiry effect makes brings the hold back, and the effect does not run again
(`TransportPage.tsx:56`).  A hold whose answer is lost, or that arrives after the user has gone, keeps a seat that
nobody sees until it expires; abandoning ignores an error of the release and leaves; a confirmation without
seats goes to the tickets as if it had booked.  The buttons of the toast after a refused return
(`store.ts:312-329`) are the page's own controls in the model.

## 8. The top-up page

`TopUpPage.tla` models the wallet store, the hook `useJazzCashPayment` with every instance of it that was
mounted and whose timers, requests or loops may live on, and the balance the home page shows.  The server is
what `Payment` promises: a key is opened once, and credited once or never.

| In the model | In the code |
|---|---|
| `payment` | the server's state of each key |
| `hook` | the mounted instance; `timer`, `request`, `pollTimeout` are its refs, `leaked` says that an interval is not in the ref any more |
| `loop` | a chain of `tick`, which waits for its timeout or for an answer |
| `status`, `txn`, `balance` | the stores |
| `told`, `doubt` | auxiliary: the payment whose success was shown; the balance may be older than the server's |

*Run `topup_page`* (343,579 states): two instances (one left behind, one mounted), two keys, two loops, one fetch of
the balance at a time (two that overlap are excluded by `doubt` anyway).  It is a run of `TopUpPageInv` and checks `IInv` and

* `BalanceShowsPayment`: the balance includes the payment the user was told of.
* `RequestHasPage`: a request in flight belongs to the page that is shown.
* `PollingStops`, with weak fairness of intervals and answers: loops end with the payment.

### Proofs

`TopUpPageProofs.tla` proves for any keys, instances of the hook, loops and fetches that `Spec` implies always `IInv`,
`RequestHasPage` and `BalanceShowsPayment`.  `PageInv` says who mounts the hook: the wallet form, which is the form a
page begins with, so that a page that is left has unmounted it and aborted its request.  `MoneyInv` follows
the payment the user was told of to the balance: it is credited, the fetch that `HandleSuccess` starts reads it, and
what a fetch reads it writes.  Only model-checked: `PollingStops`.

### Observations

`ProcessingEnds` (`FairSpec`, `MaxKey = 1`) is refuted: leaving or changing the method clears the
timers and leaves the status at `processing`, so that the page shows a payment in progress for ever when it is
entered again.  Trying again keeps the idempotency key; the status check of an old payment decides the
status of a new one; an interval that no ref points at goes on setting `failed`.

## 9. The admin console

`Lists.tla` is what all list pages share: rows that a fetch has brought, a query (week, filters, page) chosen
meanwhile, changes and the fetches they cause.  The pages differ in which of these wait for which, and `Lists`
says so per `View`.  `Trips.tla` adds the selection, the batches, the menu and the dialogs of the trips page,
`TripForm.tla` the form with the route template that the store shares between dialogs; `Admin.tla` puts one
page or the form into a behaviour, since only one is shown at a time.

| In the model | In the code |
|---|---|
| `item`, `refunded` | the server's items, and the trips whose `CancelTrip` has committed; a user yet to be created is `"new"` and gets an id of his own |
| `Listed`, `Shown` | which items, in which state, the list for a query has: the status filters of users and payments drop an item, or get one, when it changes |
| `NotFound` | the answer to a change of a user somebody has deleted (`UPDATE ... RETURNING`, `src/backend/internal/user/service.go:280`) |
| `query`, `rows`, `fetch`, `loading` | the page's choice, what it shows, its fetches, its one loading flag |
| `call` | a change: at the server, done, or refused |
| `"pretended"` | a change the server does not make and whose answer the store puts into the row all the same: the rejection of a user, and FAILED for a payment that is not final |
| `mark` | auxiliary: whether a row was listed, or changed by an answer that was, or was not, the server's value |
| `hidden`, `selected`, `batch`, `modal` | filters, `selectedIds`, the loop of `handleBatchAction`, the dialog |
| `template`, `route`, `stops`, `pick` | the store's template, the form's route and stops, calls of `selectRoute` |
| `agreed`, `doubt`, `mixed` | auxiliary: cancellations confirmed; overlapping fetches; overlapping templates |

*Run `admin`* (1,784,000 states): ten list pages and the form, two items in two weeks or pages, users and payments
listed all or in one status only, two fetches and two changes in
flight (one of each on the trips page, where the batch and the dialogs come on top), two changes ever
(`MaxChange`), one batch at a time.  An answer that fetches again waits for a free slot.  It checks `IInv`, the
invariant of the proofs, and

* `RowsMatchServer`: at rest and out of doubt every row is what the server lists for what is chosen; a row that the
  answer to a change was put into has the server's value, but is there whatever the status filter says (and is
  absent if it was); a pretended one may say anything until the next fetch.  After any change
  the trips page shows the current week whatever was chosen: `fetchTrips()` has no dates.
* `LoadingMeansFetch`: no page spins without a fetch.
* `RefundsAgreed`: only trips the administrator was asked about are refunded.
* `BatchTriesAll`: a batch that is over has cancelled every trip or shown its error.
* `SubmitsOneRoute`: a trip that can be submitted has its own route's stops, unless templates overtook each other.

### Proofs

`AdminProofs.tla` proves all of these for any items, queries and routes, any number of changes and of calls of
`selectRoute` in flight, and finitely many fetches.  `AdminInv.tla` has the invariant:

* `FormInv`: the calls of `selectRoute` that are under way and not mixed are for one route, and template, field and
  stops are theirs or those of the last one that is over;
* `ChangeInv`, `CreateInv`: which page makes which changes, and that an item is created once, before anybody sees it;
* `CancelInv`, `BatchInv`: what is refunded or in the batch's list was agreed to, and every trip of a running batch is
  refunded, has failed, is under way or is to come;
* `RowsInv`: at rest the rows are right *up to what is owed*.  A change that the server has made and whose answer
  has not come leaves the page behind, but then its answer will fetch again (`Owed`), or will be put into just
  the rows that differ (`Awaited`); this is true of the rows that a fetch has read as well, for the week or page it
  was made for.  What a row owes the server goes by its `mark`.  Two answers that are put into the same row may
  come in either order: each of them is the item's value or pretended, or another one is to come.

A user who was created with an id that another user once had, and a change of a user who is gone that
succeeds, would violate `RowsMatchServer` with three changes (the run has two); the program does neither, which is
what `"new"` and `NotFound` are for.

### Finding

3. `cancelled_reopens`: the batch bar sends cancelled trips too, and the server overwrites their status; a trip
   whose students were refunded is open again, which the dialog calls permanent (`TripsPage.tsx:187`).

Observations: rejecting a user makes his row Inactive (`admin/users/store.ts:120-127`), but the server only queues a
mail (`src/backend/internal/user/service.go:366-379`), so a user approved and then rejected is active and shown
Inactive until the next fetch.  Verifying a payment without a final answer after 120 seconds makes its row FAILED
while the server keeps PENDING or UNKNOWN (`src/backend/internal/payment/service.go:511-518`).  Under a status filter
a user or a payment that no longer passes it stays in the rows.

Also: neither filters nor a change of the week clear the selection, and selecting all compares sizes; a
late success closes the dialog of another trip; two overlapping `selectRoute` calls, one of which fails, give one
route the stops of the other; late audit logs are shown for another transaction.

Limits: the pages of the users' list are not told apart, so that a deletion moves no user to another page;
a payment is final or not, PENDING and UNKNOWN being one; tickets have status filters, but nothing on their
page changes a ticket.

## 10. Not modelled

Of payment: amounts, the audit rows of callbacks, the balance limit (it is compared with a balance
without pending payments; the model takes the check as a refusal that may or may not come), lists and
exports.  Two commits that fail are the same as a rollback: that a COMMIT succeeds and its answer is
lost is not modelled in the backend's modules (in the client's it is).

The job worker, whose jobs are mails; of auth, passwords and one-time tokens; of user, registration and
approval.  Audit, feedback, mailer, routing and middleware keep no state that the rest depends on.  The
row hash of the ledger is written and never verified by the program.  DeleteTrip relies on foreign keys
and touches only trips without rows; reports and exports only read.

Of the client: layouts, ui elements, formatting and schemas; pages without state that another step can
disturb (home, about, feedback, forgotten password); `RoutesHistory`, which shows made-up data;
`TransportBookingCard`, which nothing uses.
