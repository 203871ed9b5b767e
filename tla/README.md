# A formal model of ACHFlow

ACHFlow takes ACH payment requests from merchants, validates them against
limits and prefunded accounts, exports them in NACHA files and records their
settlement or return.  A NestJS API and a NestJS worker share one PostgreSQL
database and never call each other: everything that can go wrong between them
goes wrong in the interleaving of their transactions.  A Next.js portal talks to
the API for merchants and administrators.  This directory holds TLA+ modules for
the three, TLC configurations that check them on small instances, and proofs that
TLAPS checks for every instance.

## The system

| Component | State | Operations | Module |
|---|---|---|---|
| Payment engine (API), `payment-engine.service.ts` | none of its own: the rows below | validate, reserve, settle, return, for credits and debits | `PaymentLifecycle` |
| Lifecycle repository (worker), `payment-lifecycle.repository.ts` | Payment, Reservation, LedgerEntry, MerchantDailyUsage, ProcessedBankEvent rows | transitionFromReceived, reserveDailyUsageAndTransition, release, settle, return, processBankSettlementEvent | `PaymentLifecycle` |
| Payment validation (worker), `payment-validation.service.ts` | a snapshot of the payment and its merchant | the order of checks on a RECEIVED payment | `PaymentLifecycle`, `MerchantAdmin` |
| NACHA generator (worker), `nacha-file-generator.service.ts` | AchFile rows, `exportedAt` | generate a file of the eligible payments of a merchant | `PaymentLifecycle`; its records in `NachaFile` |
| NACHA scheduler, script and heartbeat (worker), `ach/*scheduler*.ts`, `generate-nacha.ts`, `worker-heartbeat.service.ts` | timers, the active run, the WorkerHeartbeat row | start, with or without generation, run once, beat, shut down | `WorkerProcess` |
| System status (API), `admin-system.service.ts` | none, it reads | the worker's health | `WorkerProcess` |
| Outbox (worker), `outbox/*.ts` | OutboxEvent rows; the batch a worker has claimed | claim, handle, mark processed or failed, recover expired claims | `Outbox`, `WorkQueue`; status of PAYMENT_RECEIVED in `PaymentLifecycle` |
| Payment creation (API), `payments.service.ts` | PaymentIdempotencyRecord rows | create with an idempotency key | `PaymentIdempotency`, `KeyRegister` |
| Rate limiter (API), `rate-limit/*.ts` | a counter with expiry in Redis | consume, refuse, 503 | `RateLimit`, with creation in `PaymentRequests` |
| Webhook endpoints (API), `merchant-webhook-endpoints.service.ts` | MerchantWebhookEndpoint rows | create, update, remove, test | `WebhookEndpoints` |
| Webhook materialization (worker), `webhook-delivery-materializer.service.ts` | WebhookDelivery rows | materialize the deliveries of an event | `WebhookEndpoints`, as one step in `Outbox` |
| Webhook delivery (worker), `webhook-delivery-processor.service.ts` | WebhookDelivery rows; the batch a worker has claimed | claim, send, complete, fail, shut down | `WebhookDelivery` |
| Simulator (API), `admin-simulator.service.ts` | SimulatorRun row; one loop per run or resume | create, pause, resume, stop, execute | `SimulatorRun` |
| Merchant administration and keys (API), `admin-merchants.service.ts`, `auth/*.ts` | Merchant, FundingAccount, MerchantApiKey rows | create, change status, rotate, fund, authenticate | `MerchantAdmin`; status and funding also in `PaymentLifecycle` |
| Lists, ledger, dashboard, NACHA views (API) | none, they read | date ranges, orders, pages, balances, summaries, rendering | `Listings`, `NachaFile`, `Reads` |
| Portal: the four list pages | filters and page; the query cache | filter, sort, page, poll, retry | `ListPages` |
| Portal: webhooks page | a list for each search text and status; the removals in flight | test, toggle, remove, add | `WebhooksPage`, over `WebhookEndpoints` |
| Portal: merchants page | list, drawer and form; in each of the last two one slot for a new key | create, change, rotate, fund | `MerchantsPage`, over `MerchantAdmin` |
| Portal: other pages, evals, infrastructure | | | not modelled |

The components meet in the database only.  The API writes a payment, its
idempotency record and a PAYMENT_RECEIVED event in one transaction.  A worker
claims the event and decides the payment; the API's `validate` and `reserve`
may do the same concurrently.  A NACHA run submits the validated payments.
Operators or the bank settle and return them, through the API or through the
worker's repository, whose settle, return, release and bank-event methods have
no caller in the repository but their tests.  Each transition writes a
lifecycle event, which the outbox turns into webhook deliveries.  The portal
reads through routes of its own, which add a key and a time-out, and keeps what
it has read in a query cache.

What makes it hard: transactions run at READ COMMITTED, so that what was read
may be stale when it is written; three kinds of advisory locks (payment,
merchant and date, funding account) are each taken by some of the operations
only; a claimed event may be claimed again when its lease ends while the first
handler still works; workers and requests die between two steps; a request that
times out in the portal may be done all the same, later; answers to overlapping
queries come back in any order; retries of all of them.  What makes the system
correct:

- lifecycle: a payment posts once and returns once; its status, reservation,
  ledger entries and events tell the same story; nothing is exported twice;
  holds never exceed the account and usage never exceeds the limit, nor loses a
  payment;
- outbox: a terminal event stays terminal; every event is completed or given
  up, none completed unhandled or abandoned by a shutdown;
- creation: one payment for a key, whatever retries and races, and no more
  requests than the rate limit lets through;
- webhooks: a subscriber misses no event, a delivery ends, and what it ends as
  is true;
- simulator: no run is completed short but by an index counted twice, a stop
  stops, no RUNNING run without a loop;
- worker processes: where generation is enabled what is eligible reaches a file, a
  shutdown ends, a live worker is shown as one;
- views: balances, summaries and files computed twice agree;
- portal: what is on the screen is an answer to what the screen asks, and
  current once all is quiet; a key that works has been told.  Both have
  exceptions, which the properties name one by one.

## Plan

Six steps, in the order of what matters most: money and its rows first, then the
outbox that every other effect goes through, then what leaves and enters the
system, and the views last.  All are done:

1. `PaymentLifecycle`, `PaymentLifecycleProofs`, with `SumTheorems` on sums.
2. `Outbox` implementing `WorkQueue`, `OutboxProofs`.
3. `PaymentIdempotency` implementing `KeyRegister`, behind `RateLimit` in
   `PaymentRequests`; `IdempotencyProofs`.
4. `WebhookEndpoints`, `WebhookDelivery`; `SimulatorRun`, `SimulatorProofs`.
5. `NachaFile`, `Listings`, `Reads`, `ReadsProofs`; `WorkerProcess`, and
   `WorkerProofs` about it and about `WebhookDelivery`.
6. The portal: `ListPages`, `WebhooksPage` over `WebhookEndpoints`, `MerchantsPage`
   over `MerchantAdmin`; `Portal` puts the pages together and `PortalProofs` proves
   what its run checks.

What a further step would add: the simulator page over `SimulatorRun`, payment
details, and the materialization of `WebhookEndpoints` and the claims of
`WebhookDelivery` composed under `Outbox`.

## PaymentLifecycle

One module for the four components that write a payment's rows, because their
correctness is a statement about their interleaving.

*State.* `status`, `exported`, `reservation`, `ledger`, `events` are the rows of
each payment, indexed by payment: the unique keys of the schema
(`Reservation.paymentId`, `LedgerEntry.entryKey`, `OutboxEvent.eventKey`) make a
reservation a function of the payment and the entries and events sets of types.
`usage` is MerchantDailyUsage, `active` and `funded` what validation reads of
merchants and accounts, `claim` the status of the payment's PAYMENT_RECEIVED
event, `bankEvents` the ProcessedBankEvent rows.  `call[c]` is what a concurrent
request, handler or operator job is doing: the operation, its payment and the
values it has read.

*Steps.* A transaction is a step that reads and takes its locks and a step that
writes and commits.  A commit re-evaluates what the database does: unique keys
(`AddEntry`, `AddEvent`, `InsertReservation`) and conditional updates
(`TransitionIfReceived`, the guards of `CommitWorkerSettle`).  Where the code
updates by id with no condition, so does the step.  A transaction whose key
collides, or whose row count is wrong, has no commit step: it can only `Abort`
or, in a handler, go to `WorkerError`.  `Abort` is also the death of a process
at any point.

*Choices that need a reason.*

- Two SELECTs of one balance are one step: no step between them changes the
  outcome in a way that ordering them differently does not.
- The account is read as its lock is granted: accounts are never closed.
- `ReadForReserve` reads payment and reservation together: reservations are
  never deleted, and one that appears later is caught by the unique key.
- `SelectForNacha` merges the probe for any eligible payment with the selection
  under the lock; `NachaBatchUndisturbed` is the reason that it may.
- `ClaimReceived` loads the payment with the claim: of what the basic checks
  read, only the merchant's status changes, and that at any time.
- `FailAlreadyDecided` re-reads the status the update missed: no step brings a
  payment back to RECEIVED.
- Whether a retried or recovered event becomes PENDING or FAILED depends on its
  attempts, which `Outbox` models: both happen here.
- An API settle or return of a debit and the worker's take the same lock and do
  the same; they are one pair of actions.
- Collisions of the 32-bit advisory keys, which only delay, are left out.

`DEADLOCK` is checked, though creation, status changes and aborts make it a
weak check here.

## Outbox

The table of events and the workers that poll it, for any number of workers:
the code claims with FOR UPDATE SKIP LOCKED so that several may run.

*State.* `status` and `attempts` are the columns of OutboxEvent.  `availableAt` and
`claimedAt` matter only as past or not yet past, so they are the sets `due` and
`expired`.  `decided` and `materialized` are what handling an event achieves: its
payment has left RECEIVED, its webhook deliveries exist.  `step[w]` is where a
worker stands in `processOnce` and in `handle`; `held[w][e]` is the claimed row it
still has to handle, of which only `attempts` is read later, or 0; `current[w]` is
the event at hand and `stopping` the workers with `acceptingPolls = false`.

*Steps.* A poll recovers expired claims (`RecoverExpiredClaims`), claims a batch
(`ClaimPending`), and for each of its events takes it (`TakeNext`), handles it and
records the outcome (`MarkProcessed`, `MarkFailed`).  Each is one statement or
transaction of the database, and anything may happen between two of them.
The handler of a PAYMENT_RECEIVED event either completes the event inside the
transaction that decides the payment (`ReserveDailyUsageAndTransition`) or fails
the payment without touching the event (`TransitionFromReceived`); every
handler ends with `Materialize`.

*Choices that need a reason.*

- Which due events a claim takes, the oldest, and the order in which
  UPDATE ... RETURNING hands them over, which SQL does not define, are left open:
  the model has every behaviour of the code and more.
- `HandlerFails` stands for every way to throw, a lost reply included: it may
  follow the effect as well as come before it.
- Materialization is one step: its inserts are one transaction keyed by event and
  endpoint, and repeating it changes nothing.
- A row is locked only while its statement runs: workers whose leases overlap
  write to the same row, as in the code.
- `DatabaseFails` is the failure of a call of the polling service itself: the rest
  of the batch is dropped, as the catch in `scheduleNextPoll` does.

*Bounds.* `MaxFaults` and `MaxShutdowns`.  Without them a worker could crash for
ever and nothing would end; attempts need no bound, as the theorem `AttemptsStayBounded` shows.

*Fairness.* Weak fairness of each worker's steps: its timer fires, its calls
return, and the deployment restarts a process that has gone down
(`restart: unless-stopped`).  Weak fairness of `BackoffElapses` and `LeaseExpires`:
time passes.  Nothing is assumed of faults, of shutdowns or of the API.

`WorkQueue` is what the outbox promises: work is performed before its event
counts as done, done and dropped are final, every event ends as one of the two.
`Fate` and `Performed` map the rows to it.  For a PAYMENT_RECEIVED event the work
is the decision of the payment only: its deliveries may be missing when it is
PROCESSED, which is a finding.

## PaymentIdempotency

`PaymentsService.create` and the transaction under it, for concurrent requests and
retries.

*State.* `payments`, `events` and `record` are the rows that the transaction inserts;
a payment is named by the request that inserted it and `record[k]` is the payment
of the PaymentIdempotencyRecord of a key.  A key stands for merchant and header
together, as both unique keys do (`Payment.idempotencyKey` is
`merchantId:header`, the record's is the pair).  `step[r]` says how far a request
has come: "inserted" is the open transaction past its first insert, "conflict" the
lookups of `findPaymentWithVisibilityRetry`, of which `lookups[r]` have failed.

*Steps.* `InsertPayment` is the insert that a unique key decides: it waits for an
open transaction with the same key (`KeyIsFree`), as PostgreSQL does, and then
succeeds or conflicts.  `CommitCreate` is event, record and commit, or the
rollback when the record's key is taken; its answer may be lost.  `FindRecord` is
one lookup, `Lookups` of which come before the request gives up: one, and one for
each of the delays 10, 25 and 50 ms.  `Fail` is any other error and the death of the
process.

*Choices that need a reason.* Bodies are compared through `PrintOf`, so that two
bodies may share a fingerprint as the code's trimming and casing make them.  The
refusals before the transaction (no header, unknown merchant) change nothing and
are left out.  A lookup sees whatever is committed, which READ COMMITTED promises
for a single primary.

`KeyRegister` is the promise: a key is written once and atomically, and every
other request is told "replayed" or "refused" by comparison with what was
written.  `ConflictIsReadable` says that the retry is never needed: a conflict is
reported only after the other transaction has committed.

## RateLimit and PaymentRequests

The counter of the rate limiter: a key per merchant and window, incremented by a
script that gives a new key its time to live.

*State.* `counters` are the Redis keys, `time` the clock, which ticks `TicksPerSecond`
times a second; `call[r]` is what a request has computed before it asks Redis: the
window it names and the seconds the key shall live, both from whole seconds
(`NowSeconds`), while Redis counts finer.

*Steps.* `ReadClock` and `Consume` are apart since the clock is read before an await:
a request may be counted under a window that has ended, and two requests be counted
in the other order than they were clocked.  `Unavailable` is Redis not reached, which
answers 503.  `TTL` is what Redis answers: the time a key has left, rounded to the
nearest second, from which `RetryAfter` is taken.  In `PaymentRequests` only an admitted request goes on to
`PaymentIdempotency!Arrive`.

A refused client that waits as long as Retry-After says may therefore be back in the
window that refused it: a first request at 0.1 s of a window of a minute and a
refused one at 30.7 s give 29 s, and 59.7 s.  `RetryAfterReachesTheEnd` says that this
is all that can go wrong: it is back less than half a second before the end.

*Choices that need a reason.* The servers and Redis share one clock: the code has
nothing that would hold against clocks that differ.  A request
counted after the window it names is with those of a key of its own; `WindowLimit`
leaves it aside.

*Bounds.* `MaxTime`: a window of two seconds, of three ticks each, and the first tick of the
next.

## WebhookEndpoints

The endpoints of one merchant, changed by API requests while handlers of outbox
events read them and insert deliveries.

*State.* `endpoint`, `deliveries` and `event` are the rows: a delivery is a pair of
event and endpoint, which the schema makes unique.  `request[c]` and `handling[h]`
are what a request or a handler has read before it writes: the endpoint that
`scopedEndpoint` found and what `remove` decided by its count; the active endpoints
that `materialize` found.  `subscribed` and `eligible` are history, for the
properties only: the endpoints active always, and at some time, since an event.

*Steps.* Each statement is a step.  An update by id fails if the row is gone; a
deletion fails if a delivery exists, and an insertion if its endpoint is gone: the
foreign key is ON DELETE RESTRICT
(`20260730064000_add_webhook_deliveries/migration.sql:24`).  `createMany` inserts
all or nothing, `skipDuplicates` leaves those that exist.  `enqueueTest` inserts event
and delivery in one transaction.

*Choices that need a reason.* Any handler may take any event at any time and again:
`Outbox` shows when it does.  Of an update only `isActive` matters, and it may leave
it as it was.  Two merchants share no row, so one is enough.

## WebhookDelivery

The workers that send deliveries.  As in the outbox the claim is
FOR UPDATE SKIP LOCKED with stale claims taken over; unlike the outbox, outcomes
are written by id with no look at the row's status, a whole batch is sent at
once, and attempts are counted with the outcome.

*State.* `status` and `attemptCount` are columns; `due` and `stale` say which times
have come.  A batch is named by its worker and a number, `batch[w]` being the number
of the one that the poll loop waits for.  `task[b][d]` is where `process` stands with a
delivery of a batch, and `claimedCount[b][d]` the attempt count of the row that `claim`
returned, the only field that is read later.  `mode[w]` is the poll loop.  When
`Promise.all` rejects, the other tasks of the batch go on without it: they stay under
their number, and the worker goes on to the next, in which it may claim the same
deliveries again.  `accepted` and `refused` record what endpoints have
answered, for the properties.

*Steps.* `Claim` is the statement; `ReadEndpoint` and `Answer` are the awaits of `process`,
`Complete` and `Fail` its updates.  `CompleteThrows` and `FailThrows` are updates that
reject, done or not: the first is caught and becomes a failed attempt, the second
rejects the batch.  `ClaimLost` is a claim that commits while its reply is lost.

*Choices that need a reason.*

- An endpoint may be disabled and enabled at any time, so that `ReadEndpoint` may
  find either; that it exists is `DeliveriesHaveEndpoints`.
- A secret that cannot be decrypted is an endpoint that is not available: the
  same failure.
- An answer may be lost after the endpoint has accepted: `Answer` then goes to "retry"
  with the delivery in `accepted`.
- Which claimable rows a claim takes, if there are more than the batch holds, is
  left open.
- Only a fault leaves a batch behind, so that `MaxFaults + 1` numbers are enough.

*Bounds.* `MaxFaults` and `MaxShutdowns`.  `MCDelivery` checks two deployments in one
run: one worker with two deliveries in a batch and one fault, for orphaned tasks beside
the next batch of the same worker; and two workers with a single delivery, two faults
and a shutdown, for claims that overlap.  Two workers with two deliveries are too
many states for TLC; the safety properties are proved for any number.  Attempts need none: they end with the last
outcome.  Under crashes without bound they would not, since a crash counts none.

*Fairness.* Weak fairness of each poll loop and each task (the request has a timeout,
calls to the database return) and of the two passages of time.

## SimulatorRun

One run of the simulator.  `execute` runs in the memory of the API, once for the
creation and once for each resume, and a paused loop ends only when it next looks
at the row: two loops may share a row that neither locks.

*State.* `status`, `generated`, `successful` and `failed` are columns of SimulatorRun;
`payments` are the payments it made, by merchant and index, which with the run
make the idempotency key.  `at[l]`, `index[l]`, `seen[l]` and `selected[l]` are the
locals of a loop, `seen` being `run.generatedCount` as it was read.  `request[c]` is
the status that `transition` has checked and not yet written.  `late` is history, for
`StopIsPrompt`.

*Steps.* Every await of `execute` is a step.  `CountAttempt` writes `generatedCount` from
`seen` and increments the others; `CountFailure` increments all.  `CountRejects` and
`Rejects` are updates that reject, done or not, within the inner `try` and outside.
`CheckStatus` and `Transition` are the two statements of `transition`, the second of
which writes by id alone and, for a resume, calls `execute`.

An update that was made and still rejects is in the inner `try`: the catch counts the
index again (`admin-simulator.service.ts:303-324`), so that a run can be COMPLETED with
fewer attempts than were asked for.  `attempts` and `recounted` are history:
`CompletedIsFull` says that a run falls short by such updates only.

*Choices that need a reason.*

- Which indexes are to fail validation or be sent twice is a function of the index
  (`percent`): two constants.  An index that is to fail has a payment all the same,
  which the worker refuses later.
- An index is attempted for any of the loop's merchants: `findMany` has no order.
- A used key is refused, as `receiverAccountRef` is random and the fingerprint then
  differs: a resumed run counts the indexes it repeats as failed.
- Any payment may be refused, for its limits or anything else.
- `resume` reads its merchants before it checks the status; any may be active.

*Bounds.* `MaxFaults`, and `Loops`: a run is resumed as often as there are loops.

## WorkerProcess

The life of processes that run the worker's application: the worker, and
`generate-nacha`, the script, which starts the same application, timers included.

*State.* `enabled` are the processes whose environment has
`NACHA_GENERATION_ENABLED=true`, any set of them: generation is off unless it is
enabled (`worker-config.service.ts:95`), and a worker without it never arms the timer
(`nacha-generation-scheduler.service.ts:31`).  `process[w]`, and for each the NACHA timer, the script's own generation and the
heartbeat's timer with its seconds.  `waiting` are the merchants with eligible payments,
`lastSeen` the age of the one heartbeat row, which all processes write.

*Steps.* A shutdown (`Close`) clears the timers and lets what is running go on; whether a
timer is set when it ends depends on the shutdown having come (`scheduleNextRun`,
`NextHeartbeat`).  The script enables no shutdown hooks: a signal kills it
(`KillProcess`), and its own end closes it.  `FailRun`, `MissHeartbeat` and a failing `EndScript` are the catches.
`Second` passes for all at once.

`EligibleIsExported` is about deployments with a worker for which generation is
enabled; by default nothing is exported until the script is run by hand.
`LiveWorkerIsHealthy` disagrees with the documentation, which says that the worker's
health is always UNKNOWN: a finding.

*Choices that need a reason.* `WorkerAssumption`, that the interval and twice the
longest write fit within `StaleAfter`, is met by the defaults (10 s, 30 s) while writes take less than ten:
the interval counts from the end of a write while the row has the time of its
beginning.  A generation takes one merchant after the other; what one file does is
in `PaymentLifecycle`.

*Fairness.* Weak fairness of what a process does by itself (timers fire, calls
return) and of the start of the worker (`restart: unless-stopped`); none of scripts'
starts, of arrivals or faults.

*Bounds.* `MaxArrivals`, `MaxFailures` and `MaxStops`; without them a process could fail or be
stopped for ever.  The row's age is not counted beyond the limit.

## NachaFile, Listings and Reads

What the API reads, as functions of the rows, checked in every state that the
writers can bring about.

`NachaFile` has the records of a file as the worker lays them out (`Generated`) and as
the API lays them out again for each download (`RenderNacha`), the latter from rows
that have changed since.  `Listings` has the ranges of dates, the orders and the pages
that the list endpoints share, each with its own differences: `InDeliveryDates` counts back
from now, `TieBreak` breaks ties by id downwards, upwards or not at all.  `Reads` has
the ledger with its running balances, the three copies of the balance rule, the
dashboard's summary, daily volume and distribution, and the rows of files.

*State of `Reads`.* The payments' statuses, times and files, and `posted`, the ledger in
the order of `createdAt` and id.  Its writers are those of `PaymentLifecycle` in short:
here only times, amounts and files matter.  A credit is held (`Decide`, `Reserve`) and its
hold may end at any time (`Release`), with RESERVATION and RESERVATION_RELEASE entries
that move no balance; what has become of a reservation is told from its entries.
`Validate` keeps the overwriting of VALIDATION_FAILED by a stale API validation.  Over a
later status that is impossible: the key of the PAYMENT_VALIDATED event is taken, and the
transaction is rolled back.

A file is named by the least of its payments.  `Statement` maps the places in `posted` that
a range selects to the balances beside them; sorting and paging the rows afterwards is
`ListPages`' subject.

*Choices that need a reason.* A view is one instant, though it is several
statements; overlapping reads are `ListPages`' subject.  Columns that no other record
depends on, names and padding, are left out of a record.  Entries of one instant
are ordered by a random id: `Post` puts a new one at any place among them.

*Bounds.* Three days, a week of two; five entries; ten-digit fields as one digit.

## ListPages

The four list pages of the portal.

*State.* `born` and `left` are the rows of the server, `ui` the filters, the text as it is
typed and as it is asked for, and the page.  `cache` and `flight` are the query client: the
answers by query key and the fetches under way, several at a time, one for each key.

*Steps.* `ReadRows` and `Answered` are the two statements of a list, rows and count, between
which rows are written.  `Fails` retries once and then gives up, as `Providers` sets
it.  `Click` is any change by the user, each page with its own controls; `Debounce`, `GoStale`
and `Poll` are timers.

The payments can be sorted by date, amount or status (`toggleSort`), and no second
column breaks their ties (`payments.service.ts:161`).  In a list sorted by status a payment
that moves between the reads of two pages makes another one be skipped, and among equal
ones each page may choose its own order.  `WalkSkipsNothing` leaves out those walks and
says so; it keeps payments in an order without equals, and all orders of the other lists.

*Choices that need a reason.* A query that leaves the screen finishes its fetch into the
cache.  Fetches of one key are one: the client deduplicates them.  Which instant
two rows share, and so whether a list has ties, is left open.

*Bounds.* Three rows, one or two of which exist at the start and the others may be
inserted, pages of one, one or two clicks for each page; one failure for each list but
that of payments, which has the most controls.

## WebhooksPage and MerchantsPage

Each page with the requests it makes and the API that does them, `WebhookEndpoints`
and `MerchantAdmin`: the composition is of the page's actions with the API's own,
the API's variables being written by the API's actions only.

*State of `WebhooksPage`.* `selection` is the search text and the status on the screen, each
pair of which is a query of its own: `known` is what was last read of each, `fetch` the reads
under way, `invalidated` the queries to be read again when they are selected, `failed`
those whose last read failed.  `asked[c]` are the requests: one is "sent" until the API has
done it and "answered" until the page is told; one that timed out is "given up" and may
still be done.  `deleteInFlight` and `deletingEndpointId` are the page's own guards.
`behind` is history: the lists that a write may have overtaken.

*State of `MerchantsPage`.* `cached`, `reading`, `current` and `failing` are the two queries, of
the list and of the merchant in the drawer; `doing[c]` are the requests.  The drawer and
the form have one slot each for a key to be shown, `secret`.  `told` are the keys that
were on the screen and `lost` those that were dropped, or never arrived.  `overtaken` is
`behind` for this page.

*Steps.* `refresh` and `Invalidate` are `invalidateQueries` of the query client
(`@tanstack/query-core` 5.101.4): a read that is under way is dropped and started again if
its query is on the screen and has data; the first read of a query is kept, and so is one
of a query that has left the screen.  Kept, it may have read before the write, and it
counts as a new reading.  `Succeeded` keeps a removal until the list has been read again,
as its `await` does; `Told` clears the Delete button of any endpoint.  `onChanged` refreshes
list and drawer; `MerchantCreated` and `DemoFundingEnds` refresh the list.  `ListFails` and
`MerchantsUnavailable` are the retry and the error after it; an error of the merchants'
list takes drawer and form off the screen, one of the details is shown beside what was
read before.  `close` forgets the key in its slot, and `SetSecret` puts a key in the place of
another.

What the pages leave behind, each named by the property it is an exception of:

- a list whose first read was under way when a write was answered, as after picking a
  filter with a toggle in flight, or one that was being read while another was on the
  screen, may show the state before that write, with no sign of it (`QuietPageIsCurrent`);
- so may any list after a write that timed out and was done all the same;
- details that could not be read are old, beside an error (`DrawerIsCurrent`);
- a key is never shown if a second one arrives behind the closed drawer before it was
  seen, if the drawer is closed before its details are there, if the list fails and takes
  the drawer away, or if the answer is lost (`WorkingKeyIsTold`).

A key of one merchant that arrives when the drawer shows another is shown there, under
the wrong name, and counts as told; and of two rotations whose answers come back in the
other order the key on the screen is the dead one.  The properties say nothing
against either.

*In `MerchantAdmin`* a validator reads the merchant with the payment and writes later,
the worker only to a payment that is still RECEIVED, the API to any.
`wasActive` is history, for `SuspensionStops`.  A seeded merchant has no key, and `rotate`
updates the row of a key, which is then refused.

*Choices that need a reason.* Two merchants share no row, so that what one admin sees
of the list is two of them.  All writes are the page's own: what another browser changes
is on neither page before the next reading.  Data are read again when they are half a minute old or
dropped five minutes after they left the screen; the model does not wait so long, except
that `Select` may find a list old.  The ARCHIVED badge of an endpoint and the notices are left
out.  The list's rows show status and funding; its other
columns are read with them.  A request in `Slots` is any form or button; the guards that
keep a second from being sent (`WaitingFor`) are those of the code.

*Bounds.* `MaxTurns`, four: requests, selections, failures, time-outs and payment events of the
webhooks page together; one search text, and two states.  `MaxRequests`, `MaxLosses`: two
requests of the merchants page, one of whose answers, or one reading, fails; `MaxKeys`: the
keys that other clients are given.

`Portal` puts the pages together: the user opens one of them, or none, and then other
clients use the administrators' API without the page's guards (`OtherClients`).  It says
once more that what a page does not have open, it does not change.

## Runs

| Run | Instance | Shows |
|---|---|---|
| `Lifecycle` | a debit and a credit of one merchant and date whose sum exceeds the limit, two callers, one bank event | every interleaving of two operations on either payment keeps its rows consistent, no update of the usage is lost, a NACHA batch stays eligible |
| `LifecycleFunding` | two credits of one account on different dates | the funding lock alone prevents oversubscription |
| `OutboxSafety` | two workers, a PAYMENT_RECEIVED and another event, two attempts, batches of two, one fault, one shutdown | stale handlers and recoveries never change an event that has ended, a shutdown abandons none |
| `OutboxLiveness` | two workers, two events, batches of one, one fault, fairness | every event ends, one that is retried does not starve the other, and the refinement of `WorkQueue` with its liveness |
| `Delivery` | one worker, two deliveries in a batch, one fault; or two workers, one delivery, two faults, a shutdown; two attempts, fairness | claims overlap, tasks are orphaned and outcomes come late; what a delivery ends as is true, and it ends |
| `Idempotency` | three requests, two keys, three bodies with two fingerprints, two requests for a window of two seconds, of three ticks each | creation behind the limiter implements `KeyRegister`, every conflict is readable at once, the limit holds, and Retry-After reaches to within half a second of the end |
| `Simulator` | two payments, one to fail and one sent twice, two loops, two requests, a fault | loops and requests that overwrite each other's row complete no run early but by indexes counted twice, stop when told and leave no RUNNING run without a loop |
| `Reads` | three payments, two merchants, three days, holds of credits | views that compute a thing twice agree, and a download is the file submitted |
| `Worker` | a worker and a script, either with generation enabled or not, two merchants, one fault, one shutdown, fairness | payments reach a file where generation is enabled, a shutdown ends, a live worker is never shown as stale |
| `Portal` | each page: four lists of at most three rows; two endpoints, two events, two requests, one handler; two merchants, two requests, one payment; no page and other clients | what the screen shows is right under overlapping answers, failing reads and time-outs, up to what the properties except, and the API keeps its promises under the page's requests and others' |

Two callers are enough for the lifecycle: a property is broken by a pair, one of
whose steps falls between the other's read and its commit, and the operations
before and after are made by either.  Amounts are 1 and limits 1 or 2, so that the
second payment is the one that does not fit.  Nothing is unbounded: ledger and
events are sets and usage is bounded by the limit.  No run of the lifecycle has
fairness: its properties are safety properties.  Symmetry is used in runs of safety
properties only.

Two workers are enough for a stale handler against a later claim, which is every
conflict there is over one row; two attempts give a first, a last and, by the
stale failure, one too many.  Three requests are a writer, a replay and a refusal of
one key, or two writers and a conflict.  Two endpoints are one that is deleted and
one that must not miss the event for it.  Two loops are the one that is paused and
the one that resumes, two requests the one that overwrites the other.  Three
payments give a file of both directions and one of another merchant; three days a
payment created before, on and after a day that a range begins or ends with.  Of three rows
of a list one is on the page, one is pushed on by a new row, which is the third.  Where everything can be answered or
delivered a run may end, and says so with `CHECK_DEADLOCK FALSE`.

Two more runs show a statement of `docs/architecture.md` that the code does not
keep.  Each is a finding in `PROJECT.json` with the line it quotes:
`UnreservedSubmission` (a credit submitted with no reservation) and `OutboxFailure` (a
PAYMENT_RECEIVED event whose materialization fails stays PROCESSED).

Two differences from `docs/` are findings that a passing run shows, since the
documents say less of the code than it does: the worker's health (`Worker`;
`docs/api.md:586`) and the pages of files, ledger and deliveries (`Portal`;
`docs/api.md:548`, and `:351`).

Other differences have no run:

- a stale API validation overwrites VALIDATION_FAILED, which the documentation calls
  terminal (`payment-engine.service.ts:48`, `docs/architecture.md:369`);
- the worker's reservation commits on a payment that another handler has failed
  meanwhile, so that a failed payment keeps an active hold
  (`payment-lifecycle.repository.ts:621`, `docs/architecture.md:173`);
- release turns a SETTLED reservation into a RELEASED one
  (`payment-lifecycle.repository.ts:147`, `docs/architecture.md:253`);
- a stale failure gives an exhausted event back, to be claimed once more
  (`outbox.repository.ts:90`, `docs/architecture.md:372`);
- a late failure of an overtaken claim, or a `complete` that throws after its
  update, reopens a DELIVERED webhook, which is then sent again
  (`webhook-delivery-processor.service.ts:166`, `docs/architecture.md:374`);
- a pause that was checked before a run completed or stopped turns it PAUSED, from
  where it may be resumed (`admin-simulator.service.ts:467`, `docs/api.md:478`), and a
  failing loop turns a STOPPED run FAILED (`admin-simulator.service.ts:333`);
- a resumed run repeats its first indexes, each of which is refused and counted as
  failed (`admin-simulator.service.ts:258`, `docs/architecture.md:353`);
- release, settlement and return are said to take an advisory lock of the payment;
  the API's settlement and return of a credit take none, which the unique keys
  make harmless;
- settlement is said to require a reservation, which is older than the debit
  settlement of both sides.
- one of two dates is accepted with the custom range by the API
  (`payments.service.ts:333`), where `docs/api.md:196`, `:358` and `:392` require both;
- the posted balance adds RETURN, REVERSAL and ADJUSTMENT entries
  (`admin-merchants.service.ts:232`, `docs/architecture.md:211`), of which `README.md:33` knows
  nothing;
- a suspended merchant can create payments, which are refused when they are
  validated (`merchants-manager.tsx:816`: "cannot initiate payment operations");
- a seeded merchant has no key row and cannot be given a key by rotation
  (`admin-merchants.service.ts:119`, `docs/api.md:343`).

The models have all of these behaviours, and the properties hold in spite of them.

Hazards that the models do not reach, besides those noted in `PROJECT.json`:

- an API-validated debit counts against no daily limit (`payment-engine.service.ts:88`);
- the query key `admin-merchants` caches two shapes of answer, that of the merchants page
  (`merchants-manager.tsx:126`) and that of the filters of ledger, files and dashboard
  (`ledger-table.tsx:104`);
- with a minimum and a maximum the ledger's filter keeps the maximum only
  (`ledger.service.ts:62`), and its running balance starts at zero within a range that has a
  first day;
- the admin's view of a merchant adds up the volume of its ten latest payments;
- the simulator page shows as remaining the count in its form less what the run
  has generated (`simulator-manager.tsx:215`);
- the portal acts for the one merchant whose key it is configured with
  (`app/api/webhooks/route.ts:5`).

## Proofs

`PaymentLifecycleProofs` proves, for any sets of payments, merchants, dates and
callers that satisfy `LifecycleAssumption`:

- `TypeCorrect`: `TypeOK`;
- `RowsConsistent`: `RowInv`, the inductive invariant of rows and calls, and
  from it `LedgerAgrees`, `NeverExportedTwice`, `HoldsEnd`, `NoLostPayment` and
  `BankAgrees`;
- `BatchStaysEligible`: from `NachaInv`, which adds that only one caller
  generates;
- `LimitKept`: from `UsageInv`, which adds that callers past the daily lock of
  one day are one, and that what they read is what the row still holds;
- `UsageCounted`, from the same invariant: a commit that accepts a payment adds its
  amount to what the row holds at that moment, and no other step changes it.

The properties are not inductive alone.  `StatusMatchesLedger` breaks after a
stale settlement unless one knows that a SETTLEMENT entry, an event and a status
appear together, so that the unique keys stop the second one (`PaymentInv`), and
what a call may still assume of the row it read (`CallInv`): a call at
"settle" has read SUBMITTED, from which a payment only moves on.

`CreditsCoverHolds` compares sums over sets of payments, which `MapThenSumSet` defines
by a recursion over the subsets of a set.  `SumTheorems` shows that the recursion has
one solution, by an induction that is stated for sets (`FiniteInduction`: a set of sets that has the
empty set, and each set with one element more, has the whole), which the provers can use
where they cannot instantiate an operator; from it follow the laws of sums that
are needed.  `FundingInv` then says that two callers with the funding lock of one
merchant are one, and that a caller about to insert a reservation still finds room
for it: what it computed as available is not above the credits, since debits only
lower it, and no other insertion can have come between.  An amount is a natural
number; no bound on the number of payments is used but that they are finitely many.

`OutboxProofs` proves, from `OutboxAssumption` alone, every safety property the runs
of the outbox check, and more.  `StepShape` first reduces the eighteen actions to seven shapes of
what they do to rows and claims; each invariant then needs one case for each.

- `TypeCorrect` and `TerminalStays`: the status guard of `updateClaimedEvent` is all
  that `TerminalIsFinal` rests on;
- `GivenUpLast` and `ClaimsAreAttempts`: inductive together;
- `ShutdownAbandonsNothing`: from `HeldInv`, which adds that an idle worker holds
  nothing;
- `AttemptsStayBounded`: an exhausted event that waits to be claimed once more was
  given back by a worker whose claim was an earlier attempt, and that worker then
  holds the event no longer.  `AttemptInv` bounds attempts plus those workers, a
  cardinality that the last of the allowed attempts finds below the number of
  workers and that each further one lowers;
- `OutboxIsQueue`: every step maps to a step of `WorkQueue` or to a stutter, given
  `HandledInv`, which says what a worker past a step of the handler has achieved.

`EveryEventEnds` and the liveness half of `ImplementsQueue` are model-checked only:
fairness is out of the prover's reach.

`IdempotencyProofs`, from `IdempotencyAssumption`: `RowInv` is inductive.  It adds that the
open transaction that has inserted a key is alone with it and finds no record,
which is what the waiting insert gives; `TypeCorrect`, `OnePaymentPerKey` and
`ConflictsAreReadable` follow.  `CreationIsRegister` maps every step to a step of
`KeyRegister` or a stutter.  Behind the rate limiter all of it stays true
(`RequestsAreBoth`).  From `RateLimitAssumption`, `GateInv` is inductive: a counter outlives the
window it names, so that until then it counts at least as many requests as were
admitted in it.  `WindowIsLimited` and `RetryAfterIsEnough` follow for any length of the
window, any tick and any limit, the latter because a key outlives its window while what Redis
rounds off is half a second at most; the former with the cardinality of a set that may grow by one at a time.

`PortalProofs` has the theorems of all pages and of what is behind them.

- Endpoints, from `EndpointsAssumption`: `EndpointInv` is inductive.  It adds what a
  handler's reading is worth by the time it inserts (`HandlingInv`): every endpoint
  subscribed all along is among those read, and all of those read were eligible.
  Five theorems follow.
- `RemovedOnce`: `RemovalInv` says that an endpoint whose removal is waiting for its answer is
  in `deleteInFlight`, although the guard of the button is cleared by the end of
  any removal.
- `PageMissesNothing`: by `PageRefines` every step of page and API is a step of `WebhookEndpoints` or
  leaves its variables alone, which carries `EndpointInv` over to a page that is
  opened on endpoints that exist already.
- `QuietPageHolds`: by `QuietInv` what is known of a selection, or read and on its way, is
  what the server has, unless a write is about to be answered, which will start the read
  again, or the selection is invalidated, failed or behind.
- `SuspensionHolds`, from `MerchantsAssumption`: a validator that passes has read a payment whose
  merchant was active since it exists.
- `KeysReachTheUser`: a key returned is the key stored, and it moves from answer to slot
  to screen; each step that takes it from one of them without showing it puts it among
  the lost.
- `DrawerHolds`: by `DrawerInv` each of the two queries is up to date, or will be refreshed by a
  request that has not been told of yet, or was overtaken, or failed; and a merchant of
  which the page knows anything exists, so that the answers it reads have its row.  It
  needs that no merchant has the name of the list's query.
- `AnswersKeepApart`: by `ListInv` every cached answer, and every one on its way, is a page of
  rows that its own key selects, of those that were there when it was read.
- `WalkShowsAll`: rows that are inserted only add to those ahead of a row, and every page
  holds its rows from place `(n - 1) * PageSize` on.  Of the pages that do not come after
  the row, the last one shows it (`PageShows`): on the next page the row would else be ahead,
  and after the last page there is none, since the total is counted after the rows
  are read and no row is deleted.  That the place of a row is one more than the
  number of rows ahead of it is `Position`, and needs that the order has no ties:
  for payments, which have no second column, that is the property's own condition, and that
  nobody moves in the order rules out the status.  A count of rows needs them to be
  finitely many.

`ReadsProofs`, from `ListingsAssumption` and `ReadsAssumption`:

- `BalancesAudit` and `BalancesMatch`: by `LedgerInv` entries are in the order of their times and
  every account has one.  A range that starts with the first entry selects a beginning of
  each account's entries (`EarlierIsIncluded`), over which the three copies of the rule
  add up the same values.
- `DownloadsAreExact` and `FileRowsMatch`: by `FilesInv` the payments of a file are of one merchant, and
  what its row keeps is what they give.  No later step moves a payment to another file
  or writes a file again, for the least payment of a new file is in none yet.
- `DashboardCounts`: days begin at the multiples of `Day`, whatever its length (`InDay`), so that
  the three ways to cut a range select the same payments; and the parts of a
  finite set count as many as the set (`SumOfParts`).

What a fold over a sequence computes (`TotalCents`, `EntryHash`) is not opened: the
theorems show that the two sides fold the same sequence.

`WorkerProofs` has two parts.  From `DeliveryAssumption`, about deliveries: the actions are reduced to a few shapes,
`TaskInv` says that what a task knows of its endpoint's answer is so and that the
count it was claimed on is not above the row's.  `DeliveredWasAccepted` and
`GivenUpLast` follow; `ShutdownAbandonsNothing` needs that no batch is left behind
without faults.  From `WorkerAssumption`, about the heartbeat: by `HeartInv` no timer is
late, and for every process that beats the row is at most as old as its own timer
plus what it was worth when the timer entered its step (`AgeAtEntry`): one write when
the interval begins, an interval and a write when the next write does.  A row
written by another process is younger than that.  At the end of a step this is an
interval and two writes at most, which is the assumption on the limit, hence
`BeatingIsHealthy`; it also says that `Off` is no number and no timer.

`SimulatorProofs`, from `SimulatorAssumption`, proves the properties of the run `Simulator` and
what `generatedCount` and `successfulCount` are worth, an index counted twice being counted
among `recounted`.  `RunInv` adds what a loop knows of the counters: it has counted an
attempt for each index it left behind, so that whoever completes the run, by count
or by index, finds enough (`CountInv`); and alone it has read what it will write one
more than (`AloneInv`).  `SuccessInv` charges the successes that loops still owe
against the payments, a cardinality of loops and one of payments.

Model-checked only are the liveness properties `EveryEventEnds`, the liveness half of
`ImplementsQueue`, `EveryDeliveryEnds`, `EligibleIsExported` and `ShutdownEnds`, for which the prover has no
rule of fairness.  Every safety and action property of the passing runs is a theorem.

## Not modelled

- The portal's dashboard, settings, simulator and payment details pages: they show what
  a query returned, through the query client that `ListPages` models, and keep
  nothing that outlives a request.  The search, sorting and paging of the merchants
  list are done on data already read.
- The evaluation harness and the infrastructure: no part of the running system.
- The parsing of requests, headers and the environment, the encryption of webhook
  secrets, the constant-time comparison of the admin secret, checks of URLs,
  metrics, formatting and logging: no property is about them.
- The simulator's scenarios: which indexes fail or repeat is all that is kept of a
  configuration.
