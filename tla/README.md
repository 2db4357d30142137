# WATS in TLA+

A verification development of WATS, a TypeScript SDK, service and command line
for the WhatsApp Business Cloud API. It models the parts of the code that keep
state while several things happen at once, checks the models with TLC, and
proves the properties for every size of system with TLAPS. Paths below are
relative to `src/`.

## 1. The system

| component | code | state it keeps | operations |
|---|---|---|---|
| outbox table | `packages/persistence/src/sqlite.ts`, `postgres.ts` | `wats_outbox`: status, attempts, lease, next attempt | enqueue, claim, mark succeeded, mark failed, count pending |
| outbox worker | `packages/persistence/src/outbox.ts`, `outboxWorker.ts` | timer, `inFlight`, `stopped`, the batch of the current tick | start, the tick, stop |
| keyed sends | `packages/service/src/index.ts`, `serviceRequests.ts`, `wats_service_requests` | one row per idempotency key: hash, claimed or completed, response | claim, send, complete, answer |
| message projection | stores, `recordOutboundProjection` | `wats_messages`, `wats_message_status_events` | recordMessage with its reconciliation, appendMessageStatus, reads |
| webhook ingestion | `packages/service/src/index.ts` `handleWebhook`, `webhookIngress.ts` | `wats_webhook_events`; per request two lists of updates | pass the gate, record, project, dispatch, answer |
| webhook gate | `packages/http/src` `adapters/fetchAdapter.ts`, `adapters/webhookAdapter.ts`, `signature.ts` | none | bounded read, signature, parse, normalize, answer |
| webhook normalizer | `packages/core/src/webhookNormalizer.ts` | the accumulator of one envelope | walk entries, changes and items; skip, deduplicate, limit |
| conversation window | `packages/persistence/src/conversationWindow.ts` | none (reads the last inbound message) | compute the window |
| migration and its lock | stores, `migrate` | `wats_persistence_lock`, `wats_schema_migrations` | acquire, apply, release |
| Postgres mutex, close | `postgres.ts` `#withLock`, `close` | a chain of promises, `closing`, `closed` | run one operation, drain and end |
| `wats serve` | `packages/cli/src/index.ts`, `bin.ts`, `serve-shutdown.ts` | one shutdown in flight, `stopped` | start, drain, force, close the store, exit |
| listener registry | `packages/core/src/listener.ts` | ordered one-shot listeners with timeout and abort signal | register, evaluate, cancel, clear |
| typed router | `packages/core/src/typedRouter.ts` | ordered registrations | on, unregister, dispatch, clear |
| rate limiter | `packages/graph/src/rateLimiter.ts` | tokens, time of the last refill | acquire |
| reliable transport | `packages/graph/src/reliableTransport.ts` | attempt counter of a request | request with retries |
| pagination | `packages/graph/src/pagination.ts` | cursor, page count | iterate pages |

How they interact. Meta posts webhooks to the service. The adapter reads the
body within a bound, checks its signature, parses and normalizes it; the service
records, projects and dispatches each update. The store is shared by all service
processes; dispatch goes through the facade to listeners and then to the
router, in memory. Clients post messages to the service, which claims a key in
the store, calls the Graph API through limiter and transport, and completes the
claim; a later status webhook meets the projection the send has stored.
Applications enqueue work in the outbox and run workers over it. Everything that
is shared between processes is in the store: SQLite runs an operation as one
synchronous call, Postgres serialises the operations of one process on one
connection and lets processes interleave between statements. `wats serve` opens
and migrates the store, serves, and on a signal drains its requests, closes the
store and exits, each within a limit of its own.

What is hard, and where (all of it is in `PROJECT.json` under `hazards`): leases
that run out while a handler works, answers of the store or of Meta that are
lost after taking effect, crashes between two writes that belong together, the
same request or update arriving twice at once, status events out of order,
store errors in the middle of a batch, loops that must survive every error,
stops that must wait for exactly what is running and yet must end, user code
that changes a registry while it is iterated, callbacks that throw inside the
`try` that retries, and clocks that disagree or are set back or forward.

## 2. Modules

Each model has a module of its own, an `MC...` module with the values TLC needs,
and where there is a contract to implement, an abstract module. A definition
whose comment begins with *Slip* is not part of any model: it is how the
definition after it, or one of its neighbours, would look with a plausible bug
in the code, kept to show that the properties notice.

| module | models |
|---|---|
| `LeasedQueue` | abstract: items waiting, leased under rising tokens, done |
| `Outbox` | the table and its operations, shared by the workers |
| `OutboxWorkers` | processes that run `startOutboxWorker` over one `Outbox` |
| `OnceOnlySend` | abstract: a key is bound once, sent once, recorded once |
| `KeyedSend` | `POST /messages`, `POST /messages/text` with an idempotency key |
| `MessageStatus` | the rules for replacing a stored status |
| `MessageProjection` | recording a message and appending its status events |
| `OnceOnlyInbox` | abstract: an update is taken once, then handled or lost |
| `ConversationWindow` | when an event is stored as having happened, and the window made of it |
| `WebhookGate` | what a POST has to pass before its envelope is handled |
| `WebhookNormalizer` | which updates an envelope comes to, and what its loops are to yield |
| `WebhookIngress` | `handleWebhook` with a store over these three, and Meta's retries |
| `SchemaMigration` | `migrate()` of both stores, in processes of several releases |
| `SerialStore` | abstract: operations take turns, a transaction in one step |
| `StoreConnection` | the promise chain of the Postgres store, its connection, `close()` |
| `ServeProcess` | `wats serve` over a `StoreConnection`; also a program that embeds the store |
| `ListenerRegistry` | one-shot listeners |
| `TypedRouter` | one dispatch: the listeners, then the handlers |
| `UpdateDispatch` | the adapter's loop over the updates of envelopes, over these two |
| `TokenBucket` | abstract: a bucket that fills with every tick, overdrawn only on the credit of a clock set forward |
| `RateLimiter` | the limiter's lazy refill by a clock that may be set back and forward |
| `ReliableTransport` | attempts, retries, callbacks and aborts of a request, over the limiter |
| `Pagination` | page loops and single requests that share the transport |

Theorems are in `OutboxWorkers_proofs`, `KeyedSend_proofs`,
`MessageProjection_proofs`, `WebhookIngress_proofs`, `SchemaMigration_proofs`,
`ServeProcess_proofs` (the first part is about the store, the second about the
process), `UpdateDispatch_proofs` and `Pagination_proofs`.

### Outbox and workers

`status`, `lease` and `until` are the columns of `wats_outbox`. Times are kept as
distances to the clock, so that time need not be bounded: `until[i]` is the
distance after which row `i` is claimable (`next_attempt_at`, or
`updated_at + OUTBOX_PROCESSING_LEASE_MS`). A caller's `now` is read once per
tick; `lag[w]` is how far it has fallen behind. `attempts` and `lease_id` move
together, so `lease` stands for both.

`stage[w]` names the await a worker is at: `claiming`, `handling`,
`succeeding`, `failing`, `counting`. Each has an action for the answer and one
for the error; an error of a statement may come after it took effect. `Settle`
is the `finally` of `fire()`. `held[w]` is what is left of the claimed batch,
with the leases, and `cur[w]` the item of the loop. A crash loses all of this
and leaves the table. `Advance` is the clock. A claim is one action: in SQLite it
is one synchronous transaction, in Postgres it locks what it selects. What
Postgres adds is `hidden`: rows locked by another claim are skipped, and if that
claim is rolled back they stay unclaimed although later rows were taken.

### Keyed sends

`status`, `hash` and `response` are the columns of `wats_service_requests`, and
a call is one HTTP request; a client that retries makes another call. Every
statement of the Postgres store is a step. A key is the namespaced key of one
operation and a payload its canonical hash, so that hashing is not modelled.
`accepted` is what Meta did, which nobody in the system can see: `GraphFails`
covers a refusal and an acceptance whose answer was lost. `Crash(S)` takes any
set of calls along. The service sends through the default transport of the
facade, which makes one attempt; what retries may do to a POST is in
`ReliableTransport` (`PostsLandOnce`).

### Message projection

One message: its row, and the set of its status events. An action is a
statement, or the part of a transaction between two reads; what a transaction
writes is seen when it commits (READ COMMITTED), and its `UPDATE` overwrites
whatever is there. `reconcile` is the read of the events (`RecordReads`), a step
for each turn of its loop (`RecordCompares`; `todo[p]` is what the loop has
still to look at, equal timestamps in any order), and the `UPDATE`, which is
left out when the events have changed nothing. Several processes, each with one
operation at a time (`#withLock`; a synchronous call in SQLite). `Fail` ends an
operation anywhere: transactions are rolled back, the statements of
`recordMessage` stay. Between processes an overwriting `UPDATE` may put `failed`
over `delivered`, so the properties of the row are stated for operations that
did not overlap, and `projection_race` shows what overlapping ones do.

### Webhook ingestion

A delivery is an envelope that Meta posts until it is answered 200
(`PostAgain`); two deliveries may carry the same updates. `Post` is everything
before the first `await` that touches state: the bounded read and the checks in
their order (`WebhookGate`), the normalizer (`WebhookNormalizer`), and the depth
check of the service. A request is a record of what these can tell apart: the
declared length, the bytes sent, whether the body breaks off, how the signature
fits, what the bytes mean. The body is a stream; a request without one is read
by `arrayBuffer()`, and an empty body then fails at the signature or the parser.

The normalizer is three nested loops over entries, changes and items, written
as recursive functions that thread the accumulator as the code does. Which
fields make an item legible is left out; that an illegible one is skipped, that
the first of several items with one id wins, and that a change past the limit
counts as one are in. `IsReading` says without loops what they are to yield: the
first legible item of each kind and id, in order, as far as the limit reaches.

`left[d]` is what the current loop of the handler still has to go through,
`toDispatch` and `deduped` are its two lists. An update is named by its dedup
key; `Keyless` ones have none. `RecordThrows` has both outcomes of an insert
that fails. Projections are one step per update, since both kinds store what is
not there and nothing else; `MessageProjection` has their statements. Here they
have times: `receipt[d]` is what the clock of the process showed (chosen where it
is first used), and `stored[u]` the times at which an update is projected, a
message at its own time unless that lies in the future. `WindowAgrees` asks
`getConversationWindowState` with any clock over what is stored.

### Schema migration

`lock` is the row of `wats_persistence_lock`, `applied` the rows of
`wats_schema_migrations`. Migrations are numbered in source order, and a call of
a release knows the first `Known[c]` of them. Every statement, and the
transaction of every migration, is a step that may fail, also after it took
effect; `Conclude` is a `return` or `throw` inside the `try`, after which only
the `finally` is left (`Release`). A process that dies leaves the lock where it
is: no code removes it, so the model has no action that does. The two backends
differ in what an error becomes (`Backend`, `Unmapped`, `LockFault`). A row
whose checksum was edited looks to `Validate` like an unknown migration and is
not modelled apart.

### Store connection

`chain` lists the callers whose promise has not settled: `#chain.then(fn, fn)`
lets a function run when all before it have settled, in whichever way, so only
its head runs (`MayRun`). `closing` is set in the turn of the call, `closed`
when `close()` has its turn. An operation either works between `BEGIN` and
`COMMIT` (`TxOp`) or not; what its statements say is the business of the other
modules, here they are counted: executed (`work`), in the open transaction
(`pending`), durable (`kept`). The transaction is the connection's, as in
Postgres: whoever sends a statement while it is open is part of it, which is
what the chain is there to prevent. `Refuse` is a query that the server refuses
or a function that throws, `Lose` a connection that breaks under a query;
`ROLLBACK` is refused only with the connection. `migrate()`, which works with
and without transactions in one turn, is in `SchemaMigration`.
`MessageProjection` has one operation at a time per process because
`TurnsAreTaken` holds here. `SerialStore` is what the chain is for, without
connection and promises: its queue is the chain, the effect of an operation what
is kept of it, and only who has the turn has an effect.

### Serving

`ServeProcess` extends `StoreConnection`: a request makes one call to the store
and is answered when it has settled, and the process stands in one of `phase`.
`Drained` and `Deadline` are the two ends of the race in `serve-shutdown.ts`,
`Leave` and `CloseTimesOut` those of the race against `close()`, `SignalAgain`
the second signal. `Exit` ends the connection: the query under way may still be
executed, a commit too. In the phase `library` the actions are exactly those of
`StoreConnection`, which any program may use as it likes; the run has both.

### Dispatch

Listeners and handlers are named by the order of their registration.
`ListenerRegistry` has the `Map` (`entries`), the promises (`fate`), the timers
and the abort hooks; every way to settle a listener is a `Finalize`.
`TypedRouter` is a dispatch: `job[d]` are its locals. Predicates run in one turn
of the event loop (`Busy`), so that no timer and no other dispatch comes between
them, but they are user code and may register, unregister, cancel, abort and
clear (`RegistryCall`, `RouterCall`). `evaluate` iterates over the live `Map`,
the router over a copy in which it skips what has been removed. Handlers run one
after another or all at once, and may do the same between any two steps.
`UpdateDispatch` is the loop of the adapter over the updates of an envelope;
several envelopes share the registries. Not in the model: a dispatch that a
handler starts, observers, and the predicates of filters, which answer anything.
A predicate that unregisters its own handler and returns true still matches, as
in the code.

### Graph requests

Tokens are counted in units, a tick refills one. `tokens` and `elapsed` are the
limiter's two fields, the latter as the distance to the clock. Of a distance that
fills the bucket several times over, `elapsed` counts only what steps back can
still take away (`Advanced`), which no refill can tell from the whole.

The limiter reads the wall clock (`Date.now`), and the wall clock may be set back
and forward. `ideal` is the bucket of `TokenBucket`, which fills with the time
that really passes. A clock that is set back gives nothing away. A clock that is
set forward is credited as time that has passed, so that the limiter grants up to
that much more than the time allows; and so it is when a clock is set back, a
refill re-anchors `lastRefillMs` (`rateLimiter.ts:103-107`), and the clock is then
put right: the time between is counted twice. `TokenBucket` says how much this
can be: the bucket is overdrawn by no more than the clock was set forward.

A caller that finds no token sleeps for what is missing and tries again
(`throttled`), so that sleepers race. `phase[c]` is where `request()` stands.
An error thrown by `jitter` or `onRetry` after a *response* is thrown inside the
`try` and reaches its `catch`, after an *error* it leaves the function:
`Notified` has both.

Graph may process a POST and answer anything or nothing: a 429 too, although a
comment (`reliableTransport.ts:152-154`) takes a 429 to say that it has not.
`landed[c]` is what Graph has done, which nobody in the system can see. A mode of
`retryPosts` names the reasons for which a POST is sent again at the risk that
Graph has it already (`MayRepeat`): a 429 in every mode, no response with a key
in `network-only`, a 5xx in `always`. When the caller is told one of them, the
attempt is taken out of `landed[c]`; what is left may be one attempt and no more
(`PostsLandOnce`). So the property does not say that Graph processes a keyed POST
once. It says that nothing but these reasons makes it do so twice, not even a
callback that throws an error of the network.

`Pagination` asks for one page after another, each by a request of its own, and
tests the limit before it looks for a next page. A page has a next with a cursor,
a next without one, or none (`Following`); the second ends the loop just as the
third does, although it announces pages, and `PagesAreAccountedFor` says no more
than that of a result that looks complete.

## 3. Runs

All bounds are constants of the configuration files.

| run | bounds | shows |
|---|---|---|
| `outbox_safety` | 2 workers, 2 items, batches of 2, 1 setback, lags beyond the lease | leases fence, ticks never kill the loop, stop drains, the queue contract |
| `outbox_live` | 2 workers, 2 items, 1 setback, lags within the lease, fair | items succeed, stop returns, redelivery has a cause |
| `keyed_send` | 3 calls, 2 keys, 2 payloads, 2 setbacks, fair | one message per key, answers agree, the contract, a claim is completed or its owner has died or was told of a failure |
| `projection_safety` | 2 processes, 3 events, 5 statuses, 2 times, 1 recording, 1 fault | the row follows its events |
| `projection_race` | 2 processes | finding: recording and an early status miss each other |
| `webhook` | 2 deliveries, 4 envelopes, 10 requests, 2 clocks, 2 setbacks, fair | at most one dispatch, a 200 leaves nothing behind, a refusal changes and tells nothing, the window, the contract, every update is handled or was lost |
| `webhook_retry` | 1 delivery, 1 setback | finding: a failed update may be suppressed on retry |
| `migration` | 3 calls, 2 releases, 3 setbacks, Postgres, fair | one migrator, in order, no old release on a new schema, the lock is given back |
| `serve` | 2 transactions, 1 plain operation, 2 closers, 2 statements each, 2 faults, fair | operations stay apart, answers are true, the serial store is implemented, `close()` drains, a shutdown cuts nobody off before its deadline and always ends, what was answered is durable |
| `serve_signals` | the same | finding: a second signal does not await the drain |
| `dispatch` | 2 envelopes of 2 updates together, 2 listeners, 2 handlers, limits 1 and 2, 1 signal, fair | registries stay sound, waiters settle once, handlers run in order, reports are true, every envelope is answered |
| `graph` | a page loop and a POST, 1 retry, 2 pages, a bucket of one token, the clock set back once and forward once, fair | the bucket and its credit, attempts counted and admitted, a POST lands once but for the reasons its mode accepts, pages accounted for, aborts stop, calls settle |

A run under the fair specification checks the safety properties as well: its
behaviours have the same reachable states. `projection_safety` and
`outbox_safety` use symmetry and check no liveness.

Why the bounds are enough. The properties speak of two actors at a time (two
workers and a row, two calls and a key, two deliveries and an update, two
callers and a bucket); a third call lets a replay meet a completion, and a third
migration call meets a lock that two others have left. One setback is met at
every point of every behaviour; two or three, where the state space allows them,
put an error inside the recovery from another one. Batches of two show a failure
with work before and after it. Times of the outbox are distances, so that only
lags are bounded, by more than a lease where leases are to run out. The first
envelope of `webhook` has something illegible of every sort, a repeated item, two
statuses of one message and more than the limit allows; both deliveries are
refused only when both signatures are wrong, which is the case
`RefusalsTellNothing` compares. Two envelopes at once are dispatched in parallel
mode with a limit of two, one envelope of two updates in both modes with either
limit. In `dispatch` and `graph` the system may come to rest, so deadlock is not
checked. For what is proved (section 5) no bound matters.

The violation runs check what the documentation says of the program, one
sentence each, and `PROJECT.json` quotes it under `findings`. None of them is a
claim about other behaviour: with one process, without lost answers, with one
signal, the same sentences hold.

Disagreements met while modelling that have no run:

- A failed tick reports a depth of 0 (`outboxWorker.ts:166`) where its type and
  `persistence.mdx:210` speak of the pending items.
- A message recorded a second time takes back the `updated_at` of its row
  (`sqlite.ts:953`; `persistence.mdx:118`). The service records each once.
- `migrate()` of the SQLite store lets raw driver errors out (`sqlite.ts:612`,
  `:625`; `persistence.mdx:65`).
- The error ledger evicts the entry that was *first* recorded, its comment says
  least recently (`packages/service/src/index.ts:806` and below).
- Two statuses of one message in one envelope have one update id, so the second
  is dropped and acknowledged (`webhookNormalizer.ts:1581`), while
  `handle-status-callbacks.mdx:10` says `onStatus` fires on every status update.
- `limitError.count` counts a change past the limit as one, whatever it holds;
  `webhook-normalizer.mdx:214` says it is the total of would-be updates. The
  adapter does not look at `limitError`.
- `pageLimitReached` is true when the last page coincides with `maxPages`;
  `pagination.mdx:85` says it is false when the pages end by themselves.
- A `next` without an `after` cursor ends a page loop with pages left
  (`pagination.ts:310`) and `pageLimitReached` false, which `pagination.mdx:85`
  keeps for an end by exhaustion; `pagination.mdx:92` says that iteration
  terminates cleanly. The result cannot be told from one that has all pages.
- `client.mdx:109` says that a POST that fails before any response "cannot have
  reached the server, so an idempotency key makes the retry safe". The type's own
  comment says that it may have (`reliableTransport.ts:33-49`), and in the model
  it does: `Process`, `Lose` and a retry make Graph process a keyed POST twice in
  `network-only`. It is safe only where the endpoint dedupes by the key.
  `PostsLandOnce` allows for it, as the code does.
- `client.mdx:97` and `reliableTransport.ts:152-154` take a 429 to mean that the
  request was not processed. That is a statement about Graph on which the retry
  of every POST rests; the model does not make it.
- The limiter counts time by `Date.now` (`rateLimiter.ts:97-107`), and a clock
  set forward lets more through than `refillPerSecond` (section 2).

## 4. Fairness

- Outbox: timers fire, the store and the handlers answer, time passes. Processes
  need not start, stop or die; setbacks are bounded, since an item whose handler
  always fails never succeeds. A handler that never settles stalls its worker:
  the code has no timeout for it.
- Keyed sends: a call that waits for the store or for Graph is answered in some
  way. Calls need not arrive.
- Webhooks: the same, and Meta posts again what was not answered 200.
- Migration: a statement is answered. Calls need not start.
- Serve: the deadline and the timeout of `close()` fire, and a settled `close()`
  is noticed. No query of the process need ever be answered. A program that
  embeds the store is promised less: `EmbeddedCallsSettle` assumes that the
  driver answers every query or reports that it cannot, since nothing in the
  code bounds that wait.
- Dispatch: the event loop goes on, predicates return and the promises of
  handlers settle. Nobody need register, cancel, abort or let a timer fire.
- Graph: time passes, every attempt is answered or times out (`timeoutMs` is
  optional in the code; without it this is up to the network), callbacks settle,
  and the consumer of a page loop takes its items. Weak fairness of a caller is
  enough although sleepers race for tokens, since a token that is lost to another
  call was taken by one of finitely many attempts.

`KeyedSend`, `SchemaMigration`, `ServeProcess` and `Pagination` write weak
fairness of an action out with its guard, `[]<>~guard \/ []<><<A>>_vars`, instead
of `WF_vars(A)`: the prover knows nothing of `ENABLED`. That the guard is the
condition under which the action can be taken is seen from its conjuncts, and was
compared with `ENABLED` by TLC in the reachable states of the runs.

## 5. Proofs

The theorems hold for any number of workers, items, calls, keys, payloads,
deliveries, envelopes, releases, operations, listeners, handlers and callers, any
lease, delays, clocks and bounds, from the named assumptions on the constants
alone. Every safety property that a passing run checks is a theorem, and so are
the refinements and some of the liveness properties.

*Outbox.* No property is inductive by itself. The invariant `IInv` adds to type
correctness what connects a worker's memory with the table: a lease in some
batch is at most the lease of its row, and a row's current lease is in at most
one batch; the stage of a worker determines whether it has a current item, a
timer, or a tick in flight; a lease is marked as succeeded only after the
handler returned for it. One lemma per action; then fencing, expiry, drain,
survival of the loop, finality and the refinement to `LeasedQueue` follow.
That a row is claimed again only after a setback is a matter of accounting: every
lease but the last is paid for by a setback, and the last is too unless the row
has succeeded or is held by a worker that has not failed on it (`Cost`).

*Keyed sends.* A row is inserted once and never deleted, so it has one owner;
only its owner was ever told "claimed", so only the owner reaches Graph, and it
leaves the sending stage with its one attempt. `RowInv` says this of rows,
`CallInv` of calls, `AnswerInv` of what was answered.

*Message projection.* `AdvanceFollowsLevel` is the heart: the two rules of the
code, rank and the exception for `failed`, come to one order. Then a row is
behind no event of those the loop has been through, and while operations have
not overlapped the loop is over before another event arrives. What was ever
reported stays reported, whatever overlaps.

*Webhook ingestion.* An update in the hands of a delivery is recorded, neither
dispatched nor lost, and in one hand only; every step is one of five things that
can happen to hands (`HandStep`). So it is dispatched once at most, and an inbox
is implemented. `Local` follows one delivery: what of its envelope is through
which loop. Who has left a trace had passed the gate (`OnlyAuthenticUpdates`). A
stored message has its own time or that of some clock, which bounds the window
from both sides (`TimesInv`, `WindowIsTrue`). `AnswersAreRight` proves
`AnswersAreTrue` as a whole. That the normalizer's loops yield a reading of the
envelope (`NormalizerIsRight`) is an induction over their turns. The induction
theorems of the library cannot be used; instead, if the loops were wrong anywhere
there would be a first turn after which they are (`WFMin` on the positions), and
one turn keeps what the loop has up to it.

*Schema migration.* The lock row names its holder, and a call between taking and
giving it back is that holder; since only the holder applies, what it compared
with its own list when it began still holds at each later step: nothing is
applied beyond its release, everything before its loop position is applied, and
so nothing is applied with a gap below it. That a refused call runs the same
`finally` is harmless because the release is conditional on the holder.

*Store and process.* A pending caller is in the chain once, operations before
closers, and only the head has begun. So when it settles nothing is under way,
the transaction it opened is the one it ends, and what is pending in it is what
it has executed; and when a closer is at the head only closers are left. Two
lemmas, for an operation that goes on and one that settles, carry all actions.
The process keeps this invariant while it lives and only its consequences
(`Sound`) after its exit, which cuts the connection anywhere. `PhaseInv` says who
can be where: until the process closes the store nobody else does, so no request
it answers was refused. For the refinement to `SerialStore` every step is a call,
a refusal, a close, or a part of the turn of the head: what a `COMMIT` makes
durable is the work of the head alone, also when the connection breaks under it
or the process exits.

*Dispatch.* `RegistryInv` ties promises, timers and hooks to the `Map` through
every way of settling. `JobInv` has a clause per phase of a dispatch: what is
behind the scan has been decided, matches number at most the limit, and those
that have run are, in sequential mode, the first of them. `LoopInv` connects the
adapter's loop with the dispatches it has awaited.

*Graph requests.* The limiter's level never exceeds that of the ideal bucket and
what the clock has been set forward (`LimiterInv`): a tick adds at most one unit
to what a refill would give, a clock set back takes from it, and a clock set
forward opens as much credit as it adds. Tokens and attempts differ by one
exactly between admission and sending, or for who has aborted (`Counted`).
Whatever a caller may send again, it was told a reason of `MayRepeat` for, so
nothing of it is left in `landed` (`Landing`). A page loop that goes on has all
the pages before its cursor, and one that has ended has its reason (`PageInv`).

*Liveness.* Where what must happen is a chain of finitely many stages, temporal
logic and one lemma per stage prove it. A stage is only left for a later one, a
fair step leaves it, and invariants say which stages are possible: a claim that
is held is in the hands of a call past the claim (`Resolution`), a call in flight
comes to its end (`CallsEnd`), a shutdown to its exit by its timers alone
(`ShutdownIsBounded`), a caller that aborts to its answer without that time has
to pass, since from every stage only those follow that listen to the signal
(`AbortsAreHeard`). Of `LockIsGivenBack` each turn of the loop is proved
(`TurnsEnd`) and that there are at most `Known[c] + 1` of them (`TypeCorrect`).

Only model-checked: the liveness properties `EveryItemSucceeds`, `StopReturns`,
`EveryUpdateIsHandled`, `LockIsGivenBack`, `EmbeddedCallsSettle`,
`EveryEnvelopeIsAnswered` and `EveryCallSettles`. Each needs an induction over the
turns of a loop, over a batch, a queue or a count of setbacks; as the formula to
be proved for every number is temporal, it can be put neither into a set, for a
least counterexample, nor into an induction theorem. Not proved either is what
`ENABLED` says of the guards in the fairness conditions (section 4).

## 6. Plan

Done: everything the table in section 2 lists. What could still be added:

1. The error ledger of the service, with the order of its eviction.
2. Dispatches that handlers start themselves, and the observers of the router.
3. A custom limiter or `retryOn`, and the interceptors of the fetch transport.
4. The two directions of a message with one id (`messages` by direction).

## 7. Not modelled

The Graph endpoints and subclients (some 15 000 lines), the field checks of the
normalizer, the send methods of the facade, validation of requests and
configuration, filters, rendering and argument parsing are functions of one
input: thousands of lines of field checks, for which unit tests are the better
tool, and the greater part of the repository, so that the share of its lines
that has a definition here stays small. Of the webhook server the GET challenge,
which compares two strings, the Node and Bun adapters and bodies that are no
streams are left out. Crypto is primitives and adapters; node media is file
streaming. The error ledger and the
metrics count and are bounded, nothing waits for them and no other component
reads them. The other commands of the CLI parse, make one request and print. The
types, internal-utils and testing packages are declarations, small helpers and
fakes. The site, examples, scripts and deployment files are not programs of this
kind. `getServiceRequest` and `recordServiceRequest` remain in the stores but no
handler calls them. The SQLite store's operations and its `close()` do their
work in one turn, so it has no chain to model.
