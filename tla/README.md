# carbon-fr: a verification development

carbon-fr serves the carbon intensity of French electricity. One server process polls
public sources (ODRÉ/RTE, ENTSO-E, Open-Meteo), stores measurements in PostgreSQL, computes
forecasts when they are read, serves an HTTP API with keys and quotas, pushes each update
over SSE and calls webhooks. One-shot commands (`backfill`, `mint-key`, `revoke-key`, ...) run
in other processes on the same database. Two client libraries, in Rust and in TypeScript,
call the API.

This directory holds TLA+ models of the parts of it that are concurrent, that must survive
failures, or that are written in several places which have to agree; the TLC configurations
that check them on small instances; and proofs that TLAPS checks for every instance.
Definitions keep the names of the Rust code where they can; `PROJECT.json` gives the source
lines of every one.

To check one configuration: `tlc -config MCWebhookStore.cfg MCWebhookStore`. To check one
proof module: `tlapm WebhookStoreProofs.tla`.

## 1. The system

| Component (code) | State | Operations | What makes it correct |
|---|---|---|---|
| Keys and subscriptions (`adapter-postgres`, `/v1/webhooks`, `mint-key`, `revoke-key`) | tables `api_key`, `webhook_subscription`; row and advisory locks | create, delete, revoke, record a delivery, purge | no orphan, quota per key, exact counts, a disabled subscription stays so, no deadlock |
| Webhook watcher (`spawn_webhook_watcher`, `domain/webhook.rs`, `adapter-webhook`) | last value evaluated, broadcast receiver, delivery tasks, permits | receive, read subscriptions, evaluate, deliver with retries, record | one notification per crossing, none repeated, slow endpoints never block the loop |
| Measurements (`ingest_recent`, `backfill`, `upsert_many`) | table `measurement` with a vintage per row | derive, deduplicate, upsert | vintages never go down, derived series agrees with the direct one |
| Rollups (`upsert_rollups`, `refresh_rollups`, poller, self-heal, `backfill`) | tables of hourly and daily aggregates | refresh one table, publish the update | aggregates count every row, and recover when they do not |
| Loads, weather, visits (`upsert_loads`, `weather_latest`, `record_visit`) | their tables, the memo of the visits | upsert, count, serve | nothing known is lost, the latest run is served, a count includes its visitor |
| Derived series (`get_consumption`, `get_price`, `factors.rs`, `price.rs`, `stats.rs`) | none: mix, flows and prices are read | current value, history, statistics | three pieces of code agree on one series |
| Scheduling (`window.rs`, `schedule.rs`) | none | advise a window or slots | covers the job, in time, and nothing is greener |
| Hydrogen eligibility (`crates/eligibility`, `eligibility_uc.rs`) | cache of the history of shares | resolve a ruleset, read, judge | firm verdicts are certain, their data are of the slot |
| Cached forecasts (`adapter-forecast`, `forecast.rs`, `forecast_acv.rs`) | map of series with expiry | look up, compute, store, re-anchor | bounded staleness, an entry serves only what it would have computed |
| Edge quota (`auth.rs`) | windows of the current minute, two key caches | resolve, remember, check | the limits hold, a revoked key dies in time, bounded memory |
| HTTP server (`serve_http`, SSE handler, `select!` of `run_server`) | connection slots, SSE permits, receivers, shutdown token | accept, answer, stream, drain | caps hold and nothing leaks, waiting clients are served, the shutdown ends |
| Routes (`handlers.rs`, `dto.rs`, `error.rs`, `export.rs`) | none; what a shared cache keeps of the answers | parse, refuse, answer | every range and version is checked, the answer is of the series asked |
| SDKs (Rust, TypeScript) | state of a stream, backoff | call, connect, read, wait | reads whatever the server may write; reconnects, does not hammer the server |
| Forecast and calibration numerics, GBDT | none | floating-point functions | out of scope |
| Source clients, OpenAPI, metrics, configuration | quota observations, counters | I/O, decoding, formatting | out of scope, their answers are inputs of the models |

How they interact: the poller writes measurements, refreshes the rollups, then sends the
latest national measurement on a bounded broadcast channel with two kinds of receivers, the
webhook watcher and the SSE streams. A receiver that lags loses the oldest updates. The
watcher reads and writes the subscriptions that HTTP handlers and the `revoke-key` process
change. Every request passes the quota middleware, which reads the keys that other
processes mint and revoke. Derived series, forecasts and verdicts are computed at each read,
in several queries between which the poller may write, and two of them are cached. A client
library knows the server only by names written a second time. `run_server` ends the process
when any of its tasks stops.

What is hard to test: statements of two transactions in an order nobody wrote a test for;
values read before a query and used after it (the list of subscriptions, the minute of a
request, the validity of a key, the snapshot of a refresh, the history of a forecast);
receivers that lag; restarts that empty what is only in memory; failures between two of the
writes of one cycle; permits that must come back on every path; boundaries of windows,
deadlines, ages and thresholds; two schemas that drift apart. `PROJECT.json` lists these
hazards, each at its line, with the properties that cover it.

## 2. The modules

### Webhook subscriptions

`SubscriptionRegistry` is the abstract specification: each operation of the two ports
(`ApiKeyRepository`, `SubscriptionRepository`) in one step.

`WebhookStore` is the Postgres adapter, one action per SQL statement: `LockOwner`,
`CountOwned`, `InsertRow`, `CommitCreate` for a creation; `RevokeLock`, `RevokeDeleteSubs`,
`RevokeDeleteKey`, `RevokeCommit` for `revoke_key`; single statements for deletion,
`record_delivery` and the purge; `Abort` and `RevokeAbort` for a failure anywhere, which also
stands for the victim PostgreSQL picks when it breaks a deadlock. `keys` and `subs` are the
committed tables, `req` and `rev` the open transactions. PostgreSQL itself (READ COMMITTED,
advisory, row and foreign-key locks, ON DELETE CASCADE) is external. Identifiers, random in
the code, are any member that names nothing at the moment. `Registry == INSTANCE
SubscriptionRegistry WITH keys <- keys, subs <- subs`, the committed tables, is the
refinement mapping.

`WebhookWatcher` composes the watcher with the registry (through `INSTANCE`, one step per
operation, which the refinement justifies). `ring` and `lagged` are the broadcast channel,
`watcher` the loop between its awaits, `task` the deliveries. `truth`, `armed` and `streak` are
history: the value that really preceded an update, whether the feed has left the condition
since the last delivery, failed deliveries since the last success.

### Measurements, rollups and the tables beside them

`Measurements` has a row and the rule by which a new one replaces it. `MeasurementBatch` is
the pure part of an ingestion (derivation, deduplication): a source answer of up to
`MaxBatch` measurements becomes the batch of one statement. `MeasurementRegister` is the
abstract specification, a whole batch in one step; `MeasurementStore` the transactions of
`upsert_many`, row by row, with row locks and aborts, and `Register == INSTANCE
MeasurementRegister WITH stored <- stored` its refinement mapping. A failed chunk aborts the
transaction it belongs to, so chunks need no action of their own.

`SideTables` has the loads, merged field by field; the runs of the weather, of which the
latest for an instant is served; and `record_visit`: the row, the memo that answers a known
visitor, the count and the storing of the memo, each a step between which another visit
may come.

`RollupRefresh` is the cycle of the poller, the self-heal and the backfill: import part by
part, some of which fail, publish, then refresh each table in two steps, the snapshot a
statement reads and the buckets it writes. `stale[t]` is the set of instants whose row the
aggregates of `t` do not count: all that a property can tell about an aggregate.

### What is computed when it is asked

`SeriesStore` is `acv-ademe@2` and the price, both made of a measurement and of a context (the
flows, the spot price) that must not be too old. The current value is the measurement
(`ReadBase`), then the price in one query (`ReadPrice`) or the flows in the two of `flows_at`, the
last instant that has some and its rows (`ReadNewest`, `ReadRows`); measurements are stored
and revised, and contexts stored, between any two. `overtaken` is history: whether the
measurement was revised, or newer flows stored, after they were read. The history is a merge of
two tables over the instants of a range whose lower end is widened (`Merge`, `History`), its own
two reads being taken at once; the statistics are taken over positions of the
history, all of them or those of one bucket (`Stats`, `Summary`, `Buckets`). The value of a point
is told apart by the instants it is made of.

`Windows` has the algorithms on the points of a forecast, one function each:
`greenest_window` with its running sum, `greenest_window_before`, `lowest_slots`,
`slots_below`, `savings_vs_now`. `Scheduling` asks them about every small forecast. Averages are
kept as totals; energies, multiples of the saving, are left out.

`Eligibility` is `crates/eligibility`: the catalogue of rulesets and its overrides, the signals
of a slot, the score, the verdict and the body of the answer. `EligibilityOverlay` is what the
handler does around it: the latest measurement, the prices and the history are read one
after the other, each read may fail (and a failed one is an empty one), the history of the
window is cached under the instant of the latest measurement, and each slot is given a share:
measured for a slot of the past, predicted within the calibrated horizon of the anchor for
a later one. Time passes during a request, up to `Lag`, after which `request_timeout` drops it
(`Abandon`). The exponential decay of the prediction is a halving per step.

### Cached forecasts

`Climatology` is the two models of the server reduced to what each point is computed from:
the instants of its samples, of its anchor, of its band, and the age of the anchor, by which the
bias fades (`exp(-dt/tau)`). Two points that are told apart in the model may have the same
value in the code, never the reverse. An entry that serves another start of its bucket keeps
the fading of the start it was computed for, as the comment of `reanchor` says:
`ServedAsComputed` allows that difference, less than a bucket, and no other. `ForecastCache` is
`CachedForecaster`: `Ask` looks up, `ReadMix` and `ReadFlows` are the queries of the model,
`Finish` computes, stores and answers; measurements arrive (`Ingest`) and the clock advances
in between. `arrived` is the instant at which a measurement was stored. The last answer is
visible for one state only, in which the properties judge it.

### The client libraries

`SdkStream` is the live stream of both libraries: `connect`, the reading of frames under a
deadline that any byte re-arms, the delay that doubles. What differs between Rust and TypeScript
is a disjunct of its own: after a refusal (`Refused`, `RefusalRead`), for the first delay (`Slept`),
while the caller has an event, when TypeScript has no deadline (`Resumed`), and in the race of
a deadline with what has arrived. The caller polls when it likes: `Tick` may expire a deadline
whose bytes have arrived; Rust reads them, TypeScript may turn to the deadline first. The server and the network are external: a
permit per stream, a keep-alive, refusals, resets, a connection that swallows everything
(`cut`), permits of dropped connections that come back later (`ghosts`). `StreamClient` is
`SdkStream` under names that can stand beside those of `HttpServer` and `ApiContract`.

`Wire` is the vocabulary of the schemas; `ApiSchema` has one definition per structure of the
server's `dto.rs`, `SdkSchema` one per structure of the library's `dto.rs`, each a function from
fields to a type and to when the field is present. A definition stands for the structure
and for the conversion that fills it, whose values are abstracted: what it keeps is which
fields there are, and when they are missing or null. `ApiRoutes` has the handlers of `GET` and
of the webhooks as functions from the parameters of a request to what they refuse, the
series and the range they read, and the outcome of each state of the database; `SdkCalls`
the methods of the library: route, parameters, options, result. `ApiContract` composes them:
a request of the library, or of anybody, is answered by the server, by a shared cache or by
a gateway, and its answer is read by the library. A document is an ordinary one but for one
field, which holds any value the server may write there, a word of a later release included.

### Edge quota

`ApiQuota` is `enforce`: each critical section of `RateLimiter` and of the caches is one
action, the resolution of a key is a query during which anything may happen, and a request
keeps the time it read on arrival. A request may be dropped while it waits (`Disconnect`).
The clock ticks at any moment; a minute is a constant number of ticks. `straddled` and
`charged` are history.

### HTTP server

`HttpServer` is the accept loop of `serve_http` (`loop`, `slots`), one state machine per
connection (`conn`), the SSE permits, one broadcast receiver per stream (`pending`), and the
end of the process (`cancelled`, `exit`). The request of a connection is a single step to be
answered; filters of a stream may drop any event. A client that disappears without closing
(`Vanish`) keeps its slot and permit until the kernel gives up (`GiveUp`), as the comment of
`hold_permit` says. The poller sends the latest measurement in every cycle, new or not, so
`Publish` may repeat an instant. `seen` is history: the instant of the last event of a client.

### MC and proof modules

`MCWebhookStore`, `MCWebhookWatcher`, `MCRollupRefresh`, `MCApiQuota`, `MCHttpServer` and
`MCForecastCache` extend the module of their name with symmetry sets and constant functions.
Four others check several modules in one run; a behaviour is one of a single one of them,
chosen in the initial state by a variable that never changes, while the variables of the
others stand still: `MCMeasurementStore` (`subject`: the writers, `MeasurementBatch`,
`SideTables`), `MCStoreAndQuota` (`part`: `MCMeasurementStore`, `ApiQuota`), `MCAnswers`
(`subject`: `SeriesStore`, `Scheduling`, `EligibilityOverlay`) and `MCSdk` (`half`:
`StreamClient`, `ApiContract`).

Eight modules hold the proofs, each of which extends what it is about: `WebhookStoreProofs`,
`WebhookWatcherProofs`, `MeasurementStoreProofs` (with `MeasurementBatch` and `SideTables`),
`RollupRefreshProofs`, `ApiQuotaProofs`, `ForecastCacheProofs`, `HttpServerProofs` (with
`StreamClient` and `ApiContract`) and `AnswersProofs` (with `SeriesStore`, `Scheduling`,
`EligibilityOverlay`).

## 3. The runs

| Run | Checks | Instance, and why it is enough |
|---|---|---|
| `webhook_store` | `QuotaRespected`, `RevocationCountExact`, `DisabledIsFinal`, `OnlyJustifiedRemoval`, refinement of the registry; `TransactionsEnd` | 2 keys, 2 identifiers, 2 requests, 1 revocation, quota 1: two creations race for the only place, a creation and a revocation of one key overlap, and another key is there to be left alone; three transactions are enough for every cycle of the three kinds of locks |
| `webhook_watcher` | `NotifiesExactlyOnCrossings`, `NoRepeat`; `NothingStalls` | 3 values around 2 thresholds, ring of 1, 1 permit for 2 tasks, 2 attempts, both kinds of outage: updates cross one threshold or both, lag and saturation occur |
| `webhook_lost_outcome` | violation, see findings | 1 subscription disabled at 2 failures |
| `store_and_quota` | `AcvMatchesRte`, `VintageNeverDown`, refinement of the register; `OneStatement`; `NothingForgotten`, `VisitCounted`; `Bounded`, `KeysObeyed`, `QuotaUnlessStraddled` | 2 writers on both series of 1 instant: rows of different instants never interact, and two rows already make lock cycles. All answers of up to 3 measurements over 2 instants, in all states of one instant: three are enough for an older vintage between two newer ones. Batches of up to 3 loads; 3 instants and 2 runs of the weather, so that two forecasts may be as close; 2 visits at a time. Of the quotas: 2 requests, 1 address and 2 keys for 1 tracked bucket (the overflow bucket is shared), caches of 1, 2 minutes of one tick, a TTL of one minute as in the code: a request may span the change of minute and a key may be minted, revoked and forgotten |
| `rollup_refresh` | `ExactUnlessSpoiled`, `UpdatesForward`, `RecentRecovers` | poller and backfill over 3 instants in 3 hours and 2 days, one of them before the window of the poller; 2 parts per run; every failure and a crash |
| `rollup_overlap` | violation, see findings | poller and self-heal without any failure |
| `answers` | `RangesAgree`, `NowMatchesHistory`; `AdviceIsBest`; `VerdictIsCertain`, `PillarsAtTheirSlot`, `QuietMeansCurrent` | 3 instants, two contents of a mix, a context fresh for 1, a margin of 2: a mix is revised and newer flows come between two queries, the first points of a range need a context from before it, and an age is exactly the greatest. Every forecast of up to 4 points of 2 values and 2 margins, with every duration and deadline up to its end and between its slots. 3 instants of measurements, the last of them empty at first, around a window of one step, a clock that runs during a request, requests that start before, one step before and after the latest measurement, under each ruleset (one of which is only planned, and refused) and override: a threshold of intensity equals each bound of an interval (64 g), one of surplus the price (20), one of shares a share |
| `eligibility_step` | violation, see findings | the verdicts of `answers` alone |
| `forecast_cache` | `ServedAsComputed`, `StalenessBounded` | 2 requests, 2 models, 2 instants of history, one of which may come late, a horizon of one step (a point is computed and moved without regard to the others), one start on the grid of the bucket and two beside it that share an entry and are re-anchored by one instant, 1 entry for 2 keys in demand, a TTL and a lag of 1: entries expire, are evicted, are stored in the wrong order |
| `sdk` | `DelayFitsFailures`, `GivesUpForCause`, `StreamComesBack`; `AnswerDecoded`, `CallsUnderstood`, `VersionServedAsAsked`, `ReadsBounded` | both libraries and both policies, 2 permits, 2 unread frames, 3 faults, delays 1, 2, 4: the cap of the delay is reached. Every route with any value of any two parameters, or all options at once; every field of every document with any value |
| `api_quota_late` | violation, see findings | 1 address, 2 minutes of 2 ticks |
| `http_server` | `CapsKept`, `ForwardOnly`, `DrainEnds`, `BacklogServed` | 3 clients for 2 connections of which 1 may be a stream, ring of 1: somebody always waits, a receiver lags at the second update |

The largest are `forecast_cache` (2.3 million distinct states) and `answers` (1.4 million); each run ends within four minutes with two workers.

Each module has a `TypeOK` (`QuotaTypeOK` in `ApiQuota`), the first conjunct of the invariants that are proved; the runs spend
their properties elsewhere. Bounds that the code does not have: `Slots` (delivery tasks alive, at
least one more than the permits), `MaxTime`, `MaxStamp`, `MaxBatch`, `MaxWrites`, `MaxFaults`,
`MaxPoints`, `MaxInstant`, `Unread`. Vintages are the three of the code. The values of limits
(quota, permits, attempts, caps, spans of a cache) are constants of the code made small; those
of `ApiRoutes` (366 and 92 days, 72 hours) are the ones of the code.

Deadlock is checked in every run.

### Findings

Four runs expect a violation; each shows a comment or an ADR that says more than the code
does, and the neighbouring passing run states what the code does guarantee.

- `webhook_lost_outcome`: the outcome of a delivery is lost when the database is down. The
  comment says it can only delay a deactivation; a lost success leaves earlier failures
  counted, and the subscription is disabled early.
- `rollup_overlap`: two refreshes may overlap, and the one with the older snapshot may write
  last. Aggregates are not always exact between runs; `ExactUnlessSpoiled` and
  `RecentRecovers` are what holds.
- `api_quota_late`: a request whose key is resolved across the change of minute calls `purge`
  with the old minute and erases the windows of the current one. `QuotaUnlessStraddled` is
  the quota that holds.
- `eligibility_step`: a slot exactly one step before the latest measurement is given the current
  share (`share_of`, `<=` in `eligibility_uc.rs`); the header, the comment of `NOWCAST_COVERAGE`
  and a test say that the current share is for slots less than a step before it, and that
  an older slot has its own. `PillarsAtTheirSlot` is what holds.

Seen while modelling, and written into the models as the code has it:

- `StreamComesBack` holds in Rust except while the body of a refusal is read, which no deadline
  bounds (`RefusalRead`), and in TypeScript except after a definitive refusal, which ends it.
- A measurement may stay unseen by a cached forecast for the TTL and the time of a
  computation, since `stored_at` is the instant of the storing: the bound of
  `StalenessBounded` is that sum, and not the TTL alone. The same holds of the history of
  shares, and `QuietMeansCurrent` waits for a TTL and the duration of a request.
- A current value of `acv-ademe@2` may be of flows older than those the history has by then, and
  may have a mix since revised (`overtaken`): no reader locks anything.
- The first delay of the Rust stream is `initial_backoff` even when that is more than
  `max_backoff`; the TypeScript one is capped. Neither library asks that one be less than the other.
- In TypeScript the idle deadline races the read, so a stream may be given up with bytes already
  there, when the event loop comes back late; the Rust one reads them (`GivesUpForCause` tells
  the two apart).
- An attempt whose answer is lost is made again: nothing promises that an endpoint sees a
  delivery once, and no property claims it.
- An import of seven days that starts before midnight and is refreshed after it leaves its
  first, partial day out of the aggregates. No property covers this hazard, since the days of
  `RollupRefresh` do not move; nor the refusal above whose body nothing in the code bounds.
  They are the two of the list without one that would catch them.
- The history of shares behind a verdict begins at its window (`ShareHistoryCache`): a slot at
  its first instant is not given the measurement just before it, although `NOWCAST_COVERAGE`
  would let it, unless an earlier slot of the request has that measurement read too.

### Fairness

Safety properties assume none. The liveness properties assume:

- `WebhookStore`: every statement in progress ends, and PostgreSQL grants a lock that is free
  again and again (strong fairness of the steps that wait, weak of the others). A request
  is not assumed to come, nor a failure to stop.
- `WebhookWatcher`: the runtime schedules the loop; nothing of the endpoints. Only the second
  half of `NothingStalls` also assumes, as its premise, that attempts end, which their timeouts
  ensure.
- `RollupRefresh`: the two tasks of the server tick again (`tokio::time::interval`) and
  statements end (`statement_timeout`). A backfill need not be launched.
- `SdkStream`: the caller polls, time passes, the server sends its keep-alive and notices lost
  connections in the end; an answer is strongly fair, which assumes that a server that has
  room does not answer every attempt after its deadline, and so is its being read (`Opened`),
  since in TypeScript a deadline that has passed may win over it. `StreamComesBack` has the
  health of the server as its premise, and nothing of the network.
- `HttpServer`: tasks are scheduled, requests end (`request_timeout`), the kernel gives up on a
  lost peer; `Accept` is strongly fair because a listening socket is first come, first
  served; `HeaderTimeout` is strongly fair, which assumes that a kept-alive client now and
  then pauses longer than `header_read_timeout`. A client that keeps its connection busy for
  ever does hold its slot for ever: `BacklogServed` does not claim otherwise. `GraceOver` has
  no fairness: `DrainEnds` says that the drain needs no rescue.

## 4. The proofs

Every safety invariant and every action property that a passing run checks is a theorem, for
every value of the constants that satisfies the named assumptions of the modules:
`StoreAssumption`, `WatcherAssumption`, `MeasurementAssumption`, `InstanceAssumption`,
`RollupAssumption`, `QuotaAssumption`, `CacheAssumption`, `ServerAssumption`, `ClientAssumption`
(the `StreamAssumption` of `SdkStream`), `RoutesAssumption`, `OverlayAssumption`,
`SeriesAssumption` and `ScheduleAssumption`. They ask for finite sets, positive limits and distinct
model values, and for what the constants of the code satisfy: the window of a refresh starts at
a midnight, so no bucket has rows on both sides (`RollupAssumption`); the idle timeout is longer
than the keep-alive (`ClientAssumption`); the buckets of the cache divide the steps and the week
of the models (`CacheAssumption`); a key is allowed as much as an address (`QuotaAssumption`);
slots of shares are at least a minute apart (`OverlayAssumption`); a spot price is too old before
the range of its history is widened that far (`SeriesAssumption`); what does not parse is no date
(`RoutesAssumption`). What the code does not enforce is not assumed: the first delay of a
stream may be more than its greatest, and a mix may be revised at any time. The bounds of an instance are parameters like the others.

- `WebhookStoreProofs`. `TypeCorrect`, `StoreSafety` (`NoOrphan`, `QuotaRespected`,
  `CounterConsistent`, `RevocationCountExact`), `RevocationsCounted`, `DisabledStaysDisabled`,
  `RemovalJustified`, and `Refinement`: the transactions implement the registry. None of the
  properties is inductive. `IInv` adds that locks exclude each other (`LocksExclude`), that a
  locked key still exists (`LockedKeysExist`, which gives `NoOrphan` at the commit of a
  creation), that uncommitted rows have identifiers of their own (`InsertedRows`), and that a
  counted owner has room until its row is in (`RoomAfterCount`, which gives the quota).
- `WebhookWatcherProofs`. `TypeCorrect`, `NeverRepeats`, `NotifiedOnCrossings`. `WInv` has the
  shape of the registry, of the loop and of the deliveries, and two parts that do the work.
  `Feed`: the watcher misses an update only just before the oldest one it has not read, and is
  told so before it reads that one, so the baseline of an evaluation is the value that really
  came before it or nothing. `Baseline`: a baseline off a condition means that the feed has
  left the condition since the last delivery, so a crossing cannot be notified twice.
- `MeasurementStoreProofs`. `TypeCorrect`, `PairsAgree`, `VintagesRise` and `Refinement`: a commit
  is a batch step of the register because the row that a transaction has prepared is still
  the upsert of the committed row (`PreparedCurrent`), which holds because its key is locked.
  `StatementIsOneByOne`: both folds of a batch, deduplication and merge, have a closed form, the
  greatest vintage of a key and the last part of it, which upserting one by one has too.
  `VisitsCounted`: whatever is told, kept by a request or memorised was counted over rows
  that are still there, the row of the visitor included once it is in (`VisitInv`).
  `NothingIsForgotten`: the forecast served last is still a row (`ForgetInv`).
- `RollupRefreshProofs`. `TypeCorrect`, `AggregatesExact`, `UpdatesGoForward`. `RollupInv` says
  that, while nothing has spoiled the aggregates, what is committed after the snapshot of a
  statement is stale (`MissedIsStale`), no two runs are in the same statement (`Exclusive`), and
  every stale row is one that a run in progress still covers (`StaleIsCovered`).
- `ApiQuotaProofs`. `TypeCorrect`, `MapsBounded`, `KeysFollowed` (`KeysObeyed`: a revoked key is
  refused and a minted one accepted, one TTL later) and `QuotaHolds`. `KeyInv` ties what a
  request has read to the time it read on arrival, and each cache entry to the life of its
  key: an entry of a revoked key expires at most one TTL after the revocation because it
  was dated before the query. `LimiterInv` says that all windows are of the minute of the last
  purge and count what was served. `BoundInv` bounds the tracked buckets other than the overflow
  bucket.
- `ForecastCacheProofs`. `TypeCorrect`, `AnswersAsComputed`, `StalenessHolds`. `CacheInv` ties each
  entry to its key (`EntryOK`: its points are what its own start gives from the history read for it; a
  request of this key differs from it by a start within one bucket, hence by the fading of the
  bias over the move and nothing else) and to time (`EntryRecent`: what an entry leaves out was stored after the
  computation began to read, at most a lag before the entry was stored), says the same of each
  request on its way (`RequestOK`, `RequestRecent`), and bounds the map (`Sized`).
- `HttpServerProofs`. Of the server, `TypeCorrect`, `CapsHold` and `EventsForward`. `CapsKept` is
  inductive with the types: each step moves at most one connection in or out of the sets that
  hold a slot or a permit. For the order, `OrderInv` says that what a receiver has not read is
  sorted and lies between what its client has seen and the latest measurement.
  Of the stream, `ClientTypeCorrect`, `StreamKept` and `DelaysFit`. `ClientInv` says that, while a
  sound connection has nothing to be read, the time left before the deadline and the time since
  the server last wrote add up to at least the idle timeout (`DeadlineInv`), so the keep-alive
  comes first; `DelayInv` that the delay to come is the doubling applied once per failure.
  Of the calls, `ReadsStayBounded`, `VersionServed` and `CallsAreUnderstood`: the handlers are
  sound for any request at all, and `CallInv` keeps, of a request, that its names are read by its
  route. `AnswersAreDecoded` needs that the two schemas agree (`SchemasAgree`): each pair of
  structures has the same fields, the library's type of a field reads everything the server's
  writes (`Matches`), and the pairs are closed under nesting. `ReadInv` then follows a call: what
  is kept for it, its answer, its document, its result.
- `AnswersProofs`. Of the verdicts, `QuietIsCurrent`, `PillarsMatch` and `VerdictsAreCertain`, from
  `OverlayInv`: what each read of a request may have seen of the tables since it began, and that
  a cached history is what its table holds unless the table was disturbed since. Of the
  advice, `AdviceHolds`: the running sum of a window is the sum over its points, the first least
  one is the greenest, and the rank of a slot is the number of slots before it. Of the series,
  `NowIsHistory` and `RangesHold`: the points of a range are those measurements of it that
  the last fresh context serves, whatever the range, because the merge carries its context over
  the instants in order (`Cut`, `MergeStep`); buckets and summaries are totals over the same
  points.

Theorems about refinement and action properties are derived from the inductive invariant by
one lemma per step. A fold, or a recursive function, is defined as the function that satisfies an
equation: the proofs exhibit one that does, in closed form or built one position at a
time, show by a least counterexample among finite sets that there is no other, and go along
positions with one lemma of their own (`Onwards`), since the induction theorems of the library
cannot be instantiated here. `Wire` defines the union of two schemas, `@@`, itself, so that the
provers can unfold it.

Only model-checked: the liveness properties (`TransactionsEnd`, `NothingStalls`,
`RecentRecovers`, `DrainEnds`, `BacklogServed`, `StreamComesBack`), since fairness is out of
the reach of the prover; and what the four runs that expect a violation refute. The
assumptions themselves are evaluated by TLC on each instance.

## 5. Not modelled, and the plan

Partly modelled:

- Rollups: the days of a refresh do not move (a clock would cover the midnight hazard above).
- Measurements: the slicing of a backfill (`slice_range`), the regional series, which derives
  nothing, and the older `IngestLatest`.
- Eligibility: the backtest that calibrates the bands of the share, and the variant
  `share_meteo`, are numerics.
- Routes: the values of documents, the rows of a CSV, the OpenAPI document, the page.
- TypeScript SDK: its typed calls, a second copy of the ones of Rust.

Not modelled:

- Forecasting and calibration mathematics (decay, quantiles, backtests, GBDT): floating-point
  functions of which TLA+ has no useful counterpart.
- Source clients: building requests and decoding formats; their answers and failures are the
  inputs of `RollupRefresh` and `MeasurementBatch`. Their paging, retries and the filling
  of ENTSO-E curves could be modelled as the algorithms of `answers` are.
- Start-up, configuration, metrics that are only exported, deployment files.

No safety property of a run is left without a theorem. What would come next is in the models: a
clock for the days of `RollupRefresh`, with the midnight of its imports, and the typed calls of
the TypeScript SDK, a third schema to relate to `ApiSchema` as `SdkSchema` is.
