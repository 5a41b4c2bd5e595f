# Verification of the Xiaomi token-plan proxy

TLA+ models of the proxy in `src/`, the TLC configurations that check them on
small instances, and TLAPS proofs of what matters most for instances of every
size. The proxy is a Rust (axum/tokio) service that takes OpenAI and Anthropic
requests from clients with a client key, and forwards them with one of a pool
of *downstream keys* that it rotates, cools down and retries.

## 1. The system

| Component | State | Operations | Talks to |
|---|---|---|---|
| Key pool, `proxy/key_pool.rs` | the `Vec` of keys (write/read lock), per key the atomics `weight`, `healthy`, `consecutive_errors`, `request_count`; the cursor (mutex) | `new`, `acquire_key`, `report_success`, `report_failure` (spawns a recovery task), `add_key`, `remove_key`, statistics | called by the retry loop, the forwarder and the admin handlers; the recovery task touches the atomics without a lock |
| Retry loop, `proxy/retry.rs` | `attempt`, `last_error` | `with_retry` | the pool, the downstream server |
| Forwarder, `proxy/forwarder.rs` | none of its own | `forward_request`, `forward_streaming` | retry loop, pool, server |
| Rate limiter, `proxy/rate_limiter.rs`, `middleware/rate_limit.rs` | a bucket per client key | `check` (`cleanup_stale` is never called) | the clock |
| Key tables, `state.rs`, `handlers/admin.rs`, `storage/db.rs` | tables `client_keys` and `downstream_keys` in a remote database; the client-key set and the pool in memory | start-up load or seeding, add and delete client key, add, update and delete downstream key | database, pool, authentication |
| Request log, `handlers/openai.rs`, `handlers/anthropic.rs`, `storage/db.rs`, `handlers/admin.rs`, `admin_dashboard.html` | table `request_logs`; the dashboard's offset, table and button | record a request (detached task), query a page, refresh, load more | database |
| Authentication, `middleware/auth.rs`, `basic_auth.rs` | the client key a request was let in with; otherwise none | look a key up in the client-key set, compare credentials | the client-key set (read lock) |
| Routing, `router.rs`, `middleware/logging.rs`, `error.rs` | none | the order of the layers around each handler | authentication, limiter, handlers |
| Configuration, `config.rs` | read at each start, constant after it | merge file and environment | key tables, retry loop |
| Life cycle, `main.rs` | serving, draining, exited | start, signal, graceful shutdown | every connection |

What makes it hard: the pool's flags are relaxed atomics read and written with
different locks, or none; recovery is a detached timer that nothing cancels; a
client can vanish at any `await`; admin changes are made in two places in turn,
the first of them behind a network; the rate limiter's clock is read outside
its lock; a key is looked up once and revoked while its request waits; the log
is paged while it grows; a shutdown waits for connections and for nothing else.
`PROJECT.json` lists each hazard at
its line with the properties that watch it.

What would make each component correct:

* pool: a key out of rotation always comes back, a key that reached the
  threshold is out, the shares follow the weights, healthy keys are found;
* retry and forwarding: a bounded number of exchanges, none after a completed
  one, one fitting answer, nothing left behind by a disconnect;
* rate limiter: no more admissions than accounted for, honest `retry-after`;
* key tables: memory and table agree, revoked keys stay revoked;
* request log: a reader who pages to the end has seen every row;
* all together: what a client makes the servers do is bounded by its tokens, a
  revoked client starts nothing new, a shutdown comes to its end.

## 2. The modules

```
WeightedPick ─┬─ KeyPool ─┬─ KeyPoolHistory ── KeyPoolProofs
              │           └─ Forwarder ─────── ForwarderProofs
              └─ RoundRobin ────────────────── RoundRobinProofs
RateLimiter ─┬─ Gateway ────────────────────── GatewayProofs
             └─ RateLimiterProofs
RequestContract
KeyTable ───── KeyTableProofs
RequestLog ─── RequestLogProofs
RetryDelay ─── RetryDelayProofs
```

A line is EXTENDS. The proofs about a module that extends another also extend
the proofs about that other, and use its theorems. Besides, `Forwarder` and
`Gateway` instantiate `RequestContract` (the first implements it, the second
uses it), and `KeyPoolHistory` instantiates `RoundRobin`, which it implements;
`KeyPoolProofs` instantiates `RoundRobinProofs` to carry its theorems over. Each `MC` module only gives
constants to the module it is named after; `MCKeyPool` extends
`KeyPoolHistory`, so that one state space serves both.

**WeightedPick** is the arithmetic of `acquire_key` on a list of weights: the
filter that makes the list of candidates, the
running sum in a u32 (`U32` is a constant, 2^32 in the program; the release
build wraps), the cursor reduced by the total, the entry it falls on.

**KeyPool** is the pool at the grain of its locks and atomics. `pc[t]` is where
caller `t` is: `scan` (holding the mutex and the read lock; one `Scan` step per
flag), `using` (holding an acquired key), `marking` and `spawning` (inside
`report_failure`). `recover[k]` holds the ticks left to each sleeping recovery
task, `resetting[k]` the tasks between their two stores. The write lock of
`add_key` and `remove_key` is `NoReader`; their stores are one step since only
a recovery task could come between, and it stores the same values. A removed
key's recovery tasks act on an object nobody reaches and are dropped from the
model. `consecutive_errors` is counted up to `Threshold`, above which the code
makes no difference. Relaxed atomics are modelled as sequentially consistent:
each is used by itself and the locks order the rest, except the two stores of
the recovery task and of `report_failure`, for which other threads' views of
the order are not modelled.

**KeyPoolHistory** adds history variables to it (which keys were up, or out,
during the whole scan; how long a key has been out; whether a recovery task
was asleep when it was tripped; how often each key was lent). They constrain
nothing.

**RoundRobin** is the pool with one acquisition as one step and free health
changes, to count picks within a *window* (no change to list, weights or
health). The cursor comes from the window before. An acquisition during which
a flag was stored to (`AcquireAmidStores`) has seen some flags from before the
store and some from after: it moves the cursor by the candidates it saw, and
opens a window. `KeepsRotation` states that the pool implements this: each
`Lend` of `KeyPool` is `AcquireKey`, counted, if no flag was stored to during
its scan, and otherwise `AcquireAmidStores`; a store that changes a flag is
`FlipHealth`, `add_key` and `remove_key` are themselves, and all the rest
stutters. `order`, `weight`, `healthy` and `rr` are the pool's own variables and
`picks` is a history variable, so the mapping is the identity.

**RequestContract** is what a client may count on, without keys, retries or
statuses. **Forwarder** is `with_retry` and `forward_streaming` as callers of
`KeyPool`: each handler step that calls the pool takes the pool's own step
together with its own. `ctl[t]` is the place in the handler. A server may end
an exchange as `success`, `retryable` (429, 502, 503, 504), `rejected` (any
other status) or `transport` (no answer, timeout). `Disconnect` drops the
handler's future at any of its awaits. The calls of the pool do not await. Two
history variables look at the exchanges and not at the pool's counts:
`streak[k]` is how many exchanges with `k` have failed in a row, as the server
and the network see it, and `muted[k]` whether one of them was not reported as
a failure.

**RetryDelay** is `calculate_delay` and the sleeps of `with_retry` with the
integer arithmetic of the build: `W` bits stand for the 64 of a u64, and
`checked` for a build that panics on overflow instead of wrapping. `base`
starts as any value of the type, as a configuration may set it.

**RateLimiter** is `check` in two steps: read the clock (`Ask`), then work on
the locked bucket (`Admit`, `Reject`). Amounts are integers, a token is `Unit`;
rounding of f64 is not modelled. `Rate` may be zero, as `requests_per_minute`
may, and so may `Burst`, as `burst_size` may. The limits are those of the configuration: the
`rate_limit` that the dashboard stores with a client key is shown but never
enforced by the code, and no action reads it.

**Gateway** is the path of a request through the layers of `router.rs`, in
their order: `Authenticate`, then `RateLimiter`'s two steps, then the body and
the handler, then the response. It extends `RateLimiter` and instantiates
`RequestContract` for the exchange, each step of which is taken together with
the step of the request it belongs to; `Forwarder` shows that the contract is
what the code does. Meanwhile keys are issued and revoked, clients stall or
vanish, and a signal starts the shutdown, which waits for every connection:
those of the clients, and those of `admins`, the calls of the admin routes that
await the remote database. `IssueKey` and `RevokeKey` are how such a call ends
if it changes a client key, `EndAdmin` how it ends otherwise.
`place[t]` is how far the request of task `t` has come.

**KeyTable** stands for both key tables: they are kept the same way (statement,
await, change of the copy). `db` is the table, `memory` the copy, `stage` and
`stmt` each admin handler, `orphans` the statements whose handler is gone and
which the remote database may still execute. Every start reads a configuration
out of `Configs`, which may differ from that of the last start. `tainted` marks
the keys about which two statements overlapped or a reply was lost, `phantom`
those that were updated without having a row. Entries of the configuration are taken to be
distinct, with weight 1.

**RequestLog** is the recording of requests and the dashboard's log page. Two
of the five endpoints record a request, and only one that is not streamed.
`rows` is the table in the order of `query_logs`; within one second (`fresh`)
the database orders as it likes. `load` holds the page loads under way: sent,
then read by `get_logs`, then shown, in any order, or failed.

## 3. The runs

| Run | Checks | Instance |
|---|---|---|
| `key_pool` | `TypeOK`, `CoolingKeyWillRecover`, `ThresholdTrips`, `LoopAlwaysFinds`, `SteadyKeysDecide`, `KeepsRotation`, `CooldownHonoured`, `EventuallyRecovers` | 2 keys, 2 callers, weights 1 and 3 modulo 4 (so that the total can wrap to zero), cooldown 2, 2 recovery tasks per key, windows of 2 picks |
| `cooldown_cut_short` (violation) | `CooldownFull` | the same with weight 1, 3 recovery tasks |
| `round_robin` | `RRTypeOK`, `ExactShare` | 3 keys, weights 0 to 3 modulo 7 (totals 7, 8, 9 wrap), 13 picks: two full rounds of the largest total |
| `forwarder` | `FTypeOK`, `ImplementsContract`, `CooledForCause`, `OnlySilenceHides` | 1 key, 2 handlers with 2 requests each, 1 retry, all outcomes, both kinds |
| `stream_errors` (violation) | `FailuresCool` | the same, streams only |
| `retry_delay` | `DTypeOK`, `WaitBounded`, `OverflowIsAgesAway`, `BacksOff` | a type of 6 bits, every base, 8 retries, both kinds of build |
| `rate_limiter` | `TypeOK`, `AdmissionsAccounted`, `RetryAfterSuffices` | 1 client, 3 overlapping requests, burst 2, clock to 7 |
| `rate_honoured` (violation) | `RateHonoured` | the same |
| `gateway` | `GTypeOK`, `OnlyIssuedKeysHaveBuckets`, `LoadBounded`, `RevocationBites`, `ShutdownCompletes` | 1 client, 2 connections, 2 exchanges per request, burst 1, clock to 1, 1 admin call at a time |
| `key_table` | `TypeOK`, `MemoryFollowsTable`, `RevokedIsGone` | 2 keys, 2 administrators, weights -1 and 2 modulo 3, 1 orphan, a configuration that is edited (one key, or none) |
| `revoked_stays` (violation) | `RevokedStaysBlocked` | 1 key, configured at every start |
| `request_log` | `TypeOK`, `PagesCoverTheLog`, `RepeatsAccounted` | 5 requests to any of the 5 endpoints, pages of 2, 2 loads at a time |

Why these bounds show the interesting cases. Two keys and two callers give
every overlap of a report with a scan, a recovery, another report and an admin
call; three errors trip a key, and the threshold is the code's own 3. Two
recovery tasks on one key are the least that lets a stale timer meet a fresh
trip. Two picks in a window are the least that shows one acquisition continuing
the window of another, from every cursor; that the counting is right over whole
turns is the business of `round_robin`. With one key the forwarder can empty the pool by its own failures,
which is the hard case of `with_retry`, and
four requests of two exchanges each make rows of failures across requests,
broken and not. Three overlapping requests are the
least that lets a bucket be set back and then refilled twice, with another
request in between. Two connections of one client are the least that let one
request be let in on a key that is revoked, issued again and revoked while the
other is under way. One admin call at a time changes keys at every moment of
a request and is still there when the signal comes. A type of 6 bits meets every kind of overflow within 8
retries: of the power, of the product and of the sum. Five requests and pages
of 2 give a full page, a second one and a remainder, with the log growing
before, between and after them. The bounds are named constants (`MaxRecoveries`,
`MaxPicks`, `MaxRequests`, `MaxClock`, `MaxOrphans`, `MaxAdmins`, `Slots`, `MaxShown`) and
stand in the guards.

Symmetry is used over callers, keys or requests where no liveness is checked.
The deadlock check is off in `gateway`, where the process exits, and in
`retry_delay`, where `with_retry` returns; everywhere else it is on.

**Fairness.** `KeyPool!Fairness`: time passes; a recovery task whose sleep is
over runs (the tokio runtime polls ready tasks); a call into the pool, which
never awaits, runs to its end. Callers owe no report and administrators
nothing. `Forwarder!FFairness` adds that a handler does not stop for ever: the
HTTP client has a timeout (`state.rs`), a sleep ends, locks are held for
bounded work. Clients need not make requests and may vanish. `GFairSpec`: the
server's own steps for a request (`Serve(t)`) are taken, and the drained
process exits. Clients, servers that keep a stream open, administrators and the
database owe nothing, and a signal need not come: that a stream ends is the
timeout of the HTTP client, part of `SendResponse`. That timeout does not cover
the remote database, and nothing else does, so no admin call need ever end.
`ShutdownCompletes` is therefore conditional: a shutdown comes to its end if
from some moment on nobody keeps a connection open (`Unheld`), no stalled
client and no admin call. It is a statement about the proxied requests, which
may then neither deadlock nor go on for ever; the code promises nothing more.

### What the code does not do

The four runs that end in a violation each refute a sentence of the project's
documentation, comments or interface (quoted in `PROJECT.json`):

* `CooldownFull`: a key is *not* always out for the 60 seconds its log line
  announces. A recovery task is never cancelled, so one left from an earlier
  trip ends a later one early. What does hold is `CooldownHonoured`.
* `FailuresCool`: `forward_streaming` returns a transport error before any
  report, so a key that fails every stream that way is never cooled.
* `RateHonoured`: a request overtaken between clock and lock sets `last_refill`
  back, and time already credited is credited again. `AdmissionsAccounted`
  says exactly how much that can give.
* `RevokedStaysBlocked`: seeding is triggered by an empty table, so after the
  last key was revoked a restart accepts the configured keys again. Keys that
  are not configured stay out (`RevokedIsGone`).

Met on the way and excluded by name from a property: a PATCH of a key that has
no row puts it into the pool only (`phantom`); statements of two administrators
about one key can reach table and memory in opposite orders (`tainted`); a
failed load makes the dashboard skip a page (`orderly`). Non-retryable errors
such as 401 and 500 count as successes for the key (`PassRejection`) and would
refute `FailuresCool` too; `OnlySilenceHides` says that these and the transport
errors of streams are the only gaps. With `burst_size = 0`, which the
configuration accepts, the limiter rejects every request for ever and names a
finite wait each time: `RetryAfterSuffices` is false there and excepts it.
Streams and three of the five endpoints are never recorded (`Serve` of `RequestLog`).
The configured keys are only used while the table is empty, and a seeding that
broke off half way is never completed, since the table is then not empty. The
dashboard's three counts are read under three locks, so the number of cooling
keys it subtracts can be off, even negative, while keys come and go.

## 4. The proofs

`KeyPoolProofs` proves, for every finite set of keys and callers, any weights,
cooldown, width of the weights and `MaxRecoveries`, from `U32Assumption` and
`KeyPoolAssumption` (and, for what counts picks, `MaxPicksAssumption`):

* `TypeCorrect`: `Spec => []TypeOK`. It rests on lemmas about the operators
  (`InitialOrder`: the initial list is a sequence of keys; `RemoveAtType`:
  removal keeps a sequence of keys one; `NextIndexType`: the new cursor is
  below the total, hence a u32, which needs that an acquisition is only made
  with a total that is not zero).
* `NoKeyIsLost`: `Spec => []CoolingKeyWillRecover`. The property is inductive
  together with `TypeOK`. The steps that matter: `MarkUnhealthy` leaves the
  caller itself as the witness, `SpawnRecovery` replaces that witness with a
  timer, and `RecoverHealthy`, the only step that takes a timer away, sets the
  flag in the same step whatever the key's count.
* `TrippedKeysRest`: `Spec => []ThresholdTrips`. Again inductive with `TypeOK`:
  a count reaches the threshold only in `Bump`, whose caller is then marking,
  and the flag is set only together with the count or by a recovery task that
  is about to clear it.
* `FallbackIsDead`: `Spec => []LoopAlwaysFinds`. The loop of `acquire_key` is a
  recursive function, but the property only needs its last value, which is the
  total by definition: the cursor reduced by the total lies below it
  (`LastEntryExceeds`), so at the latest the last entry covers it.
* `SteadyDecide`: `HSpec => []SteadyKeysDecide`. The invariant `ScanInv` says
  that of the entries scanned so far every one that was up throughout is a
  candidate, and none that was down throughout; the list cannot change under
  the read lock.
* `CooldownKept`: `HSpec => CooldownHonoured`. The invariant `RestInv` relates
  the ticks left to a sleeping task to the ticks its key has been out: for a
  key tripped with no task asleep they make up the cooldown.
* `PoolRotates`: `HSpec => KeepsRotation`, step by step. `PooledInv` says that
  the list has no key twice and that only pooled keys are out or about to be
  put out; so every store to a flag is a step of the rotation. `FilterInv` says
  that what a scan has collected is the filter applied to the entries it has
  passed with the flags it *saw* (`SeenBy`), which its candidates tell since no
  key occurs twice. If no flag was stored to (`Undisturbed`), `ScanInv` makes
  the flags it saw the flags as they are (`SeenUndisturbed`): the acquisition is
  one step. `LendRotates`, `StoreRotates`, `AdminRotates` map the steps that do
  not stutter.
* `PoolSharesExactly`: `HSpec => []Rotation!ExactShare`, from `PoolRotates` and
  `SharesAreExact` below: what the rotation owes its keys the pool pays, with
  all its interleavings.

`RoundRobinProofs` proves, from `U32Assumption` and `RoundRobinAssumption`
alone, for any keys, weights, width of the weights and `MaxPicks`:

* `TypeCorrect`: `RRSpec => []RRTypeOK`.
* `SharesAreExact`: `RRSpec => []ExactShare`. A window that opened with the
  cursor at s has since moved it over the places s, s + 1, ... modulo the total
  W (`Window`; `WindowMoves` is the step, `FreshWindow` the start, where s is the
  inherited cursor reduced by the new total). A candidate owns as many
  consecutive places as its weight (`AccumulatedReach`, `PickLands`), and of n
  consecutive places modulo W such a stretch has its share (`HitsShare`). The
  invariant `RRInv` adds that the list has no key twice and that a key off the
  list weighs nothing, so that the candidates' weights add up to `W`.

`RetryDelayProofs` proves, from `RetryDelayAssumption` alone, for any width,
base and number of retries, in builds that wrap and in builds that panic:

* `TypeCorrect`: `Spec => []DTypeOK`; `SleepsAreBounded`: `Spec =>
  []WaitBounded`; `JitterNeverUndoes`: `Spec => BacksOff`.
* `OverflowsComeLate`: `Spec => [](OverflowIsAgesAway /\ SmallBasesSleep)`. The
  first part adds one base to what was slept. For bases up to a quarter of the
  range it means that a quarter of the range has been slept, the second part.
  Of larger ones it says little: a base above four fifths of the range
  overflows in the first sum, with nothing slept.
* All four rest on `DelayInv`. With `Ideal(a)` the delay before jitter and
  without overflow, base * 2^a, it bounds the sum of the delays slept and the
  delay about to be slept from above by five quarters of what the ideal ones
  are. From below it bounds both by three quarters, unless what was slept and one
  base make up half the range of the type (`SleptEnough`): an overflow is met only then
  (`OverflowComesLate`), and without one the delays are what they should be.

`ForwarderProofs` proves, for any pool, number of retries and handlers:

* `NoKeyIsLostInside`: the handlers' steps are by construction steps of
  `KeyPool` or leave the pool alone (lemma `PoolInside`), so that the theorems of
  `KeyPoolProofs` hold inside.
* `HandlersTyped`: `FSpec => [](FTypeOK /\ PlaceTells /\ PlaceInPool)`: the types,
  what each place in the handler says about the attempts and the kind of request
  (`PlaceTells`), and that a handler uses an acquired key exactly while its
  exchange is under way (`PlaceInPool`). `HandlerInv` is the inductive part.
* `KeysCooledForCause`: `FSpec => CooledForCause`, and `SilenceAlone`: `FSpec =>
  []OnlySilenceHides`. Both rest on `CountsMatch`, which relates the pool's count
  to what happened: it is never above the row of failed exchanges (`streak`), and
  equals it while none of them was `muted`. So the third report finds a row of
  three; and by `ThresholdTrips` a key whose row of three was reported is out.
  The steps that matter are `Disconnect` and `StreamTransportError`, which
  report nothing, and reports that arrive for a key added again meanwhile.
* `ContractKept`: the safety half of `ImplementsContract`, step by step: each
  handler step maps to a step of `RequestContract` or to a stutter. It needs
  `HandlerInv`, since what the mapped answer and count are depends on it.

`RateLimiterProofs` proves, from `RateLimiterAssumption` alone, for any clients
and requests, rate, burst, grain of the clock and `MaxClock`:

* `TypeCorrect`: `Spec => []TypeOK`; a bucket holds between nothing and the
  burst.
* `BucketsBalance`: `Spec => []AdmissionsAccounted`. The invariant `Accounted`
  adds that the first stamp is not later than the last one, and that a client
  without a bucket has no history. The step that matters is `SpanGrows`: a
  refill is paid for by the time between two stamps or, if the new stamp is
  earlier, by the time set back.
* `WaitsAreEnough`: `Spec => RetryAfterSuffices`. The invariant `Promised` says
  what a promise rests on: the bucket's content and the refill until then make
  a token. It survives a stamp that goes back because elapsed times satisfy the
  triangle inequality, and a new promise satisfies it because the wait is
  rounded up (`RetryAfterEnough`), and because a bucket can hold a token at all:
  the property and the proof except a burst of 0.
* `EmptyBucketsAdmitNobody`: with a burst of 0 no client is ever admitted, which
  is what the exception stands for.
* `OnlySettingBackBeatsTheRate`: while no stamp was set back `RateHonoured`,
  which the run `rate_honoured` refutes, does hold. It uses `Accounted` and
  that no stamp is later than the clock.

`GatewayProofs` proves, for any clients, connections, limits and number of
retries:

* `BucketsBalanceInside`: `AdmissionsAccounted` holds behind the authentication,
  since by construction the gateway's steps are, at the limiter, steps of
  `RateLimiter` (lemma `LimiterInside`). The exchange is by construction that of
  `RequestContract`; that the code implements it is shown in `Forwarder`.
* `IssuedKeysOnly`: `GSpec => []OnlyIssuedKeysHaveBuckets`; its strengthening
  says that a request with the limiter carries an issued key.
* `LayersNest`: `GSpec => []GTypeOK`, whose last part says which of limiter and
  exchange a request is with at each place.
* `RevokedClientsStop`: `GSpec => []RevocationBites`, and `TokensBoundTheLoad`:
  `GSpec => []LoadBounded`. Both rest on `Owed`. `Claims` is the set of the
  exchanges that the requests of a client may still begin, as pairs of a task
  and a number, so that sums over tasks become the cardinality of one finite
  set: an exchange that begins takes one pair out (`ClaimSpent`), a token adds
  `MaxCalls` of them (`ClaimsGranted`), nothing else adds any while the key is
  revoked (`PassiveClaims`), and a revocation sets the allowance to no less than
  there are (`ClaimsBounded`). `LoadBounded` then follows with
  `BucketsBalanceInside`. The allowance of `RevocationBites` is `MaxCalls` for
  each request in progress, which is more than a request that has made some of
  its exchanges can still make; `Claims` has the exact number.

`KeyTableProofs` proves, from `KeyTableAssumption` alone, for any keys, weights,
administrators, sequence of configurations, width and `MaxOrphans`:

* `TypeCorrect`: `Spec => []TypeOK`, with `SeedingProceeds` (a start that seeds
  has an entry left to seed).
* `MemoryFollows`: `Spec => []MemoryFollowsTable`. The property speaks of keys
  that no handler works on; `FollowsInv` says what holds meanwhile. For a key
  not interfered with, at most one handler is under way (`OneHandlerPerKey`),
  table and copy agree unless a handler's statement was executed
  (`AgreeOrUnderway`), and then the row is what that handler will make of the
  copy (`ExecutedStands`).
* `RevokedKeysStayOut`: `Spec => []RevokedIsGone`, by `RevokedGone`: a revoked
  key is in neither place, and whoever still handles it deletes it.

`RequestLogProofs` proves, from `RequestLogAssumption` alone, for any number of
requests and page loads and any page size:

* `TypeCorrect`: `Spec => []TypeOK`, with `RowsOver` (a request whose row is in
  the table is over), which is why no request gets two rows. Lemmas `Inserted`
  and `Queried` say what an insertion and a page are.
* `PagingSkipsNothing`: `Spec => []PagesCoverTheLog`. The invariant `PagesInv`
  has `Kept` (what was in the table when the first page was read is there
  still, moved down by at most the growth) and, for a page between loads, sent,
  or read, which of those rows it has (`Covered`): those now among the first n
  of the table. An insertion only moves rows out of the first n, so every
  `Covered` survives it (`InsertKeeps`).
* `RepeatsAreGrowth`: `Spec => []RepeatsAccounted`. `RepeatsInv` adds that the
  dashboard's table is never longer than the pages asked for, nor than the log
  (`Short`). As many of the log's first rows are distinct, all but the growth
  of them existed when the first page was read, and those the table shows.

How the provers do what they have no theory of:

* Induction over data. The library's induction theorem takes an operator, which
  no installed prover instantiates. With the property as a *set* of numbers it
  is a plain consequence of every set of numbers having a least element
  (`Induction` in `RoundRobinProofs`), and so are the values of the recursive
  functions `Accumulated` and `Collected` (`AccumulatedStep`, `CollectedStep`).
* Sums over keys (`Total`, a fold) are the cardinality of a finite set of pairs
  (`TotalIsSum`), of which the library knows how it grows.
* Powers of two are numbers of subsets (`PowerOfTwo`, `Doubling` in
  `RetryDelayProofs`).
* Quotients and remainders are given by the one pair of numbers that satisfies
  their definition (`Division`, `DivisionUnique`).

Only model-checked is the liveness: `EventuallyRecovers`, `ShutdownCompletes`
and the liveness half of `ImplementsContract`. Fairness and ENABLED are out of
the prover's reach. Every other property of a passing run is a theorem.

## 5. What is not modelled, and why

* Header filtering, JSON bodies, token counts, log texts, HTML rendering, UTF-8
  and rounding of f64: data that no state depends on. The logging middleware
  runs outside the authentication, so its `client_key` is always "unknown"; it
  keeps no state.
* Parsing in `config.rs` and the merge of file and environment: no state; the
  results are constants, or change at a start in `KeyTable`.
* `basic_auth`: compares a header with the configuration; the admin actions of
  `Gateway` and `KeyTable` are those it lets through.
* `query_usage`: a read-only aggregate over the rows of `RequestLog`. The
  dashboard's filters and charts: they stand for another table, or for none.
* Statistics (`request_count`, `key_stats`) and the display of `GET /admin/keys`:
  read by nobody who decides.
* The overflow panic of a debug build in the pool's u32 sum of weights: the
  pool is that of the release build, which wraps. `RetryDelay` has both builds.
* The body of a stream after its headers: it is piped through, and nothing in
  the proxy depends on how it ends. That it ends is in `Gateway`.
* A downstream key that is no valid header value: the handler panics between
  acquisition and report, which for the pool is a caller that never reports, as
  one that disconnects (`Drop`).
* A configuration that lists a key twice: entries are taken to be distinct in
  the pool.

## 6. Plan

What is left, in this order:

1. Duplicate entries of a configuration, in `KeyPool` and `KeyTable`.
2. The other dashboard tabs, where they act on lists that are stale.
3. Proofs: that the rotation serves every candidate within one turn of the
   cursor, as a bound on the acquisitions between two picks of one key.
