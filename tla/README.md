# litegate in TLA+

litegate is a gateway in front of LLM providers: one Go process, one SQLite file.
Clients present a *virtual key* and ask for a model; litegate checks the key's
limits, picks an upstream *channel* and one of its *keys*, forwards the request,
fails over when an upstream refuses, and accounts what the answer cost.

This directory holds TLA+ models of that program, TLC configurations that check
them on small instances, and proofs for the TLAPS proof system. Paths below are
relative to `src/`; `PROJECT.json` maps every definition to the lines it models.

## 1. Inventory

Everything runs in one process. There is a goroutine per HTTP request, one for
the key-health prober, one for alert delivery, and tickers that prune tables.
The SQLite pool has a single connection, so each statement is atomic, but no
operation uses a transaction: an operation of several statements can be
interleaved with others and cut short by a crash. Memory is lost in a crash.

| Component | State | Operations | Where |
|---|---|---|---|
| Admission control | per virtual key: RPM and TPM slices, concurrency counter, day and month budget windows, all under one mutex; rows of `api_keys`, ledger `key_usage_day` | `authenticate`, `admit`, `enter`, `release`, `record`, `budgetUsage`, `load`, `UpdateKey`, `AddKeyUsageDay` | `internal/api/admission.go`, `internal/store/usage.go`, `apikeys.go` |
| Key health | per upstream key: failures in a row, end of the cooldown, under one mutex; snapshot in the settings table | `reportFailure`, `reportSuccess`, `saveSnapshot`, `restore`, prober | `internal/api/keyhealth.go` |
| Forwarding | locals of each request; affinity map under its mutex | `serveBody`, `dispatch`, `orderCandidates`, `available`, affinity `get`/`put` | `internal/api/proxy.go`, `affinity.go` |
| Channel store | tables `channels`, `channel_keys` | create, update, replace keys, disable/enable model, switch key, delete, list | `internal/store/channels.go`, `internal/api/admin.go` |
| Model list and other caches | list of models, price table, exchange rate; each with a time to live | fill, store, expire, clear | `internal/api/models.go`, `usage.go`, `internal/store/settings.go`, `prices.go` |
| Auto routing | round-robin counter per key | candidate models for model `auto`, four modes | `internal/api/automode.go` |
| Responses bridge | per stream: open output items, finish reason, usage | items to messages, chat answers and chat streams to Responses objects and events | `internal/api/responses.go` |
| Alerts | configuration (memory and settings table), dedupe map, bounded queue; five-minute error window | `Save`, `fire`, `fireErrorSpike`, `loop`, `checkErrorRate` | `internal/api/alerts.go`, `proxy.go` |
| Usage and prices | none | usage parsers, `CostOf`, `MatchPrice` | `internal/api/usage.go`, `internal/store/prices.go` |
| Console | sessions, login failures | login, single sign-on, CRUD | `internal/api/admin.go` |
| Streaming | tail buffer, idle watchdog | copy, cancel | `internal/api/stream.go` |
| Playground, import | none | a request on behalf of the console; a series of updates | `playground.go`, `ops.go` |
| Reports, bodies, balance, backup, start-up | tables and files | see `PROJECT.json` | `logs.go`, `dashboard.go`, `metrics.go`, `bodylog.go`, `balance.go`, `backup.go`, `main.go` |

How a request passes through them:

    Arrive -> (auto routing <-- list of models) -> check -> admit -> enter
                                                              |        |
                                                           windows   counter
      --(per model)--> dispatch --(per channel, key)--> upstream
                        |     \                             |
                    affinity   keyHealth <-- prober     Responses bridge
                                   |                        |
                                settings               logRequest -> record -> AddKeyUsageDay -> release
                               (snapshot)                   |
                                                     checkErrorRate -> alerts

What is hard in it, and what correctness means:

* **Admission.** Limits are read from the database at the start, the clock is read
  before the lock is taken, charges arrive after the request, memory is charged
  before the ledger. Correct means: concurrency permits neither leak nor double;
  rate limits are not applied too early, and passed by no more than the wait for the
  lock explains; a budget is passed by no more than what was in flight; a restart
  forgets no more than what was not yet in the ledger.
* **Key health.** The change of a counter, the copy and the write of a snapshot
  are separate steps, and several goroutines do them. Correct means: a cooldown
  corresponds to a run of failures, doubles from the right base, is announced
  once, survives a restart, and ends when the upstream works again.
* **Forwarding.** Nested loops over models, channels and keys with a shared cap,
  over health that others change meanwhile. Correct means: no key twice and none
  dropped, higher priorities first, conversations stay on their channel, no early
  surrender, bounded calls, and an end once the client has left (before that an
  upstream can hold a request for as long as it likes).
* **Requests around it.** Many early returns, a whitelist that is held against the
  first candidate alone, a list of models that may be older than the channels.
  Correct means: no model is tried that the key may not use or no channel serves,
  failover goes through every candidate, a request that was admitted is logged
  exactly once under the right model and gives its permit back, and the shared
  list is current unless one of the two known races made it outdated.
* **Channel store.** Read-modify-write and several statements without a
  transaction. Correct means: ids never name another key, switches and models
  survive what does not touch them, an interruption leaves a prefix. The code keeps
  some of this only while operations neither overlap nor fail, and the properties
  say where it ends.
* **Responses bridge.** A protocol is translated piece by piece, without memory
  between requests. Correct means: the events are well-formed, nothing is lost or
  mixed up, streaming makes no difference, and the output can be sent back.
* **Alerts.** Deduplication marks before delivery, counters that drift. Correct
  means: only a queued alert silences the next one, memory and table agree, and
  an error spike is one.

The list of hazards in `PROJECT.json` gives each of them with its line.

## 2. Modules and plan

| Module | Models | State |
|---|---|---|
| `Admission` with `Permits`, `InPlaceFilter` | virtual keys | checked; everything that holds proved, with the refinement of `Permits` |
| `KeyHealth` | upstream keys | checked; types and all safety properties proved |
| `Dispatch` on `KeyHealth` | failover and affinity | checked; types, all safety properties and the refinement of `KeyHealth` proved |
| `ChannelStore` | rows of channels and their keys, console operations, concurrent readers | checked; all five properties proved |
| `AutoRoute` with `InPlaceFilter` | filters and auto routing, as operators | used by `Requests` |
| `Requests` on `AutoRoute` | a request from arrival to log entry, list of models, console | checked; all five invariants proved |
| `ChatConversion` | conversions of the Responses bridge without state, as operators | used by `ResponsesStream` |
| `ResponsesStream` on `ChatConversion` | the stream transformer | checked; types and all four properties proved |
| `Alerts` | configuration, dedupe, queue, error window | checked; all three properties proved |

Abstract specifications: `Permits` (a counting semaphore) is implemented by
`Admission`; `KeyHealth` is implemented by `Dispatch`. `ChatToResponses` is the
reference for `ResponsesStream`.

Every safety property of a passing run is a theorem. What is left to do: the hazards
without a property in `PROJECT.json`, the price and rate caches, and the parts of
section 7 that keep state (sessions, captured bodies).

## 3. What the modules model

### Admission

`req[r]` holds the locals of a handler and its program counter:
`idle -> found -> timed -> admitted -> inside -> done -> recorded -> settled`.
`Authenticate` reads the row; `ReadClock` is `now := time.Now()` in front of the
lock; `RefuseExpired`, `RefuseRpm`, `RefuseTpm`, `RefuseBudget` and `Admit` are
the ways out of `admit`, one critical section each; `RefuseConcurrency` and
`Enter` are `enter`; `Complete` is the end of the response with the clock reading
of `record`; `Record`, `Settle` and `Release` are `record`, `AddKeyUsageDay` and
the deferred `release`. `UpdateKey` is the administrator's PUT, `BudgetUsage` the
console's look at a key (which rolls the window, too), `Restart` a crash and
`load`.

The slices `rpm[k]` and `tpm[k]` are what the map's slice header shows, which is
not always what was appended: `pruneTimes` and `pruneTok` filter in place. The
module `InPlaceFilter` gives both sides of that idiom, `Filtered` for a caller
that stores the result and `Compact` for one that returns without storing it.

`grants` and `points` are history variables: the RPM slots handed out and the
tokens recorded since the start. A slot is kept with the instant at which it was
taken and with its stamp, the older reading that the handler brought along and that
the slice holds. `RpmBoundedByWait` says what the difference amounts to: of the
slots taken in the last `Window - w` ticks by handlers that had waited at most `w`,
there are fewer than the limit when another is taken, for every `w`. Only where
nobody waits is that a sliding window: with a limit of two, a handler that read the
clock a while ago may store its slot last and lose it first, and three requests are
granted within a minute, against the comment at `admission.go:3`.

Abstractions: a clock tick is any stretch of time; the exchange rate is a constant;
the ledger is kept per day and per month label (the code sums days); alerts are
output; keys are not deleted; database writes do not fail.

### KeyHealth

`ReportFailure` and `Reset` are the critical sections of `reportFailure` and
`reportSuccess`; a reporter whose step changed a cooldown then has a save due, and
goes through `CopyCooldowns` and `WriteSnapshot` (or `WriteFails`) before it does
anything else. `Restart` is `newKeyHealthManager` and `restore`. The prober lists
the enabled keys, picks those with failures under the lock, and tries one after
the other. `healthy` is the environment: whether `GET /models` would succeed.

Two saves can be written in the opposite order of their copies, and a restart then
loses a cooldown or brings a cleared one back (`keyhealth.go:98`).
`OrderlyRestartKeepsCooldowns` says that without such overtaking, a pending save
or a failed write a restart brings back exactly the running cooldowns.

`failedAt`, `alerts` and `latest` are history variables. Abstractions: saved
instants are truncated to seconds in the code; the prober's order is that of the
channel list, here any order.

### Dispatch

Extends the state of `KeyHealth` (an instance, `Health`) with the locals of each
handler. A request has a *plan*, the candidate models with the channels that
serve each; plans come from a small set. `StartModel` is the beginning of
`dispatch` (order, affinity, cut to `maxProxyAttempts`); `NextChannel` the outer
loop with `available` and `rotateKeyFirst`; `NextKey` the inner loop with its
attempt counter; `CallFails`, `CallAgain`, `TurnAway` and `Keep` what comes back;
`Return` and `GiveUp` the two ways out, into the next model or the end. Every
report is an action of `KeyHealth`, so a handler waits for its save as in the
code. `ClientLeaves` may come at any time, and from then on every call fails, as
the upstream request carries the client's context. `Forget` is the expiry (or
reset) of an affinity entry.

Abstractions: weights are positive, so a weighted draw is any order; statuses are
six classes (`ok`, `bad` for 400, `other`, `auth`, `retry` and a call that fails);
bodies, headers and media endpoints are left out; channels and keys
are read in one step at arrival.

`guilty` and `passed` are history variables: keys with which a call failed while the
client was there, and keys that were left out because they cooled when their
channel's turn came while another key of the channel did not.

### ChannelStore

Every SQL statement is a step. An operation goes through `GetRow` and `GetKeys`
(the two queries of `GetChannel`), `WriteRow` (the UPDATE), and, when it was handed
any keys, `ReadStates`, `DeleteKeys` and one `InsertKey` per key
(`replaceChannelKeys`). PUT, the switches of single models and the import all take
that path and differ in what `Updated`, `Disabled`, `Enabled` and `Handed` compute.
`Create` enters it in the middle; `DeleteRow` and `PurgeKeys` are `DeleteChannel`;
`SwitchKey` is a single UPDATE by key id. `EndEarly` is a statement that fails or a
process that dies: nothing is rolled back. A request runs `ListRows` and `LoadKeys`
and then holds the key ids it has read, by which it will report to the key health.

Two consequences of the code are in the model and no property speaks of them:
disabling the last listed model leaves an empty list, which means every model; and a
PUT with an empty list of keys keeps the old ones, since `newKeys` stays nil
(`admin.go:467`, though the comments at `admin.go:463` and `channels.go:109` say
that a list that is given replaces the keys). An import drops the balance
settings of existing channels (the model keeps only the lists of models).

`asked`, `off` and `fate` are history variables: what the keys were last replaced by,
what was switched off by hand and not left out by a request since, and what has
happened to the replacements of a channel: two have overlapped (`overlap`), a
key was switched between the two statements in which one reads the states and
deletes the rows (`raced`, `channels.go:152`), one has ended after its DELETE and
before its last INSERT (`torn`), one was given a list that names a key twice
(`doubled`, which neither `keyInputs` nor the import prevents), or one that was
handed the keys `GetChannel` had read has removed a key that came since (`stale`).
`SwitchSurvivesUpdates` shows that these are the only ways in which a manual switch
is lost. Abstractions: of a channel's columns only the two model lists are kept, as
sets.

### AutoRoute and Requests

`AutoRoute` has no state. It translates `ServesModel`, the whitelist, the alias and
the filters of `proxy.go`, and from `automode.go` the candidates for model `auto`
(`AutoCandidates`: pool, whitelist or all that is served) and the four modes that
order them (`AutoOrdered`). Lists are sequences, since their order decides; what a
loop keeps of one is `Only`, and where it first finds something is `Place`, both of
`InPlaceFilter`. `Merged(of, firm)` is the set of lists without duplicates that several
lists may be put together to: those with a place in `firm` are added in turn, before
all later ones, the others as their answers come in, each in its own order. Where
every place is firm (`ServedModels`) that is one list.

`Requests` is the frame around `Dispatch` and `Admission`: `serveBody` with the
front ends that differ in a few steps (`serveResponses`, audio, playground), the
models endpoint and `serveCountTokens`. `req[h].stage` is the program counter:
`idle -> [list | route <-> fill | count] -> check -> admit -> try -> reply -> done`.
`Arrive` reads the channels and applies the alias; `UseList`, `StartFill` and
`StoreList` are `aggregateModels` with the lock given up while the upstreams are
asked; `Route` is `autoOrdered`; `Check` the refusals with 400, 404 and 403;
`TryModel` one turn of the candidate loop, whose dispatch has one of three outcomes;
the `Reply` actions end in the one `logRequest` and the deferred `release`.
`WriteChannels` and `InvalidateModels` are a console handler before and after it
clears the list, `WriteChannelsHalf` one that fails in between, `Expire` the minute
of the cache.

`outdated`, with `late` in a handler's locals, is a history variable: the list that
is kept was being computed while the console wrote and cleared, or an update failed
after its row was written and before the clearing. `FreshListIsCurrent` excuses
these two: for as long as the cache lives, clients then see the list of before,
although `models.go:79` says that a change of channels makes it expire.

Abstractions: requests that are refused while they are read (401, 413, malformed
JSON, `previous_response_id`) are left out; the cache is looked at and the channels
are read in one step, which makes no difference, because a write between the two
only makes the list newer; latencies and the size of a text come from small sets.

Read from the code while modelling, and stated by no property: the alias applies to
`auto` too, though comments say that it does not (`proxy.go:277`);
explicit `auto_models` do not make a wildcard anthropic channel serve them, though
`automode.go:78` says so; for a Responses request `analyzeTask` finds no `messages`,
so its text always counts as short and its images are not seen (`Signal`);
`serveModels` appends to the slice that the cache shares (`models.go:47`); a request
for no model at all goes to any channel, as `filterByModel` then filters nothing.

### ChatConversion and ResponsesStream

`ChatConversion` holds the two conversions that need no state: input items to chat
messages (with the merging of calls into one assistant message), and a whole chat
answer to the output list. `ResponsesStream` is `responsesStreamTransformer`. A
chunk is a bundle of parts that `transformChunk` handles one after the other; every
part is an action (`TextDelta` for reasoning and text, `CallFragment`,
`FinishReason`, `UsageReport`). `ReadToEnd` and `BreakOff` are the two ways in which
`respondResponsesStream` leaves its loop, `CloseItem` and `Complete` are `finish`.
A piece of text is the number of the part that brought it, so a list of numbers says
what text an item has and where it came from.

The events are not kept: `client` is what a client that follows the protocol knows
after them (the `ToldOf...` operators), and is `broken` as soon as an event does not fit.
`sent` records what the upstream has sent. Both are history variables. What a text
should be is read off `sent`: `InOrder` lists the numbers of the parts that belong to
it. When all reports count the same prompt (`SteadyUsage`), the numbers of input,
output and cached tokens are those of the whole answer; the code keeps the last
prompt and the largest completion, which need not come from one report otherwise.
The two usages are not alike in form. `chatToResponses` leaves the usage out when the
upstream sent none and the cache details when there are none, and passes on the
upstream's total (the sum only if it is 0); `finish` always sends both, with zeros,
and always the sum. `ResponsesUsage` has that, what may be left out being a set;
`StreamAgreesWithJson` compares the numbers, and the totals when the upstream's is
the sum.

What the code does and the model has: a body that ends without `[DONE]` counts as
complete; a fragment without an index belongs to call 0; an `error` object in a
stream is ignored, and a finish reason in a chunk without a delta is not seen. A
model that writes text *behind* a tool call makes an output that, sent back as
input, has a message between the call and its result; `ResultsFollowCalls` says
that this is the only such case.

### Alerts

`CheckErrorRate` is one critical section of `checkErrorRate` (the clock is read just
before its lock; the model takes both as one; the pruning is that of
`InPlaceFilter`), `FireErrorSpike` that of `fireErrorSpike`. `Raise` stands for
`fireBudget`, `fireKeyCooldown` and `fireBalance`; `Fire` is `fire` up to the
release of the lock and `Send` the non-blocking send into the queue; `Post` is a
turn of `loop`. `SaveRow` and `SaveAssign` are the two halves of `Save`, `Restart`
is `reload` in a new process. `Pruned` removes old entries from the dedupe map when
`fire` finds it too large; `fireErrorSpike` marks without doing so.

`bad`, `aged`, `reset`, `crossed` and `passed` are history variables. They name the
deviations the code has: `ewBad` does not fall when failures leave the window
(`aged`) and starts again from zero when it exceeds the requests (`reset`); an error
spike is marked before `fire` looks whether alerts are on; an alert that finds the
queue full is dropped although it silences the next one. `ErrorRateHonest` says
what holds in spite of the first: the alert never names more failures than requests,
but after `aged` they need not be failures of the last five minutes. `ConfigSettled`
exempts saves that meet (`crossed`): of two, one may be the last in the table and the
other in memory, though `alerts.go:103` says that what was saved is in force. The
comments at
`fireBudget` (once per window) and `fireBalance` (at most once a day) promise more
than the dedupe map gives: an event may be raised again after `cooldown_min`.

## 4. Runs

Each runs in less than four minutes with two workers, most in one or two.
`CHECK_DEADLOCK FALSE` throughout: the bounds stop the arrivals, the clock and the
reports, and a stream ends, after which nothing happens any more.

| Run | Asks | Bounds |
|---|---|---|
| `admission_permits` | Are permits counted exactly and bounded, across limit changes, refusals and a crash? Is it a counting semaphore? | 1 key, 3 handlers, 4 requests, 2 updates, 1 restart, clock 0..1; limits none, 1, 2 with expiry |
| `admission_windows` | By how much can the rate limits be passed; are RPM refusals justified; are the budget's overshoot and a restart's loss bounded? | 1 key, 2 handlers, 4 requests, clock 0..3 with a day and a window of two ticks, 1 restart; rate limits of 2, token budget of 2, money budget of 1; charges in both currencies |
| `admission_tpm_claim` | Finding: are TPM refusals justified? | 2 handlers, 5 requests, clock 0..4, window of 3 |
| `keyhealth_cooldowns` | Do cooldowns and failures agree in memory, copies and setting; is each cooldown earned and announced once; does an orderly restart keep them; do keys whose upstream works recover? | 2 keys, 1 handler and the prober, threshold 2, cooldowns 2 and 3 (the maximum), clock 0..2, 3 failures, 1 change of an upstream or switch, 1 restart, 1 failing write |
| `store_console` | What do concurrent console sessions, interrupted operations and requests see: ids, keys, switches, models? | 2 channel ids (1 exists), 2 sessions, 2 operations, 2 switches, 1 request, 1 interruption, 2 models, 2 keys, four bodies (keys not given, replaced, cleared, one named twice) |
| `store_switch_claim` | Finding: does a repeated update keep the state of the keys? | 1 session, 2 operations, 1 switch, 1 interruption |
| `dispatch_failover` | Failover order, exhaustion, number of calls, refinement of `KeyHealth`, the end of requests whose client has left | 3 channels (one without keys, one with two), 3 keys, 2 priorities, 1 request with one or two models, 2 attempts, threshold 1 |
| `dispatch_affinity` | Does a conversation stay on its channel; does turning to the remembered key drop or repeat a key or a channel? | 3 channels of one priority (one without keys, one with two) of which 2 are tried, 2 requests, threshold 1, 2 failures, 1 restart |
| `dispatch_departed_claim` | Finding: do only keys cool that failed? | 2 requests, threshold 2 |
| `responses_stream` | Does a client of the stream rebuild the answer; is nothing lost or mixed up; does streaming agree with not streaming; can the output be sent back? | 5 parts of 2 calls in five kinds of fragments, 3 kinds of usage reports (a total of their own, none, no cached tokens) |
| `requests` | Are only allowed and served models tried; is failover thorough; is every request logged once; is the list of models current? | 2 requests (one of ten kinds, one of three that use the shared list), 4 keys, one per mode, 3 models, 2 contents of the channel table, 1 write |
| `alerts` | Do memory and table agree; is silence earned; is an error spike one? | 2 handlers, 2 savers, 1 event and the spike, queue of 1, dedupe map of 1, window 2, clock 0..2, 3 requests, 2 raises, 2 saves, 1 restart |

Why the bounds are enough. Three handlers are needed for two holders and one that is
refused; two for one that waits with an old clock reading while another one stores.
A clock of four instants with days and windows of two ticks has a window that
slides, waits of zero and of one tick, a midnight and charges on both sides of it.
The threshold, the first doubling and the cut-off of the cooldown are all reached
with three failures. Two attempts over three channels are one fewer than there are,
so the cut, the cap and the surplus channel all occur; the channel without keys
makes the loop skip one. Two console operations are what it takes for two
replacements to overlap, or for a key to be removed and its id to be given out
again. Handlers of `Dispatch` share only `KeyHealth` and the affinity map: the runs
have one handler, and what a second one could do to the shared state between its
steps is done by the prober and by `Forget` (clearing) and explored with two
reporters in the runs of `KeyHealth` (cooling).

Handlers of `Requests` share only the list of models and the round-robin counters:
the second one uses both, and one write is enough to overtake a fill, to be
overtaken by it, and to fail halfway. The two tables have a wildcard channel beside
one that lists its models, switched-off models on either, and a channel of the other
protocol; the priorities of the first key turn the order of its pool around for
models that are surely available. Five parts let two calls alternate, be interrupted
by text and be continued. Three requests in a window of two ticks fill it, leave it
and pass the threshold of the rate with failures that are gone.

Fairness. `KeyHealth!FairSpec` assumes weak fairness of the prober, whose ticker
never stops and whose calls have a timeout, and of a save once it is due, which is
straight-line code. `Dispatch!FairSpec` adds weak fairness of a handler whose client
has left: every upstream call and every read of a body hangs on the client's context
and returns at once, and what is left are loops over finite lists. Nothing is
assumed of a handler whose client waits, since the transport bounds only the wait
for a status (`ResponseHeaderTimeout`), not the draining (`proxy.go:387`, `495`,
`507`) or copying of a body, and the idle watchdog is off by default
(`stream.go:119`). Nothing is assumed of clients, of the clock, or of the
administrator either. The other modules state safety only.

## 5. Findings

* `TpmRefusalJustified`: `admit` filters the TPM slice in place and, when it
  refuses, returns without storing the shorter slice; later requests count some
  points twice and are refused although fewer tokens were recorded in the last
  minute (`internal/api/admission.go:156-163`). The RPM slice has the same flaw in
  the code's form, but as long as the limit stays the same a refusal means that the
  kept entries are the whole slice, and `RpmRefusalJustified` holds.
* `SwitchAlwaysKept`: when a replacement of keys ends after its DELETE, the repeated
  request switches a key on that was off (`channels.go:156`, against `channels.go:149`
  and README.md:128).
* `OnlyGuiltyKeysCool`: a client that leaves makes the current and all following
  attempts fail, and each failure is reported (`proxy.go:490`, README.md:9).

Other places where the models do what a comment or README.md denies. No run is about
them: the properties named in section 3 exempt them, or say how far they go.

* A stamp of the RPM slice is the clock reading from before the wait for the lock, so
  more than the limit may be granted within a minute (`admission.go:136`, against
  `admission.go:3`); `RpmBoundedByWait` bounds it.
* An update that names no keys writes back the list it has read, and removes a key
  that was added meanwhile (`admin.go:472`, against README.md:128).
* Switching one model writes a whole row that may be out of date, and so puts another
  model into service again (`channels.go:213`).
* An update that fails with its keys has changed the row and does not clear the list of
  models (`admin.go:505`); a list that is being computed while the console writes and
  clears is stored afterwards (`models.go:131`, both against `models.go:79`).
* Two saves of the alert configuration can leave one in memory and the other in the
  table (`alerts.go:113`, against `alerts.go:103`).
* Failures are counted for longer than their window, so an error spike may be raised
  without as many (`proxy.go:866`, against `proxy.go:847`).
* When no candidate is left, a 429 or 5xx is passed through and reported with
  `reportSuccess` (`proxy.go:513`, against `proxy.go:438`), which clears the failures
  of its key.

## 6. Proofs

Every invariant and action property that a passing run checks is also a theorem, for
every value of the constants; `PROJECT.json` lists which theorem states which. Each
one follows from an inductive invariant that says more than the property does. What
it adds, and why it has to:

* **`AdmissionProofs`**, four invariants.
  `PermitInvariant` is `TypeOK`, `LimitsKnown` (every limit a handler holds was once
  saved), `PermitsExact` and `PermitsBounded`. The bound needs `LimitsKnown`, as each
  handler compares with its own, perhaps outdated, limit. One lemma (`PermitSteps`)
  says what a step does to the holders: nothing, one more, one less, or a crash; the
  refinement of `Permits` follows from it, too.
  `RateInvariant` (`NowPast`, `RateSound`) says that no handler's clock reading lies in
  the future and that the slots whose stamps lie in the present window are found in
  the slice, each at a place of its own (`Covered`, an injection from `Stamps`). The
  slice may hold more, and duplicates, after a refusal; that does no harm to the two
  limits. A slot of a handler that waited at most `w` is no further in the past by its
  stamp than by `w` more than it really is, which gives `RpmBoundedByWait` its bound.
  `RpmRefusalJustified` needs the converse: as long as the settings stay, the slice is
  never longer than the limit and shows only real grants (`NoSpare`), so a refusal
  keeps every entry and compacting is the identity. This is a hypothesis of the
  theorem (`SettingsStay`), and what the run has, with `MaxUpdates = 0`.
  `BudgetInvariant` adds `LabelsPast` to `RestartForgetsOnlyUnsettled`: no window
  belongs to the future, so a window that rolls over is one whose charges no longer
  count. `OvershootAlwaysBounded` adds `RowRead` (the limits a handler holds are those
  of the row) and needs the set of charges to be finite and not empty, without
  which the largest charge does not exist.
* **`KeyHealthProofs`**. `CoolingMeansFailing` and `CooldownEarned` must hold of copies
  that are still to be written and of the setting, since a restart can bring back any
  of them; `HealthInvariant` therefore adds `MemorySound` and `CopiesSound`, and
  `Counted`, which bounds the failures by the reports. `OneAlertPerRun` adds
  `AlertsSound`: what was announced has an entry. `OrderlyRestartKeepsCooldowns` adds
  that, when no write has failed and nobody has a save due, the copy that was taken
  last agrees with memory, and so does the setting if that copy was written last.
* **`DispatchProofs`**. `DispatchInvariant` is one sentence about each handler
  (`CallSound`): its list of channels is a cut of an order by priority, turned to the
  remembered channel (`Listed`); its keys are different, enabled, and of the channel
  at hand (`Keyed`); what has been tried are the keys behind it and keys of earlier
  channels, at least one of each that has any (`Accounted`); and it has used no more
  attempts and calls than it may (`Limited`); and every key of a channel behind it was
  tried or passed over (`NoneDropped`). `EachKeyOnce` and `GivesUpLate` cannot be
  proved from the list of tried keys alone: they need to know which part of
  the loops it came from. `ImplementsKeyHealth` shows that every step is one of
  `KeyHealth` or leaves its variables alone, so what `KeyHealthProofs` proves holds
  within the composition as well.
* **`ChannelStoreProofs`**. `IdInvariant` says that every id in a row or in the
  hands of a request is below the next one, so that a new row meets neither, and
  that rows with the same id agree. The other properties compare the rows with what
  the running operations have read and still have to do: how far each has come with
  its keys (`OpsSound`), that the rows are those of a first part of its list, place
  by place, and that a key that was switched off is off in the rows, or in the
  states that its operation has read, on channels of which `fate` tells nothing. No
  request is assumed to name its keys only once. `NoModelLost` follows from how the
  new row was computed.
* **`RequestsProofs`**. `RequestsInvariant` describes a request at every stage: what
  its candidates are (`Prepared`), that what was tried is a beginning of them with
  one result each, under a permit (`Tracked`), how it ends up in the log (`Logged`),
  that every candidate is allowed and served (`Suited`), that the loop stops neither
  early nor late (`Stopped`) and that priorities are kept (`Arranged`). `ListSound`
  says the same of the shared list: a fill that is not late has a snapshot of the
  channels as they are, and a fresh list that no write has overtaken was put
  together from them. `SpreadSound` bounds the round-robin counters.
* **`ResponsesStreamProofs`**. `StreamInvariant` adds to the types that the client
  is in step (`ClientInStep`) and that a place in `toolByIndex` is that of a tool
  call, without which a fragment could lengthen an item of another kind.
  `MixInvariant` adds that the items of a kind share out its parts in order
  (`TextSound`) and that calls and items correspond one to one, with the arguments
  and the identifier of their index (`CallSound`). `AgreeInvariant` adds where the
  items are when the parts come in the usual order (`OrderSound`), and what the
  client has been told of usage and status then; the output of `ChatToResponses` is
  compared with that, item by item. `NamedInvariant` adds that no call lacks an
  identifier. `ResultsFollowCalls` is then a theorem about `ResponsesToChat`:
  `TalkTurn` unfolds its fold one item at a time, `CallsAsked` shows that calls
  without text behind them gather in the last message, `CallsAnswered` that the
  results are appended to it.
* **`AlertsProofs`**. `ConfigSettled` needs to know of a save that is under way alone
  that the table has its configuration already (`SavesSettle`); `SilenceEarned` that an
  instant in the dedupe map has passed and that only a handler behind its mark can
  excuse it (`MarksEarned`); `ErrorRateHonest` is inductive with the types and
  `FilterType`, which says that pruning never lengthens a window.
* **`InPlaceFilterProofs`** has the lemmas that the others share: that a filter keeps
  type, order and places (`FilterOrder`, from the injectivity of `Rank`), what
  `Only` and `Place` give, coverings of a history by a slice (`Covered`), and sums over
  finite sets (what taking out, adding and changing an element does to them).

Induction over data. The induction theorems of the library take an operator, which
the provers cannot instantiate. Where a proof needs induction it takes a smallest
counterexample instead: `LeastNumber`, `GreatestNumber` and `SmallestSet` in
`InPlaceFilterProofs` follow from `WFMin`, and with them the sums and the fold of
`ResponsesToChat` are unfolded.

Assumptions: those on the constants in the modules, which every run evaluates.
They say of what kind the constants are, that lists in
the configuration name nothing twice, and that markers such as `NoId` are no
values. One is a fact of arithmetic, `PowersPositive` (powers of two are positive):
the provers know nothing of exponentiation.

Only model-checked is what is no safety property: `HealthyKeysRecover` and
`EveryAbandonedRequestEnds`. Liveness under fairness and `ENABLED` are out of the prover's
reach.

## 7. Not modelled

Byte copying, formatting, SQL reporting, captured bodies; sessions and login;
configuration, migrations, encryption and the web pages; usage parsers and the
price formula, which are sequential and keep no state; the price and rate caches;
sampling parameters, tool definitions and refusals of stored objects in the
Responses bridge; the estimate of tokens; deletion of virtual keys
and failing database writes in `Admission`, and the window of a budget that is moved
to another period (only the window of the present period is charged,
`admission.go:221`, so the other one starts from zero until a restart); media
endpoints other than audio, header rewriting and body capture in forwarding;
`TestAlert`; the deep health check, two of which may read each other's row
(`settings.go:49`). `PROJECT.json` has a reason for each component.
