# TLA+ models of ccx

ccx is a gateway for LLM APIs. A request of a client is sent to one of several *channels* (upstream
accounts), each with several BaseURLs and API keys. The gateway keeps a circuit breaker for every
(BaseURL, key) pair, fails over between keys, BaseURLs and channels, remembers which channel served
a user, disables keys that upstreams reject, brings them back on a schedule, and translates the
streamed answers of four kinds of upstream for clients of four kinds of API. This directory models
the part of the backend (`backend-go`) that decides, under concurrency, failure and restarts, where
a request goes, what its client gets, and what is remembered of its outcome.

## 1. Inventory

| Component | State | Operations | Interacts with |
|---|---|---|---|
| Circuit breaker, `metrics/channel_metrics.go` | `keyMetrics`: state, retry time, backoff level, probe flag, consecutive failures, breaker window per key; one mutex | outcomes, `GetKeyCircuitState`, `TryAcquireProbe`, `ReleaseProbe`, resets, forced half-open, 30 s recovery ticker, hourly cleanup, deletion, reload | store (rows on transitions), failover, scheduler, recovery |
| SQLite store, `metrics/sqlite_store.go` | tables `request_records`, `circuit_states`; `writeBuffer`, `flushMu`, `flushing` | buffered append, four flushers, requeue, upsert, delete, query, retention, close | breaker, history |
| Request history, `metrics/channel_metrics.go` | `requestHistory`, `pendingHistoryIdx`, `ActiveRequests` | connect, finalise, cancel, cleanup, reset, statistics | failover |
| Upstream failover, `handlers/common/upstream_failover.go`, `handlers/responses/compact.go` | per request: BaseURL, key, attempt, `failedKeys`, `probeAcquired` | loops over BaseURLs and keys | breaker, failed-key cache, logs, URL manager, configuration |
| Error classification, `handlers/common/failover.go` | none | retry with the next key, disable the key, what to tell the client | failover, configuration |
| Scheduler, `scheduler/channel_scheduler.go`, `handlers/common/multi_channel_failover.go` | per request: `failedChannels`, attempts | `SelectChannel`, failover between channels, scheduled recovery | configuration, breaker, affinity |
| Trace affinity, `session/trace_affinity.go` | user → channel index, last use | set, get, expire | scheduler |
| Channel configuration, `config/` | five channel lists in memory and in a file, failed-key cache | add, update, delete, reorder, status, promotion, disable and restore keys, save, watch and reload | everything keyed by channel index |
| URL manager, `warmup/url_manager.go` | per channel index: order, failures and cooldown of its BaseURLs | sort, mark | failover |
| Channel logs, `metrics/channel_log.go` | ring per channel, index of running requests | record, update, complete, shift on deletion | failover, configuration |
| Response sessions, `session/manager.go` | sessions, response → session | create, append, map, limit, cleanup | Responses handler and provider |
| Scheduled recovery, `main.go`, `transitions/` | checkpoint in memory and in a file | timer of the next slot, minute ticker, restore keys, half-open circuits, activate channels | configuration, breaker |
| Capability tests, `handlers/capability_test_*.go` | jobs, runners, a dispatcher and queues per key | start, cancel, replace, retest, run; acquire a slot, idle end, gc | providers, configuration |
| API handlers, `handlers/{messages,responses,chat,gemini,images}` | one request | single- and multi-channel paths, compact | all of the above |
| Stream relays, `handlers/common/stream.go`, `providers/`, `converters/`, `handlers/{responses,chat,gemini}` | per answer: provider goroutine, channels, preflight buffer, converter state | read, convert, hold back, replay, drain | API handlers |
| Request converters, HTTP clients, middleware, web console | none that lasts | rewriting and transport | – |

What is hard here: outcomes arrive in any order and long after the circuit they belong to has
changed; a channel index or a circuit state is used after the lock that protected it was given up;
the breaker is persisted piecemeal and rebuilt after a crash; probes of half-open circuits are a
resource that each exit of two request loops must give back; four goroutines flush one buffer while
it is deleted from, queried and closed; a configuration write fails after memory has changed and a
watcher reloads what is on disk; a goroutine that reads an upstream fills a bounded channel whose
reader may return at any time; and everything a client must not see twice is written by code that
also retries. `PROJECT.json` lists each hazard with its line and the properties about it.

## 2. Plan, and what is done of it

| Order | Module | Models | State |
|---|---|---|---|
| 1 | `Breaker`, `KeyCircuit` | the three-state breaker and its rows in SQLite | checked and proved |
| 2 | `UpstreamFailover` | concurrent requests on one channel: keys, BaseURLs, probes | checked and proved |
| 3 | `ChannelSelection` | selection, failover between channels, affinity | checked and proved |
| 4 | `PendingHistory` | history indices, active counters, the unlocked walk | checked and proved |
| 5 | `ChannelLog` | log ring, running entries, index shifts | checked and proved |
| 6 | `ChannelConfig` | channel lists, stale indices, disabled keys, save, reload, recovery | checked and proved |
| 7 | `RecordLog`, `WriteBuffer` | an abstract log of records; the write path that implements it | checked and proved |
| 8 | `Sessions`, `UrlOrder` | conversations; order of BaseURLs | checked and proved |
| 9 | `RecoveryClock` | when a recovery is due | checked and proved |
| 10 | `CapabilityJobs`, `Dispatcher` | jobs and their runners; slots | checked and proved |
| 11 | `Gateway`, `UpstreamErrors` | one request to one answer; what an error means | checked and proved |
| 12 | `MessageStream`, `ResponsesStream`, `ChunkStream` | the protocols clients rely on | abstract |
| 13 | `StreamRelay`, `ResponsesConvert`, `ResponsesRelay`, `ChunkRelay` | the relays that implement them | checked and proved |

Left: the merging of legacy metrics identities, the snapshots and caches of capability tests, and
the conversion of requests (section 6).

## 3. Modules and code

**`Breaker`** holds the breaker as operators on one `KeyMetrics` record. All of them run under
`MetricsManager.mu`, so an application is one atomic step. Instants are kept as time left
(`retryIn`); `CircuitBrokenAt` and `HalfOpenAt` are only compared with nil and are Booleans. The
parameters carry the constraints of the constructors (window at least 3, threshold in (0, 1]).

**`KeyCircuit`** adds the map of keys, the `circuit_states` rows and the breaker-relevant request
records. Every operation may be called at any time, which covers all interleavings of handlers,
tickers and management calls, since each takes the mutex once. `DeleteByMetricsKeys` is three
actions because it unlocks before its two SQL statements; a handler that advances a due circuit
before it settles an outcome writes its row twice, so either write may fail alone (`Upsert`).
`Restart` loses a suffix of the records (the write buffer), drops a prefix (older than 24 hours) and
rebuilds the window from the most recent ones (15 minutes).

**`UpstreamFailover`** is one channel with concurrent requests. A request reads the circuit, takes
the probe, sends, settles and gives the probe back in separate actions, as the code takes the lock
for each. Compact differs: it knows only the first BaseURL and one failure class, does not record
handled errors, counts a client's cancellation as a failure of the key, and has no deferred release.

**`ChannelSelection`** is the level above: `SelectChannel` as one set of candidates per rule (pin,
promotion, affinity, priority, fallback), the first that is not empty deciding, over the health
aggregated from the keys' breakers. A call of `TryUpstreamWithAllKeys` is one step per key here.
`changing`, chosen at the start, says which kinds of changes the console makes in a behaviour.

**`PendingHistory`** is the history of one key with the attempts that write to it. `history` is the
slice, `pending` the index map, positions count from 1. `owner`, `fate` and `lost` are history
variables. `traversal` is `GetModelStatsHistory`, which copies the slice header under the lock and
walks the array without it; Go's slices are modelled as far as that walk can tell: writes in place
reach it, cutting the front moves an offset, an append fits into the array or moves to a new one.

**`ChannelLog`** is `ChannelLogStore`, its helpers, and the two steps of the delete handlers: the
configuration first, the logs afterwards. Transport callbacks may come at any time after the entry
was created, also after the attempt is over.

**`ChannelConfig`** is the list of one of the five interfaces, chosen in `ConfigInit`: they share
their code but for what `ClearingPrefix`, `OmittedWhenEmpty` and `DeprioritizeAPIKey` say. A change
is in memory before it is in the file (`SaveConfigLocked`); the watcher decodes the file *over* the
list in memory, as `json.Unmarshal` into `cm.config` does, so a field the file leaves out keeps the
old value (`Merge`), and saves the list again when the check of the keys changed it. `drift` marks
behaviours in which memory and file may differ from then on: a write failed, or a reload kept fields
the file did not have. A list may hold a key twice; the operations then find its first place, as
their loops do. Requests hold an index from `Pick` to `BlacklistKey`; the scheduled recovery
holds a copy of the configuration through its whole scan. `failedKeysCache` carries no time; an
entry may expire whenever the cleanup runs.

**`RecordLog`** is what the SQLite store promises of records, **`WriteBuffer`** how it does it:
buffer, batch taken out, `flushMu`, and the four flushers (the goroutine `AddRecord` starts,
`flushLoop`, a deletion, a query). Insert, requeue, delete, shutdown and crash are steps of their
own; taking the lock and the buffer is one, since nobody else can take the buffer in between. The
mapping is `pending <- ` the batch taken followed by the buffer.

**`Sessions`** takes the request's reading of its session, the answer's second lookup, the appends
and the mapping apart, because each locks the manager for itself and the cleanup runs between them.

**`UrlOrder`** is one channel index: the list of states the manager keeps is matched with whatever
list of URLs the channel at that index has when a request asks.

**`RecoveryClock`** counts time in ticks of the minute ticker. The timer of the next slot may fire
late, a tick may be received late, the recovery may fail, the state file may be unwritable, and the
process may be restarted at any time. `begun` is the last start that found no checkpoint.

**`CapabilityJobs`** has every locked update of a job as a step: start, the runner's slots, requests
and results, cancellation (context first, job afterwards), replacement of a cancelled job, retests.
**`Dispatcher`** is the pool for one key: a request is queued under the read lock of its dispatcher;
the goroutine hands slots out and closes the dispatcher when it is idle.

**`Gateway`** is one request in one of six handlers: single- or multi-channel, the walk over pairs
and channels, and what becomes of each kind of response. Which channel or key comes next is left to
`ChannelSelection` and `UpstreamFailover`; any may come here. `answers` counts responses begun,
`blamed` keys marked as failed after the client had left.

**`UpstreamErrors`** is `failover.go` as predicates on a response [status, shape, code, type,
words]: the keyword lists of the code are words, and a text is the set of lists it matches.

**`MessageStream`, `ResponsesStream`, `ChunkStream`** say what a client may see: which event may
follow which. **`StreamRelay`** is the goroutine of a Messages provider (four upstream kinds), the
two channels, the preflight, the relay and the draining; **`ResponsesConvert`** the line-by-line
converters as functions on their state, **`ResponsesRelay`** the scanner and the handler that
converts everything twice; **`ChunkRelay`** the loops of Chat and Gemini, which hold nothing back.
Each instantiates the protocol of its client with what it has written.

The `MC*` modules give the constants their values. `MCStores` and `MCStreams` put parts side by side
that share no state: `component` or `part`, chosen at the start, says which one runs, so the state
space is the sum and not the product.

## 4. Runs

| Run | Question | Bounds |
|---|---|---|
| `key_circuit` | Do circuit, row, backoff and retry time stay consistent under every order of operations, deletions and restarts? | 1 key (keys meet only in the ticker), window 3, backoff 1, 2, 3 ticks: the cap is reached; 5 failures in a row, 4 records |
| `key_circuit_faults` | With writes failing at will, can a circuit get stuck open? | 2 records, 4 failures in a row |
| `upstream_probes` | Does any path of two interleaved requests of both variants leave a probe behind? | 2 BaseURLs, 1 key, resets and forced half-open at any time |
| `upstream_loops` | Does the key loop waste attempts, does it end? | 1 request, 2 keys; everything else changes around it |
| `channel_selection` | Are open channels avoided, better ones preferred, failed ones not tried again, also while the console changes things? Is a request told that all channels failed while one was left? | 2 channels; 2 interchangeable requests (symmetry), at once while the console changes nothing, one at a time while it changes the status (also with a pin), or promotion and keys |
| `request_history` | Do indices, outcomes and counters survive expiry, cancellation, reset, deletion and cleanup, and what does the unlocked walk see? | 3 attempts, 2 instants, 1 walk |
| `channel_config` | Do keys stay with their channel, does no step lose one (but a reload or restart after memory and file drifted apart, which keeps the file's), do those disabled for quota come back? | 2 channels, 2 keys, 1 request, 1 change by hand, 1 failed write, 1 rejection |
| `stores` | Logs found and finished; write path, shutdown, queries and deletions; conversations whole; URL order; no slot left out; no request stranded, and no model of a job that is undisturbed (see *Capability tests* below) | see below |
| `streams` | One answer per request, errors judged consistently, streams well-formed and whole (but for the two exceptions under *Converters* below), every handler returns and every goroutine ends | see below |
| `half_open_starved` (violation) | Is a half-open channel probed while another channel works? | 2 channels, 1 key each, window 3 |
| `unanswered` (violation) | Has a client been answered when the handler was told so? | 2 chunks |
| `cancelled_queued` (violation) | Are the models of a cancelled test marked as skipped? | 1 job, 2 models, 1 retest |

`MaxConsecutive` bounds the failures counted in a row, `MaxRecords` the records a restart reads. A
threshold of one failure in `UpstreamFailover` and `ChannelSelection` makes circuits open in few
steps; the window then only adds states. In `half_open_starved` it is larger, so that windows fill
and the failure rate matters. Three attempts in `request_history` are enough for one in front of,
one at and one behind a removed record. `StaleAfter` is 0 there: a cleanup that is more eager than
the code's only adds behaviours. In `channel_config` one change by hand, one failing write and one
rejection already meet in every order with a recovery scan and the watcher; by hand only the last channel is
deleted, since the deletion of an earlier one passes its keys on (see *Reloads* below); the interfaces other
than Messages start from one channel, which shows what differs between them.

`stores`: 2 log requests, 2 deleters and a ring of 1, so that entries are evicted and two deletions
meet in both orders; 3 records with batches of 2, so that a batch fills, a record comes behind it
and a batch is dropped (`BufferMax` is `batchSize*10` in the code, the ratio plays no part); 4
requests with at most 4 messages, so that a conversation of three turns is cut; 3 URLs, lists of 2;
slots 3 ticks apart up to 10; 2 asks, 2 dispatchers; 2 models with retests, or 1 model and a second
job that replaces the first. `streams`: 4 chunks or 5 lines, which is what it takes to open, fill
and close one item and fill a second one, and 6 lines for clients of Chat and Gemini; a channel of 1 event (100 in
the code) makes the producer block as often as possible; 2 channels of 2 pairs each; texts that match
up to 3 of the keyword lists.

Deadlock checking is off where the system may stop: all requests over, the clock at its bound, no
edits left.

Fairness. `KeyCircuit!FairSpec`: time passes and the recovery goroutine keeps running.
`UpstreamFailover!FairSpec`: a running request is scheduled and its upstream call ends (every client
has a timeout); nothing is assumed of the clock, the other requests or the administrator.
`ChannelSelection!FairSpec` also assumes that clients keep sending requests and do not always
disconnect just before a channel is selected. `ConfigSpec`: the watcher and the scan run, and hours
pass; the latter is strong fairness because a scan or an unhandled event puts it off again and
again. `MCStreams!StreamsSpec`: the reading goroutine, the handler and the drain are each scheduled,
and an upstream sends or ends (the code's timeouts); the client may stay or leave.

### Disagreements found

`half_open_starved`: moving to half-open keeps the breaker window. A circuit that was opened by its
failure rate therefore still has that rate when it becomes half-open; `IsChannelHealthyMultiURL`
calls its channel unhealthy and `SelectChannel` passes it over as long as another channel is
healthy. No probe is sent, so nothing ever clears the window. It ends when the other channels fail,
when an administrator resets or promotes the channel, at a restart, or when the key is dropped after
48 hours without activity; none of these is the probe recovery the changelog describes.

`unanswered`: a Messages stream that breaks off during the preflight makes `HandleStreamResponse`
return an error before anything was written; `TryUpstreamWithAllKeys` reports it as handled, and the
handler returns. The client gets an empty 200 although another key could have been tried.

`cancelled_queued`: a test can be cancelled as soon as it exists, but its runner registers the
context that a cancellation ends in its own goroutine (`capability_test_runner.go:68`) and does not
look at the job itself. In between `CancelCapabilityTestJob` finds nothing to end, marks the models
as skipped and the job as cancelled; then the runner queues the models again and tests them, and
writes nothing of what it finds, because the job is cancelled. CHANGELOG.md:592 says they are
skipped.

### Observations without a run

The models contain these behaviours; a property that excludes them is false, and the properties that
are checked are worded around them.

- *Single probe.* `ReleaseProbe` names no owner. A request whose outcome opened the circuit again
  releases, when it returns, the probe another request has taken meanwhile, and a third one probes
  as well (CHANGELOG.md:405 promises one).
- *Unlocked walk.* The comment at `channel_metrics.go:3518` says the shared array is not modified. A
  cancellation moves records inside it, so a walk may count one request twice. `CountedOnceUncancelled`
  says that nothing else does this.
- *Reloads.* `loadConfig` decodes over the configuration in memory: a disabled key, a historical key
  or a promotion that an editor removed stays, and after a deletion by hand fields of the removed
  channel pass to the one that takes its place. `drift` marks such behaviours.
- *Leaving clients.* Compact (`compact.go:339`) and the preflights of Responses and Messages count a
  client's departure as a failure of the key (CHANGELOG.md:1254 says it should not be);
  `LeavingCostsOneKey` states what holds.
- *Errors.* In normal mode an error whose `code` alone says authentication, at status 400, disables
  the key but is returned to the client; a 401 of type `authentication_error` whose text says that
  something "is required" likewise. Balance errors recognised by code disable the key, yet count as
  retryable for the breaker.
- *Chat and Gemini streams.* `handleStreamSuccess` never returns an error: a broken stream is recorded
  as a success and ends with `[DONE]`. Tool calls are dropped from Claude to Chat and Gemini and from
  OpenAI to Gemini; from Claude the finish reason is always "stop".
- *Gemini with the default service type* (`gemini/handler.go`, about line 580) reads the body and
  passes the emptied body on: an empty 200.
- *Responses streams.* An upstream without `[DONE]`, or a Gemini finish without content, never gets
  `response.completed`; two Gemini calls of one function share a call id.
- *Converters.* `chat_to_responses.go` gives reasoning the index 0 and works the index of the message
  out anew for every event: 1 if reasoning was seen, else 0. When a Chat upstream sends text before
  reasoning, the two share index 0, and the message goes on under index 1, which was never announced;
  the comment in line 279 promises one index. When text has interrupted a thought of a Gemini upstream,
  the next thought announces the reasoning item again under the index it had
  (`responses_to_gemini.go:378-390`). `ResponseStreamProper` covers the upstreams that keep to `InTurn`,
  which do neither. `gemini_to_responses.go:362` reads a delta of reasoning from the field `text`, where
  the gateway's own converters put it, and not from `delta`, where the Responses API has it and from
  where the two other deltas are read (lines 351 and 371): a Gemini client of such an upstream never
  gets the reasoning, which CHANGELOG.md:219 says passes through in full. `ChunksWhole` leaves it out.
- *Capability tests.* `NoModelLeftOpenUndisturbed` leaves out the jobs in `disturbed`: those of
  `cancelled_queued`, and those a retest was accepted for while the runner was still at work on them;
  the two then overwrite each other, and nothing in the repository says how such a job ends. A protocol all of whose models were skipped stays pending
  (`capability_test_jobs.go`, about line 632). A dispatcher touched between the gc's look and its
  removal lives on beside a new one.
- *Configuration.* A recovery that races with a rejection may leave a channel suspended that has a
  key, and may reactivate one that was suspended by hand; `cfg.Upstream[id]` is read again after a
  concurrent delete; `UpdateUpstream` can make a key active and disabled at once; deleting a Chat
  channel clears the failed-key cache under "chat" while failures are kept under "Chat"
  (`config_chat.go:258`).
- *History and logs.* The hourly cleanup drops a key whose first request is under way. When the
  configuration cannot be saved, the channel is gone from memory but the logs are never shifted.
- *Statistics over time* (not modelled). `GetHistoricalStats` and its variants make
  `duration / interval + 1` buckets. When the interval does not divide the duration, the aligned window
  can span one bucket more, and the requests of the current interval are left out, which the comment at
  `channel_metrics.go:2688` says are included: 90 minutes by the hour, asked at 10:20, shows 8:00 to
  10:00.
- *Never called*: `InvalidateURLCache`, `RemoveByChannel`, `ClearAll`, `HasProbeCandidateMultiURL`;
  `maxFailCount` of the URL manager is never used.

## 5. Proofs

Eight modules of proofs. Each rests on the assumptions of the modules it is about (the constraints of
constructors, finiteness of sets of requests, start lists with unique ids whose keys are their own); the
bounds of the runs are arbitrary in the proofs. Every safety invariant and action property of the
passing runs is stated by a theorem; what the theorems say of `KeysStayHome`, and what not, is described
below.

**`BreakerProofs`** proves that every breaker operator keeps a record *sound* (typed, its fields in
agreement with its state), and what the operators do to the probe flag. `KeyCircuitProofs` and
`UpstreamFailoverProofs` both build on it.

**`KeyCircuitProofs`**: `TypeCorrect`, `CircuitsAlwaysShaped`, `StoreAlwaysAgrees`, `BackoffAlwaysKept`,
`RetryNeverPostponed`. The invariant says that every record *and every stored row* is sound: a restart
copies rows into memory, and with lost writes they are not those of the current record.
`StoreAlwaysAgrees` rests on `QuietSuccess` and `QuietFailure`: an outcome that is not a transition
leaves every persisted field alone, which is why writing on transitions only is enough. The two
action properties need one more conjunct, that without lost writes a circuit that is not closed has
the row it wrote itself, so that what a restart loads is what was in memory; with lost writes a
restart may go back to an older row, which both properties except.

**`UpstreamFailoverProofs`**: `TypeCorrect`, `NoProbeEverLeaks`, `EveryKeyIsTried`, for any number of
requests, BaseURLs and keys. The invariant has the types of each request's locals (`LocalTypes`), the
soundness of the circuits, `LoopsAgree` (between attempts, the attempts made are as many as the keys
marked as failed, which is what makes the loop's bound right) and `CompactHolds` (compact, which has
no deferred release, holds no probe but that of the key it is trying).

**`RoutingProofs`**, for channels, priorities, attempts and keyword lists of any number.
- *Selection*: `NoneTriedTwice`, `OpenAvoided`, `BestIsSelected`, `NothingLeftOut`. `AttemptsCounted`
  says that a request has made as many attempts as it has failed channels; `LimitHolds` that, while
  the console changes nothing, the limit taken at the beginning is the number of enabled channels and
  the failed ones are among them. So a request that has used up its attempts has tried them all.
- *Requests*: `AlwaysAnsweredOnce`, `LeavingAlwaysCostsOneKey`. Nothing is written before the stage
  that ends the request (`Unanswered`), and once a key has been blamed for a client that left, no
  stage is left from which another is called (`BlameOnce`).
- *Errors*: `JudgementsAlwaysFit` is a case distinction over the predicates of `failover.go`, for
  texts that match any of the lists; the run enumerates texts that match up to three.

**`StoresProofs`**
- *Channel logs*: `LogFound`, `LogClosed`, `ResultsLogged`. An index kept for a request is that of a
  ring which is not empty (`LocatedInRing`); an attempt has no entry before it is recorded nor while it
  is about to be written again, and none that is ended while it runs (`Progress`).
- *Write path*: `ImplementsLog` (`BufferSpec => StoresInOrder`) is a refinement: initial states map to
  initial states, and every step maps to a step of `RecordLog` or changes nothing there. It needs that
  a flusher is between taking and unlocking iff it holds the lock (`OneFlush`), has a batch iff it has
  yet to get rid of it, and that one asynchronous flush runs at a time (`AsyncOnce`). `ClosingFlushes`
  adds `LastRound`: what the last round of `flushLoop` leaves behind, nothing comes after.
  `AllQueried` and `DeletedGone` add `PromiseInv`: what was accepted before the deletion or the query
  took the buffer is from then on in its batch or in the table, because the lock keeps it out of
  anybody else's batch; ids tell records apart that are in different places.
- *URL order*: `UrlsInOrder` needs that the states kept at an index never list a URL twice, whichever
  channel left them there: two lists are compared as sets.
- *Sessions*: `HistoryCarried`. What led to a call is the intersection of all sets that are closed under
  "previous response", so no recursion is needed: the history of a session is such a set
  (`MappedWhole`), whatever was cut, dropped or appended between the reading and the mapping.
- *Recovery*: `SlotsAlwaysRecovered`, for every period: `Covered` is claimed of the checkpoint and of
  the file (a restart reads the file), together with: no checkpoint lies in the future, and the timer's
  slot is later than the last one passed.
- *Dispatchers*: `NobodyStranded`: a request inside the read lock keeps its dispatcher open
  (`InsideOpen`), and a queued request is in a queue of an open dispatcher, which therefore has a
  goroutine.
- *Capability tests*: `NoModelStaysOpen`, `CancelledJobsStay`: the invariant follows the runner of a job
  through its stages: what it has not begun is queued (`NotBegun`), what it has begun is in its hands
  (`Begun`), and once it is over, an open model has a retest at work on it (`Over`). It is a claim
  about the jobs that are not `disturbed` only.

**`ConfigHistoryProofs`**
- *Configuration*, for lists of any length, any keys and updates, any number of requests with
  stale indices. `KeysAlwaysKept` says that no step loses a key of a channel that stays, also when its
  save fails; only a reload or a restart may, of memory and not of the file, after the two have drifted
  apart. It rests on `NamesInv` (ids are unique in memory and in the file, whatever has drifted: a
  channel decoded over another takes its id, too) and on what decoding keeps (`DecodedCarries`).
  `KeysAlwaysHome` has the invariant `ConfigInv`, which the undrifted part of `KeysAlwaysKept` needs as
  well: until memory and file drift apart, the channels in the file are channels in memory, ids are unique and each key is in
  its own channel's pool. A step either leaves the list alone or replaces it by a `Successor`, whose
  channels are old ones with fewer foreign keys and no fewer of their own; that is proved of each
  operation, the lemmas before it say what selecting from, deduplicating and reordering a list does.
  `KeysAlwaysHome` states `drift \/ KeysStayHome`, which is less than the run checks, because
  `KeysStayHome` alone is false outside the run's bounds. TLC shows both ways: a channel in front of
  another is deleted from the file by hand, and the next one is decoded over it; or, with a reload
  pending, the save of a new channel and that of a deletion both fail, and the reload decodes the old
  list over the shifted one. Disabled and historical keys pass on. `KeysAlwaysHomeUnedited` is the
  unconditional property where this cannot be: no changes of the file by hand and at most one failed
  write; then each channel of a file that is about to be reloaded has its place in memory
  (`SamePlaces`).
- *Request history*: all that `request_history` checks, for any finite set of requests. The
  invariant is one predicate `Sound(h, p, c, f)` of a history, its indices, the stages and the fates, so
  that the lemmas about slices apply to intermediate histories of an action, too. Its conjunct `Owned`
  is the strengthening: the record of a connected request always has its index, so a second record is
  appended only when there is none. `WalksCountOnce` adds the walk: as long as nobody has cancelled,
  the array it reads mirrors the history where they overlap (`Mirrored`), no two of its cells with a
  model belong to one request (`Single`), and a request already counted is not met again (`Ahead`): a
  cell that is written under the walk is that of a request that connects only now (`Reached`).

**`RelayProofs`**, for any capacity of the channels, any number of chunks and any upstream.
- *Messages*: `MessagesWhole`, `MessagesProper`. The invariant `RelayInv` divides what the provider has
  produced into what the handler has passed on, what waits in the preflight's buffer and the channel,
  and what the goroutine has still to send (`Handling`); the client has seen the first part, but for
  the usage (`Shown`). That events follow one another is a relation between neighbours (`Chained`), so
  a prefix, and any stretch, of what was produced keeps it. `Producing` ties the provider's two flags
  to the last event it made.
- *Chat and Gemini*: `ChatGeminiWhole`, `ChatGeminiProper`. `ChunkInv` says for each route what the
  flags know of the lines already read: that nothing follows the finish of the answer rests on the
  upstream's protocol where the relay keeps no record of it (`ClaudeHeard`, `OpenAIHeard`,
  `ResponsesHeard`).
- *Responses*: `ResponsesWhole`. `ResponsesInv` says that what was written and is about to be written
  is what the lines passed on so far convert to from a fresh state: the second conversion starts
  over, so the preflight's does not show.

**`StreamsProofs`**
- *Responses*: `ResponsesProper`. `Answered` says what the lines of an upstream convert to: an orderly
  answer, whose items the converter's state knows. There is one such relation for each converter:
  `ClaudeItems` (items are numbered as they open, one is open at a time), `GeminiItems` (reasoning and
  the message in either order, each given its number once) and `ChatItems` (reasoning, message and
  calls, whose numbers follow those of the items before them). `ChatShape` is the strengthening of the
  last: calls are numbered as the upstream numbers them, and reasoning and text are closed once there
  is one. The relations, and so the theorem, hold for as long as the upstream keeps to `InTurn`: Chat
  reasons, then speaks, then calls, and a thought of Gemini that text has interrupted is not resumed.
  More lines only add to an answer (`ConvertedPrefix`), so whatever prefix of it has been written, the
  next event follows.
- *All streams*: `AnswersAlwaysWhole`, `ProtocolsAlwaysKept`, for `MCStreams` without its bounds. A step
  of one part is a step of its own specification and a stutter of the others (`OneStepOfEach`), so the
  invariants join; each client's protocol is then implemented step by step, that of Responses under
  `InTurn`. Reasoning that a Responses upstream sends a Gemini client under `delta` is left out of what
  must arrive (see *Converters* above).

Some arguments look like inductions over data and are not. Orders and first elements come from the
library's theorems on finite sets and on well-founded relations, used for one fixed set at a time.
Folds are treated the same way: `Converted` is a recursive function over the lines; that it exists and
stays within its type follows because there is no least number of lines for which it does not
(`LeastNumber`, `StepsMakeFunction`), and `ConvertedAppend`, like `ContentAppend` and `PiecesAppend`,
says what one more line adds, which is all the invariants need.

Only model-checked:
- every liveness property (`OpenExpires`, `RequestsReturn`, `QuotaKeyReturns`, `StreamsEnd`): fairness
  and ENABLED are out of the provers' reach;
- the violations, which are counterexamples.

## 6. Not modelled

Legacy metrics identities and the migration of their rows; statistics and counters for display that
only read under the lock; fields of a channel that no decision about keys reads, and the settings of
the whole gateway; the limit on affinity users; virtual and redirect protocols, cached results,
snapshots and the gc of capability jobs; authentication and model lists. The conversion of requests
and of whole (not streamed) answers rewrites one JSON document into another: data without control.
HTTP clients, middleware and the web console are input and output.

What is abstracted inside the modules:

- *Streams.* Texts are pieces with a kind; block indices, ids and the numbers in usage are left out.
  A chunk has one kind; a Chat chunk with content and a finish reason is two lines. Items of a
  Responses upstream come one after another; an upstream of the Messages API keeps to its protocol,
  and so does one of the Responses API whose lines are passed through;
  reasoning, text and calls of a Chat or Gemini upstream come in any order, but a Chat upstream finishes
  after them, and its `[DONE]` is never first. Redacted thinking, the
  patching of token counts and the 60 s timeout of the drain are left out.
- *Gateway.* The order of channels and keys is nondeterministic; the status line of an images stream
  counts as the beginning of an answer.
- *Errors.* Several text fields are one; 400 stands for the statuses decided by the text, 401 for 403
  too, and there are no redirects.
- *Stores.* Records arrive in the order of their timestamps (retention cuts a prefix). A deletion or
  flush that failed lets deleted records come back; the properties about them are conditional on no
  write having failed. Session tokens are counted per output item. Response ids of upstreams are
  unique; streamed responses are never recorded.
- *Configuration.* A failing write leaves the file as it was; the file is written in one step, so the
  crash that leaves it truncated is left out. Writes fail, and the file is edited, only while memory
  holds at least as many channels as the file. Operators give a channel keys of its own. Of an update
  only keys, status, promotion and priority matter. An empty list stays empty.
