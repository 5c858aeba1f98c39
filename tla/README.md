# Verification of gpustack-higress-plugins

TLA+ specifications of the gateway plugins in `src/extensions/`, the TLC
configurations that check them on small instances, and TLAPS proofs of the most
important results for every instance.

## 1. The system

GPUStack puts a chain of proxy-wasm plugins in front of its inference backends.
Each plugin is a Go program compiled to WebAssembly. Envoy loads it once **per
worker thread**, so one Envoy process runs many copies of every plugin that share
nothing but the host's *shared data* (a key-value store with a compare-and-swap
version per key), and a deployment runs several Envoys that share nothing but
redis. Within one copy execution is single-threaded and event driven: a handler
runs for each phase of a request (request headers, request body, response
headers, response chunks, stream done), and a handler that calls redis or an HTTP
service *pauses* the request and continues in a callback.

Order of the chain (`src/README.md`): in the phase AUTHN model routing (900),
`gpustack-ext-auth` (360), `gpustack-ip-acl` (350), then the load-balancing band:
context (340), session affinity (335), least load (330), decision service (328),
finisher (325); in the unspecified phase `gpustack-rate-limit` (600),
`gpustack-token-usage` (400), `gpustack-ai-proxy` (100). A response passes them
in the reverse order, so token usage reads what ai-proxy has made of it.

### Components, their state and what makes them correct

| component | state | operations | correct when |
|---|---|---|---|
| `gpustack-lb`, context role (`context.go`) | none of its own; publishes the candidate set in the request's filter state | filter ejected candidates, fail open, mark probation | an ejected backend is not published, and an empty route is not stuck |
| `gpustack-lb`, finisher role (`finisher.go`, `selector.go`) | per request: chosen candidate, reservation token | rank, reserve a slot, route or reject, release at stream end, record the outcome | a request runs only with a slot or by declared fail-open; a slot is released exactly once; no request stays paused |
| `gpustack-lb`, redis store (`redis_store.go`) | a sorted set of in-flight members per candidate, a hash of health per cluster, both with a time to live | three Lua scripts: load, reserve, done | `maxRunningRequests` is a hard cap over the deployment; leaks age out; an ejection lasts its cooldown |
| `gpustack-lb`, shared-data store (`state.go`) | a JSON list of start times per candidate, a JSON health record per cluster | CAS loops of several worker threads | the same within one process, once a key exists |
| `gpustack-rate-limit` (`main.go`, `backend.go`, `multi_level_limit.lua`) | sorted sets of timestamped counts per limit, in redis or shared data | check and add at request time, add tokens at stream end | a request over quota is refused and not counted; a failing backend fails open |
| `gpustack-ai-proxy`, token failover (`provider/failover.go`) | shared data: available and unavailable tokens, failure and success counts, a lease of one worker | take out failing tokens, retry with another, restore after cooldown or a health check, reset on a config change | a token is in one of the two lists and eventually usable again |
| `gpustack-ext-auth` (`main.go`, `marker.go`, `verification.go`) | tables of the config, a verification cache in shared data, a signed marker on the request | resolve an identity in tiers, skip or ask the server, store and evict cache entries | a revoked key is never accepted without the server; failure modes only waive the server's own failures |
| `gpustack-lb-decision-service` (`main.go`, `provider/`) | shared data: cooldown per token | a callout that retries with the next token, a verdict appended to the ranking | the request is resumed exactly once; no cooldown is lost between workers |
| `gpustack-token-usage` (`main.go`) | per stream: reassembly buffer, usage, flags | parse SSE events over chunk boundaries, add usage fields, report at stream done | what the client receives is the stream with the declared changes only; one report per request |
| `gpustack-lb-session-affinity`, `gpustack-lb-least-load` | none | append a score per candidate | every plugin's vote counts once; a session keeps its candidate when another leaves |
| `gpustack-ip-acl`, `gpustack-generic-proxy-router`, `gpustack-model-mapper`, `gpustack-set-header-pre-route` | config, and what they write on the request | one decision or rewrite per request | no forbidden client passes; the request leaves for, and asks, what was decided |
| `gpustack-ai-proxy`, requests (`main.go`, `tool_call_pairing.go`) | none | validate tool calls, clean up, merge, map roles, convert, translate | what is sent is a conversation the provider accepts, and the one the client had |
| `gpustack-ai-proxy`, answers (`main.go`, `provider/*.go`, `claude_to_openai.go`) | per stream: converter, promotion, buffers; some of it in the provider object | reassemble events, translate per vendor, convert for Claude clients | whatever the chunk boundaries, the client reads the answer whole, in order and once, in its own protocol |
| `gpustack_higress_plugins/*.py`, `scripts/` | files served over HTTP | build and serve the wasm images | no protocol |

### How they interact

* context → ranking plugins → finisher: through filter state of one request,
  on one thread, in chain order; nothing interleaves there.
* finisher ↔ store: `Reserve` pauses the request on redis; `Done` is sent and
  forgotten. On shared data both are CAS loops that other threads run too.
* context ↔ store: `LoadStates` pauses the request; a failed load means "no
  state", never a rejection.
* ext-auth ↔ server, rate-limit ↔ redis, decision service ↔ its server: pause,
  callback, resume.
* ai-proxy failover ↔ shared data: several keys, each compare-and-swapped on its
  own, by all threads.
* upstream → ai-proxy → token usage → client: body callbacks that are cut where
  the network cut them, with one last callback.
* a failed upstream → internal redirect: the request goes through the whole chain
  again with the headers and the body the first pass has left.

### What is hard here

1. *Interleaving of worker threads on shared data.* There is no
   create-if-absent: a write whose version is 0 is unconditional.
2. *Messages around atomic scripts.* A reservation may be executed after the
   gateway has given up on it; a release may be lost; releases of different
   gateways arrive in any order.
3. *Time.* Leaked entries age out, keys expire by a time to live that is
   computed by integer division, cooldowns and ramps overlap with requests
   admitted before them.
4. *Fail-open everywhere.* Errors must degrade the limit, not the route; so every
   guarantee is about reserved requests and says so.
5. *Config reload while requests run.* Handlers keep the config they started
   with; workers adopt a new one at different times.
6. *Chunk boundaries.* An event may be cut anywhere, and every layer that reads
   events keeps what it could not read yet; the last callback must flush it all.
7. *Handlers that speak through headers.* A client or an earlier pass may have
   written what a later handler reads.

`PROJECT.json` lists each hazard at its line with the properties that watch it.

## 2. The modules

### LBBudget: what the in-flight budget promises

The abstract specification: requests, targets, a clock, and which request holds a
slot of which target. `Admit` needs room, `Release` gives back one's own slot,
and otherwise a slot is lost only at age `MaxAge`. It is what `stateStore`
(`store.go`) says of `Reserve` and `Done`, whatever the backend.

### LBRedis: the two roles of gpustack-lb over redis

One action per handler, callback or script:

| code | action |
|---|---|
| `handleLBMode` sends `loadScript` | `Arrive`; its fallback branch is `Fallback` |
| callback of `LoadStates`: `buildCandidateSet`, `publishCandidates` | `LoadReply`, or `LoadFails` with no state at all |
| `finisherOnHeaders` with no candidates: `reject` | `RejectEmpty` |
| `finisherOnHeaders`: `selectCandidate`, `reserveOrder`, `Reserve` | `SendReserve` |
| redis executes `reserveScript` / never does | `ReserveScript` / `ReserveLost` |
| callback of `Reserve`: `finalizeSelection` or `rejectCap` | `ReserveReply`, `ReserveFails` (error, timeout, malformed reply: route without a token) |
| `finisherOnStreamDone` | `StreamDone`, or `Disconnect` when nothing was chosen yet |
| redis executes `doneScript` / never does | `DoneScript` / `DoneLost` |
| time passes, `EXPIRE` takes effect | `Tick` |

The script of a request and the callback it causes are independent steps: the
callback may report a failure before the script runs (`ReserveFails` while the
message is `sent`), after it, or without it. A script uses the clock of the
request that sent it (`start`, `doneAt`), not the clock at its execution.
Requests may belong to any number of gateways; their clocks agree.

Abstracted: the ranking (`SendReserve` takes *any* order of the published
candidates, or for a weighted set any one that the dice can draw; `LBCandidates`
makes it exact), the body, and the member's random suffix (a request is its own
token; the code argues uniqueness at `redis_store.go:499`).

### LBShared, LBSharedInflight and LBSharedHealth: the shared-data store

A step is one `GetSharedData` or `SetSharedData` call and the computation up to
the next, so all interleavings of the CAS loops are explored. The `cas` of a key is
the host's version; 0 means the key is absent, and a write with version 0 always
succeeds. `LBSharedInflight` is `Reserve` (`Reserve`, `LoadInflight`,
`InitInflight`, `StoreInflight`) and `removeInflight` (`StreamDone`, `DoneLoad`,
`DoneStore`); `LBSharedHealth` is `recordSuccess` and `recordFailure` with the
threshold the finisher resolves (`Admit`, `StreamEnds`, `Load`, `Store`). They use
different keys and never read each other's, which is why they are two modules;
`LBShared` is what both are parameterised by. `Established` and `Primed` are the keys
and clusters whose record exists at the start, `Faulty` and `Refusing` those for which
the host may refuse any call.

A refused call (`HostRefuses`, `HealthRefused`) is what `state.go` makes of an error
that is not a lost race. A reservation fails open on a read or an initialization, and
on a store believes it is in the list when it is not (`storeJSON` returns true,
`state.go:408`); a removal is given up; the outcome of a stream is dropped after a
read, and after a store the worker believes it recorded: the hook is over either way,
`refused`. Both loops also give up after their retries: a request whose removal did so
is `leaked`, its entry stays until it is `MaxAge` old, and an outcome that was dropped
is `gaveUp`. `tally` and `earlier` in `LBSharedHealth` are history variables: the
failures the count stands for, and what they were when a success began to be recorded.

### RateRules, RateWindows, RateRedis and RateLocal: gpustack-rate-limit

`RateRules` is `config.go` and the matching of `main.go`: a rule reads one
attribute of the request and admits it or not (an exact value, a pattern with
captures, or networks); the captures make the key fragment; a combination applies
when all its rules match, or, as a fallback, when no other of its kind did; a route's
rule adds its combinations to the inherited ones (`ConfigOf`, `Override`). The
calendars of the inherited combinations are shared by pointer and compiled again
for every rule, in its time zone (`Compiled`, `Shared`). `Valid` is `Validate`.

`RateWindows` is pure: which buckets a caller's request is checked against, with
which window, quota and time to live (`config.go`, `collectChecks`). A
caller is a request's route, path and attributes; a calendar period is the set of
seconds it starts at. Both backends extend it, and take a configuration as it is
written.

`RateRedis` is the redis backend. `Arrive` is the request hook up to the `Eval`
call and `DispatchFails` its failure; `RunCheck` and `RunAdd` are the script
(`Script`: prune and total every bucket, then record on all or none), run at any
later second or never (`CheckLost`, `AddLost`); `Reply` and `ReplyFails` are the
callback; `StreamDone` sends the token counts with the clock it reads then, and
`Disconnect` is the stream that ends without tokens. Keys expire in `Tick`.
`charged` (everything ever recorded) is history; `metrics` are the counters of
`metrics.go`.

`RateLocal` is the same promise on shared data, with one list of records per
bucket. `BatchEval` is synchronous, so a worker runs one hook at a time: `Check`
reads a bucket in pass 1, `Load` and `Store` are `localAddEntry` in pass 2,
`GiveUp` its last lost race, `HostRefuses` any of these failing for a `Faulty`
bucket. Nothing depends on the order of a list, so it is a set; two records of the
same second and count are told apart by who wrote them, which is history (`by`,
`pos`), as are `charged` (what was let through) and `lost` (what was given up).

### TokenFailover and TokenRetry: the tokens of gpustack-ai-proxy

`ApiTokens` declares what both use. `TokenFailover` is `provider/failover.go`. Available and unavailable tokens,
failure counts, success counts, the instant a token was taken out and the lease
are keys of their own in shared data. A handler that has decided what to write is
the sequence `todo` of compare-and-swap loops it has left (`TakeOut`, `Recover`,
`Restore`); `Load` and `Store` are the two calls of one attempt, `GivesUp` its
last. `Arrive`/`Pick` choose the token of a request, `Succeed` and `Fail` are the
response hooks, `Guard` is `handleUnavailableApiToken` before its writes,
`TickLease`, `SetLease`, `Scan` and `Decide` the tick, `ProbeOk` and `ProbeFails`
the callbacks of health checks, `Reload` and `Clear` a config push or the rebuild
of a worker's VM, which run `resetSharedData`.

Several instances are states of one model: `setup` holds the configurations, the
thresholds and the bounds, chosen at the start.

Four variables are history. `fails` counts the failures of a token since it came
back into service, `outAt` and `good` are when it was taken out and its successful
checks since. Taking out and returning are several writes each, which those of other
workers overtake: a token can come back while a failure of it is on record or being
handled (`Blamed`), and be taken out while its recovery is (`Pardoned`). Then the
old history goes on, for the handler under way acts on it. `dropped` are the tokens
whose addition to a list lost all its races.

`TokenRetry` is one request of ai-proxy from its arrival: the token and the list
captured for it (`SetApiTokenInUse`, `SetAvailableApiTokens`), its body refused, sent, or
held back for callouts which must change it first, an image or a context file
(`RefuseBody`, `SendBody`, `WaitForCallouts`, `CalloutDone`); then
`provider/retry.go`, the callouts that replace the paused response, and the ways
in which the original one is let through. `sent` is what the request had become
each time it was sent, and `Failovers` what other workers do to the list meanwhile.

### ExtAuth: gpustack-ext-auth

| code | action |
|---|---|
| `onHttpRequestHeaders`: the tiers of `resolveIdentity` (`Resolve`), the local skip (`LocalSkip`), or the call (`pc = "paused"`) | `Arrive`; `Redirect` for the second pass after an internal redirect |
| `evictVerification`, which the tier of `refs` runs on a stale entry | `Evict` |
| the authorization server: its answer, or none in time | `Answer`, `Outage` |
| the callback: `storeVerification`, the relayed headers, `applyMarker` (`OnSuccess`), or `handleAuthzFailure` (`OnFailure`, `Waives`) | `Callback` |
| the response is complete, or the client gone | `Leave` |
| the server creates, revokes or narrows a key, changes the route's policy | `Create`, `Revoke`, `Narrow`, `SetPolicy` |
| a worker adopts the pushed tables | `Push` |

Every worker has a configuration of its own, `conf[w]`, and a request keeps the
one it began with, `req[r].cf`. `cache` is the verification cache in shared data.
`srv.dead` (keys ever revoked) and `req[r].was` (the first pass, seen from the
second) are history.

The server is external and behaves as `main.go` and the plugin's README say: what it
answers is a function of its current tables, and the markers it signs are its own. Assumed of
the deployment: the route passes the plugin's gate, `cookie` is among
`headers_to_remove`, ai-proxy's credential on the second pass names no caller,
digests are of a kind this build verifies, and no client sends a marker that a
plugin has signed.

### DecisionCallout: gpustack-lb-decision-service

`Headers` and `Body` are the two request hooks, up to the callout; `Answer` is
its callback with every status, a verdict, nonsense or a timeout, and
`NextToken` the recursion in it. A 401, 403 or 429 marks the token:
`MarkLoad` and `MarkStore` are the two host calls of one attempt of
`markTokenUnavailable`, between which other workers step. `left` are the places of
the tokens that a callout has not tried. `Load` is a configuration load with
`resetSharedDataSafe`. `failedAt` is history: when a mark was last recorded.

### RequestChain: one request through the plugins

| code | action |
|---|---|
| `gpustack-set-header-pre-route` | `SetHeader` |
| `gpustack-generic-proxy-router`: headers, body | `RouterHeaders`, `RouterBody` |
| `gpustack-ip-acl` | `Acl` |
| gpustack-lb's context role: candidates, or the legacy mode and its body | `Publish`, `Legacy`, `LegacyBody` |
| session affinity: headers, body; least load | `AffinityHeaders`, `AffinityBody`, `LeastLoad` |
| decision service, its verdict given | `Decision` |
| finisher: skip, reject, reserve, fail open, all full; its body hook; stream done | `FinisherSkips`, `FinisherRejects`, `Reserved`, `ReserveFailsOpen`, `Exhausted`, `FinisherBody`, `StreamDone` |
| Envoy sends the request through the chain again | `Redirect` (external) |

It extends four pure modules:

* `PluginConfig`: `parseConfig` and `parseOverrideConfig` of the plugins, over raw
  configurations whose fields may be absent, null, zero or of the wrong type;
* `LBCandidates`: the published set with its penalties (exact rationals where the
  code has `float64`), the scores, `combineRanks`, the draw by weight with its
  overflow guard, the order of the reservation;
* `ModelBody`: the model name in JSON and multipart bodies, which part of a
  multipart body is the one that is rewritten, the routing headers, the last user
  message for auto routing;
* `IpAcl`: the address behind trusted proxies, exact, prefix and suffix keys and
  their precedence, what a broken configuration becomes.

A *scenario* is the configurations of a route and their defaults, the request and
what it meets (load, health, address, verdict). Store, server and clock are
constant during a request here; what changes underneath is `LBRedis` and
`DecisionCallout`. Whether the filter state of the first pass survives an
internal redirect is Envoy's affair: either.

### ModelStream: a chat request and its answer

`RequestBody` is ai-proxy's request hook behind that of token usage (which asks
for the usage the client has not asked for); `ResponseHeaders` decides how the
answer is read, and whether: ai-proxy leaves the body of a provider without response
handlers alone unless the client speaks Claude (`Read`), so that nothing is promoted
there; `Callback(n, last)` is one body callback with the next `n` atoms
of the wire through ai-proxy and then token usage; `Reset` is an upstream or a
client that goes, `StreamDone` the report, and `OtherStream` another answer of the
worker through the same provider object. The parts:

* `SseStream`: events as sequences of *atoms*, the pieces between which a cut is
  told apart by the code; splitting at blank lines, what is kept and how much
  (`MaxTail`), what a client reads;
* `ProviderStream`: the streaming handlers of OpenAI-compatible (raw, by event, or
  none), claude, bedrock, vertex and gemini, with the promotion of reasoning;
* `ClaudeStream`: the converter for Claude clients, block by block;
* `ChatMessages` and `ProviderMessages`: a conversation as roles, tool calls and
  answers; validation of tool calls, clean-up, merging, role mapping, the
  conversion from Claude, the format of every provider, and whole answers;
* `UsageTap`: token usage on events and bodies.

Text is a sequence of named pieces, so order, loss and duplication show; sampling
parameters, images, signatures and the like are left out.

### Faulty variants

Definitions whose comment begins with "fault" (`CasIgnored`, `WaivesVerdicts`,
...) are plausible mistakes. They are not used by the specifications; each
shows, substituted for the definition next to it, that some property notices.
`PROJECT.json` pairs them under `mutants`.

## 3. The runs

Each run is a configuration `X.cfg` that is checked with the MC module of its
component (`tlc -config X.cfg MCX.tla`, see `PROJECT.json`).

| run | instance | shows |
|---|---|---|
| `lb_redis_cap` | 3 requests, 2 targets of 1 slot, leak horizon 1 tick, clock 0..2 ticks | `HardCap`, `SlotHeld`, `Accounted`, and `BudgetSpec`: LBRedis implements LBBudget |
| `lb_redis_health` | 3 requests, one of which may succeed and two that fail to reach their backend, threshold 2, cooldown and ramp 1 tick, a weighted set with one zero weight, `failOpen` off | `TypeOK`, `EjectionSound` (evidence and bound), `EjectionOutlived`, `NeverParked` |
| `lb_shared_inflight` | 3 workers, 2 keys of 2 slots: one exists, the other is new and the host may refuse its calls; retries run out | `HardCap` and `EntriesExact` on the first, `FullMeansBusy` on both |
| `lb_shared_health` | 4 workers recording outcomes on one health key that exists, with 2 attempts each, the host refusing any of their calls | `HealthExact`: no recorded failure and no reset is lost, an outcome that is not recorded disturbs none, enough recorded failures eject |
| `rate_redis` | 2 requests: one consumer under two names and two routes, against another, alone, or off the limited paths; a default with a duplicate and a zero limit that a plan hides, a plan with request and token windows and a calendar period that turns over, a combination of one route | `WindowExact`, `RefusedUncharged`, `NeverParked` |
| `rate_local` | 3 workers with 2 hooks each and 2 CAS attempts for a write, two request windows that exist, a new token bucket whose calls the host may refuse | `QuotaHeld`, `NeverStarved` |
| `failover` | 2 workers, 2 tokens; cooldown with 3 requests; or health checks only, with 2 requests and a push from {t1, t2} to {t2} while handlers of the old configuration go on; or one token that health checks restore, after one check or two, with 2 and 3 requests | `NoTokenLost`, `LeaseExclusive`, `FailuresNeeded`, `EarnedReturn` |
| `retry` | 4 tokens, 2 retries, 3 callouts before the request, a list that changes underneath | `SentSoundly`, `NeverParked` |
| `ext_auth` | 2 workers, a digest key and a key in `refs` that expires, one change of the server's tables, one request of every kind on one connection with a redirect, or two with the `refs` key of which one is redirected | `ConsumerExact`, `RevokedStaysOut`, `LocalVerdictExact`, `FallbackSurvives`, `NeverParked` |
| `decision` | 2 workers, 2 requests, 2 tokens with a cooldown in a global configuration, or none, one reload for each worker, clock 0..2 | `OneWayOn`, `NoWastedCallout`, `NeverParked` |
| `chain` | the scenario families `Ranking`, `AllOut`, `Split`, `AccessControl`, `Names` and `Catalogues` of `MCRequestChain`, one internal redirect, sums of weights overflow at 7 | `RoutedAsDecided`, `SplitKept`, `VotesFair`, `AclHolds`, `InheritanceSound` |
| `stream` | conversations of up to 4 messages, streams and bodies of 5 protocols for 2 kinds of client, cut into callbacks at every place of a kind | `ClientIntact`, `ClaudeGrammar`, `ReportExact`, `RequestSound` |

The type invariants of the other modules hold on the same instances: add
`INVARIANT TypeOK` to `failover`, `rate_redis`, `rate_local` or `ext_auth`, and
`RetryTypeOK` to `retry`.

**Bounds.** All clocks stop at `MaxTime`, past which nothing new can be told
apart: in the LB runs `TickMs` is one redis second, and one tick past a leak
horizon or cooldown of one tick lets an entry be young, exactly at the horizon, and
over it. Three requests on two targets are the least where one is told that
everything is full while another's prune interferes. In `rate_redis` the clock
passes the end of the longest window and the turn of the period; two requests
suffice because each quota of one or two is reached by one or two of them, and a
third multiplies the states without a new step. In `rate_local` a worker runs two
hooks, so that a hook meets the record that its own earlier one left. `failover`
bounds requests, which bounds failures; two workers are the least that race, and the
two setups with one token are the least in which a return overtakes the handling of a
failure (`Blamed`) or the reverse (`Pardoned`). Two attempts for each
compare-and-swap (the code has ten) make giving up happen in every shared-data run,
while some worker still gets through. A write that was given up, or that the host
refused, is excepted where a property is about what is written: it is in `lost`, in
`dropped`, or not in `tally`.
`Endings` says how each request of the LB runs may end: all may succeed
where the cap is the question, and in `lb_redis_health` one may, which is enough
for a success to come between the failures of two others. `Cooldown` and `Ramp` are
positive, as the code makes them (`config.go:206`). In
`ext_auth` one change of the tables and one tick are enough for a configuration, a
cache entry, a marker or an answer to be stale when it is used; `Plans` in
`MCExtAuth` lists the worlds and requests tried, and two concurrent requests share
only the cache, which only the `refs` key uses. In `decision` `MaxRetries` of 2 is
reached by two writers. In `chain` three candidates are the least where a rank, a
tie, a zero and a full one differ, and every family varies one concern fully
with the others at rest. In `stream` `MaxTail` and `MaxHeld` (limits of
a mebibyte) are larger than the longest event, or smaller than a body, so that both
sides happen; `cuts` names the kinds of place at which a scenario may be cut, all of
them where the code keeps state there.

**Symmetry** is over requests or workers only, in runs whose properties treat
them alike; no run with a liveness property uses it, and `rate_redis`, whose
specification is fair, has none.

**Fairness.** The host calls the callback of a dispatched call exactly once, with
an error after its timeout: `LoadReply`/`LoadFails`, `ReserveReply`/`ReserveFails`
(LBRedis), `Reply`/`ReplyFails` (RateRedis), `RetryCall` and `CalloutDone`
(TokenRetry), `Callback` (DecisionCallout, where a callback also runs to its end),
and in ExtAuth that the host runs what a handler began and that a call ends in an
answer or an outage. In LBRedis a resumed request also reaches the finisher.
Nothing is assumed of redis, of delivery, of the authorization server, or of a
stream ever ending.

**Deadlock** is checked in every run but `chain`, where a request comes to its end.
`Stopped` (LB, rate limit, failover) and `Over` (retry, decision) may repeat for
ever once all requests have settled and the clock has stopped; a finished stream
stutters; ExtAuth's requests come back.

### Where the code does less than a sentence beside it says

None of these is assumed away: each property below is stated in its module or MC
module and is violated by the instance named, under `SPECIFICATION Spec` and with
that property alone. An instance is the constants above its table, with the one it
names replaced, or a run's own configuration with a constant changed.
Some are documented limits of a design, some are mistakes of a comment, and some
are mistakes of the code.

The constants of `lb_shared_inflight.cfg`, `lb_shared_health.cfg`, `decision.cfg`
or `chain.cfg`:

| instance | property | what happens | the sentence |
|---|---|---|---|
| `lb_shared_inflight` with `Established = {}`, `Faulty = {}` | `HardCapFromTheStart` | A reads a new key as absent; B initializes it and is admitted; A's unconditional write empties it, and A is admitted too | `state.go:182`: a new key can only under-count, "never double-admit" |
| `lb_shared_health` with `Primed = {}` | `EjectionNotErased` | a failure that read the absent key writes its count over an ejection | `state.go:363`: the impact is "a missed or double-counted *failure tally*" |
| `lb_shared_health` as it is | `ConsecutiveOnly` | a success whose read or write the host refuses, which `storeJSON` takes for done, leaves the failures from before it in the count | `state.go:287`: `Fails` "is the count of **consecutive** ones" |
| `decision` with `Config <- RulesOnly`, `Established = FALSE` | `NoWastedCallout` | without a global configuration no load creates the key, and the first two marks both write with version 0 | decision service `main.go:666`: the write is guarded, so that no VM loses the other's cooldown |
| `decision` with `Config <- TwoLists`, `Token = {"t1", "t2", "t3"}` | `NoWastedCallout` | two routes share a service but not the tokens: a mark of one prunes the tokens of the other | the same |
| `chain` with `INVARIANT BrokenDefaultNarrows` | `BrokenDefaultNarrows` | a default that does not parse loses the trusted proxies too; a route with keys of its own is then checked against the proxy's address | `gpustack-ip-acl/README.md:78`: "a typo stops traffic instead of widening access" |

MCRateRedis with `Req = {r1, r2}`, `Arrivals <- JustBob`, `MaxTokens = 2`,
`MaxTime = 4`, `Grace = 1` and the `Config` named; MCRateLocal with
`Worker = {w1, w2}`, `Turns = 1`, `Caller <- Ann`, `MaxTokens = 0`,
`MaxRetries = 3`, `Established <- Every`, `Faulty = {}`, `MaxTime = 3`, `Grace = 1`:

| instance | property | what happens | the sentence |
|---|---|---|---|
| `Tokens` | `PeriodEnforced` | the window of a calendar quota is `now - periodStart` (`config.go:601`) and the script removes scores up to and including `periodStart`: tokens of the period's first second are dropped | `gpustack-rate-limit/README.md:225`: "Tokens allowed per calendar day" |
| `Tokens`, `MaxTime = 7` | `PeriodKept` | a script that runs after the turn of the period sets the time to live of its sender's period, which is over: what the new period has counted expires with it | `main.go:139`: "the key lives at least until the period boundary" |
| `Window` | `WindowKeptAlways` | a delayed script does not see what later clocks recorded | `config.go:383`: "no more than N in any continuous window" |
| `Window` | `ValueIsWritten` | a script that never ran reads as an empty array, and is counted as written | `metrics.go:207`: "the amount that was just written into the bucket" |
| `Abroad`, `Arrivals <- JustAnn` | `RulesApart` | a rule with a time zone compiles the calendars it inherits again, and they are the default's own: the other routes' quotas turn over in that zone | `main.go:229`: "global is logically read-only here" |
| rate_local, `OneWindow` | `QuotaExact` | two workers check before either writes | `README.md:677`: with a single replica "the quotas are exact" |
| rate_local, `OneWindow`, `Established = {}` | `NoCountEverLost` | the first write of a bucket is not compared | `backend.go:247`: "per-key atomicity across workers" |
| rate_local, `SameWindow` | `ChargedOnce` | `per_minute` and `per_custom` of 60 s have one key | `main.go:451`: "so they never collide" |

MCTokenFailover with `Worker = {w1, w2}`, `Token = {t1, t2}`, `Req = {r1, r2, r3}`,
`LeaseTime = 2`, `CasMaxRetries = 3` and the `Setups` named; MCTokenRetry with
`Token = {t1, t2}`, `Failover = FALSE`, `MaxRetries = 2`, `MaxCallouts = 0`,
`Changes = {"settings"}`:

| instance | property | what happens | the sentence |
|---|---|---|---|
| `SetupStuck` | `RecoveryScheduled` | cooldown recovery puts the token into service before it removes the timestamp (`failover.go:185`); a failure in between takes it out with a new timestamp, which the recovery removes: the tick never recovers it | `README_EN.md:152`: "restored automatically after the cooldown expires" |
| `SetupThreshold` | `ThresholdEnforced` | two workers read the same count and both only count | `README_EN.md:147`: `failureThreshold` failures trigger failover |
| `SetupRebuild` | `EarnedReturnThroughRebuild` | a rebuilt VM resets what all workers share | `README_EN.md:107`: restored "after a successful health check or after the cooldown" |
| `SetupPush` | `NoStaleToken` | a handler of the old configuration writes after the reset | `failover.go:146`: stale state "does not leak into the new one" |
| `SetupStart` | `ConfigStarts` | `initApiTokens` compares and swaps once, and loses | `test/cooldown.go:169`: "cooldown only config starts ok" |
| `SetupEmpty` | `NeverTokenless` | a request comes between the removal and the addition | `failover.go:661`: "will use random one of the unavailable tokens" |
| `SetupBoth` | `OutageStartsAnew` | a token is taken out while its return is under way, or a check of it on record: what an earlier outage earned counts towards the next | `README_EN.md:148`: `successThreshold` checks before restoring |
| `SetupBoth` | `ServiceStartsAnew` | a token comes back while another worker is counting a failure from before: it counts towards the next outage | `README_EN.md:147`: `failureThreshold` failures trigger failover |
| `failover.cfg` with `INVARIANT NothingDropped` | `NothingDropped` | the addition to a list loses every race and is given up (`failover.go:419`): the token is in neither list, and no tick finds it | `README_EN.md:152`: "restored automatically after the cooldown expires" |
| retry | `SameRequest` | the body saved for a retry is that of the provider's entry (`main.go:422`), before what the provider's own hook changes; `retry.go:139` transforms it once more, always as a chat completion | `main.go:421`: "save the transformed body to the context in case of retry" |
| retry | `OnlyNonStreaming` | nobody asks whether the request is streaming | `README.md:152`: only non-streaming requests are retried |
| retry, `Token = {t1}` | `FailedIsRetried` | with one token nothing is left to retry with | `README.md:97`: a failed request is retried at once |

The constants of `ext_auth.cfg`:

| instance | property | what happens | the sentence |
|---|---|---|---|
| as it is | `RevokedNotCached` | an answer from before the revocation is stored after it, with the configuration of the request's start | `verification.go:155`: "Once cleared it is not re-cached" |
| as it is | `FallbackSurvivesUnlisted` | a key that the server knows and the pushed tables do not yet: the plugin replaces the server's marker by one that the second pass cannot use | `main.go:945`: "When anything is missing, leave the server's marker alone" |
| `Plans <- Later`, `Key = {kB, kR}`, `Digest = {}`, `Granted = {}` | `OnlyDeadEvicted` | a worker that has not adopted a new key yet evicts its entry | `verification.go`: evicts what "`refs` no longer vouches for" |

MCModelStream with `NoId = "none"`, `MaxTail = 12`, `MaxHeld = 8`, `MaxOthers = 2`
and the `Scenarios` named:

| instance | property | what happens | the sentence |
|---|---|---|---|
| `LateFlush` | `ClientIntact` | what promotion holds back is flushed while an event is handled; a last callback that brings none (`main.go:517`) loses it | promotion gives a client that would see nothing the reasoning |
| `NoHandler` | `PromotedAsTold` | ai-proxy does not read the body of a provider without response handlers (`main.go:508`), whatever the option says: nothing is promoted | `main.go:596`: "If provider doesn't implement any streaming handlers but we need Claude conversion or thinking promotion" |
| `PromotedClaude` | `ClaudeGrammar` | what promotion adds is put in front of the last callback: before the message has started, or after its blocks are over | a Claude client reads a Claude stream |
| `HeldRaw` | `ClientIntact` | for a provider whose streams are read raw, promotion takes every callback for whole events, and passes one that is cut on as reasoning | the same |
| `CutFrame` | `ClientIntact` | bedrock's frames are decoded callback by callback; one that is cut is lost | an event may be cut anywhere, as token usage reassembles (`main.go:1680`) |
| `BetweenNewlines` | `ClientIntact` | of a blank line cut in two, the second line end is dropped with the rewriting of the event behind it: the client reads two events as one | the same |
| `InsideDone` | `ClientIntact` | [DONE] cut in two is taken for a truncated fragment, buffered and never forwarded | token usage `main.go:1675`: without the exception "the client would never see the end-of-stream mark" |
| `InsideData` | `ReportExact` | a cut inside the field name leaves the first part forwarded and the second unread | `main.go:1680`: buffered "so the prefix survives reassembly" |
| `EveryUsage` | `ReportExact` | of a stream that tells its usage in every chunk, as gemini's does, the first one is reported | a report is of the whole answer |
| `GeminiClaude` | `ClaudeGrammar` | gemini's chunks carry no role: the converter never starts the message | a Claude client reads a Claude stream |
| `TwoCalls` | `ClaudeGrammar` | a second parallel tool call opens its block before the first one is closed | the same |
| `SharedProvider` | `OwnUsage` | `claude.go:330` keeps the usage of a stream in the provider, which all streams of a worker share | a report is of its own request |
| `GeminiTool`, `VertexDeveloper` | `RolesKnown` | the roles `tool` and `developer` are passed on | `gemini.go:481`: "API shall vomit if role is not user or model" |

The sentences without a quotation are what the surrounding code is for; the others
are quoted.

## 4. The proofs

`X_proofs.tla` holds the theorems about module `X`, `ApiTokens_proofs.tla` those
about TokenFailover and TokenRetry, and `LBShared_proofs.tla` those about
LBSharedInflight and LBSharedHealth, for every value of the constants that the named
assumptions of the module allow. No number of requests, workers, gateways, keys,
retries, redirects or seconds is fixed, nor how long a list of candidates, patterns or
addresses is, and the sets of them need not be small.

| module | theorem | property of the runs |
|---|---|---|
| LBRedis | `TypeCorrect`, `SlotAlwaysHeld`, `CapIsHard`, `EntriesAccounted` | `TypeOK`, `SlotHeld`, `HardCap`, `Accounted` |
| | `ImplementsBudget` | `BudgetSpec`: LBRedis implements LBBudget |
| | `EjectionDeserved`, `EjectionLasts` | `EjectionSound`, `EjectionOutlived` |
| LBSharedInflight | `ListExact`, `CapIsHard`, `FullIsBusy` | `EntriesExact`, `HardCap`, `FullMeansBusy` |
| LBSharedHealth | `HealthIsExact` | `HealthExact` |
| | `EjectionIsKept` | (`EjectionKept`, in no run: a write that did not see an ejection never erases it) |
| RateRedis | `RefusedIsFree`, `WindowsHold` | `RefusedUncharged`, `WindowExact` |
| RateLocal | `QuotaIsHeld`, `RefusedAtQuota` | `QuotaHeld`, `NeverStarved` |
| TokenFailover | `TokensKept`, `OneHolder`, `TakenOutForCause`, `ReturnsEarned` | `NoTokenLost`, `LeaseExclusive`, `FailuresNeeded`, `EarnedReturn` |
| TokenRetry | `SentOnce` | `SentSoundly` |
| DecisionCallout | `AlwaysOneWayOn`, `NoCalloutWasted` | `OneWayOn`, `NoWastedCallout` |
| ExtAuth | `ConsumerIsExact`, `RevokedKeysStayOut`, `LocalVerdictsExact`, `FallbacksSurvive` | `ConsumerExact`, `RevokedStaysOut`, `LocalVerdictExact`, `FallbackSurvives` |
| RequestChain | `AddressRulesHold`, `RulesInheritSoundly`, `DecisionIsCarriedOut` | `AclHolds`, `InheritanceSound`, `RoutedAsDecided` |

None of the properties is inductive as it stands. In each module an inductive
invariant is named (`IInv`, or those of the paragraphs below), shown to hold
initially and to survive every action, and the theorem follows from it. What
follows says what each one needed.

### LBRedis

`HardCap` counts *running requests* and knows nothing of redis. The invariant is

    IInv == TypeOK /\ ClocksPast /\ Phases /\ KeysOutlive /\ StoreCapped
            /\ AnswerHeld /\ SlotHeld

* `StoreCapped`: a sorted set never outgrows its cap. It is what the script
  checks, but it says nothing of requests;
* `SlotHeld` ties the two: a young reserved request is in the set of its target.
  It survives another request's prune because a prune uses a clock that is not
  ahead (`ClocksPast`: no message carries a time later than now);
* it survives expiry because every entry's leak horizon ends before its key's
  time to live (`KeysOutlive`), which rests on the arithmetic lemma
  `TTLCoversAge`: twice the age divided by 1000, rounded down, with a floor of at
  least one second, covers the age;
* between the script and its answer the slot belongs to a request that is not
  reserved yet (`AnswerHeld`), and `Phases` says, request by request, which
  control states go with which messages.

`Accounted` also needs that a token is only given by the answer of a script that has
run (`AInv`). The refinement maps each slot of LBBudget to a member of a sorted set:
`BudgetInit` maps the initial states, `BudgetStep` every action; a script that prunes
and admits at once is one step of the abstract budget, and a callback is a stutter.

Ejections need evidence that outlives the count (`HInv`): the failure count is at
most the number of failures reported since (`CountsEvident`), and a request that was
admitted on probation, whose single failure ejects, saw an ejection that had its own
evidence (`ProbationEvident`). The two deadlines of an ejection move together and
stay within reach (`Deadlines`), and the health key outlives both
(`HealthKeysOutlive`, `TTLCoversRecovery`).

### LBSharedInflight and LBSharedHealth

Entries of the list are bare start times, so nobody's entry can be told from
another's of the same millisecond: the invariant counts. For each key and start time
the positions that hold it (`Where`) are at least as many as the running requests that
own it (`OwnersListed`, for young times on `Reliable` keys) and at most as many as
those that own or have leaked it (`EntriesOwned`, on every key). The step that matters
is a write by compare-and-swap: it replaces the list by what its worker computed from an
earlier copy, and `Snapshot` says that as long as the version is the one the worker
loaded, that copy is still the list.

`CapIsHard` and `FullIsBusy` are about requests, so both sum these counts over start
times. `CapIsHard` adds up the young running requests and finds them within the list,
which is within its cap; `FullIsBusy` goes the other way, from the entries that are
young for the worker that finds a key full to requests that run on it or have not given
it back (`Holding`). It needs that the list holds no start of 0, the token of a
reservation that failed open (`NoneAtZero`).

`Prune` is a recursive function, `RemoveFirst` an operator of SequencesExt; what
they keep, start time by start time, is proved with the least length at which it would
fail (`WellFoundedInduction`), since the provers have no induction over data.

In LBSharedHealth the failure count equals the number of failures in the history
`tally` (`Counts`), those have all ended (`TalliesDone`), and a success remembers what
had failed before it (`Remembers`); `AllCounted` says that nothing but a success or
an ejection takes a failure off the tally. A call the host refuses (`HealthRefused`)
ends the hook with the record as it was: it adds nothing to the tally and takes nothing
off, which is also why `ConsecutiveOnly` fails.

All but `FullIsBusy` speak of established keys: on a new key the code loses updates, as
the table above shows.

### RateRedis

A refused request's records could come from its own script or from the accounting of
its tokens; both are excluded by what was sent (`Uncharged`, `AddsLast`).

`WindowExact` bounds windows that end by now. A late script carries a clock behind
records of others, so to be inductive the bound must hold for windows that end
later as well (`OnTimeKept`), and a record must be known to stand in redis while
any window may want it: `Expiries` says that a key which expires holds nothing
that is counted at that instant or after. For calendars this rests on scripts that run
in the period of their sender (`Punctual`); where they do not, `PeriodKept` fails.

The theorem's hypothesis `BucketsAgree` says that whoever uses a bucket is checked
against the same limits of it. `Validate` forbids duplicate names in one
configuration, but two routes that give one name to combinations with
different quotas share a bucket, and a request of the more generous one is then
counted in the other's window. It holds in `rate_redis.cfg`. `EntriesAssumption`
says what a configuration's checks are: keys with a positive window, quota and time to
live.

### RateLocal

`Typed` says where each `BatchEval` stands: what it works on is one of the callers'
lists, what pass 2 is still to write has been charged (`Promised`) and nothing else
has (`Owner`), and a list about to be stored is the present one, pruned and with the
worker's record, unless the key has been written since (`Copies`).

*No record is forgotten* (`KeptIn`). A successful write replaces the list by what its
worker computed, which by `Copies` is the present list but for what the worker's
clock prunes. That clock is behind the present one, and a window only slides
forwards, a calendar's too (`EdgeAdvances`, over `PeriodStart`'s choice of the latest
start): what is pruned does not count any more.

*The bound.* The number of requests in a window is not inductive: workers that have
passed the check of this bucket and look at their next one are about to add to it. So
the bound is on both together (`Claims`). It grows in one step only, a check of this very
bucket that passes. Its worker has counted less than the quota; and of the requests
in the window, every one it did not count is by a hook that is still writing, of
which there is one for each worker.

The check adds *counts* and the bound is on *requests*: a sum of positive counts is at
least their number (`TotalCounts`). `RefusedAtQuota` needs that the sum of a part is
no greater than that of the whole (`TotalGrows`). The fold of the community modules
picks elements by `CHOOSE`, so that the order of summing does not matter has to be
proved (`TotalSplits`); all are inductions on the size of the set, done with the least
counterexample. `BucketsAgree` is the premise as in RateRedis, here a part of the
property.

### TokenFailover

`Typed` says what each handler has left to do, in which order, and what its copies are
worth; every step is then one that touches no list, count or time (`Handles`) or the
effect of one operation (`Operates`), so that each invariant below is shown for
these two only.

* `NoTokenLost`: a token is moved by taking it out of one list and adding it to the
  other, two writes between which it is in neither, and a push empties the lists
  before it fills them. `Kept`: a token in neither list is owed to one by some
  worker's plan (`Coming`), or its addition was given up, or a push is not over.
* `FailuresNeeded`: the threshold is compared with a count read earlier. `Blame`:
  the count on record and the handlers that have seen a failure they have not counted
  (`Charging`) are together no more than the failures there were.
* `EarnedReturn`: the same of successful checks (`Credited`), and a time on record is
  not before the token was taken out (`Stamped`); `Deserved` says that whoever has
  an addition to the list ahead has one of the two reasons.
* `LeaseExclusive` says who runs the tick and nothing of the lease. Whoever runs it
  holds the lease with the present time (`Holds`), so nobody else finds it free; and
  who found it free before that loaded a version which the holder's write has replaced
  (`Waits`).

The last two hold until the first push (`First`), which resets lease and times under
those who rely on them.

### TokenRetry, DecisionCallout

In TokenRetry the tokens left to try, the one in use apart, have not been sent
(`SentTokens`), and the tokens sent are at most one more than the retries counted
(`Counted`).

In DecisionCallout the invariant says, for every control state, how often the
request was sent, resumed and ranked (`Stands`). For `NoWastedCallout`, every failure
that still matters to some configuration is in the shared map, and a map about to be
stored is the present one with its token, less what has cooled down, unless the key
was written since (`Marks`). `NoCalloutWasted` is under two hypotheses, each of which the
code needs: the key exists (`Established`), and no route prunes tokens that another
knows, or sooner (`OneList`); where one fails, so does the property, as the table above
shows. Both hold in the run.

### ExtAuth

Whom a request on its way to the model stands for was decided earlier: by a marker of
its first pass, by a cache entry some other request stored, or by an answer given
while tables changed. The invariant says of every identity, marker and answer that it
names the client it came with (`Claims`), of a cache entry that its key is one
without a digest, and of a configuration that it is one which the server has had
(`TablesOK`).

`LocalVerdictExact` compares a local decision with what the server would answer to
the client's own request, although on the second pass the credential is gone and
only a marker is left. That marker may have been minted from an answer which named a
caller the tables still list as somebody else, when the server had revoked the key and
the route was public. So the invariant adds that a key and the consumer it goes by
agree unless the key is gone for good (`Certain`, `Gone`): with the server's own
tables such a marker is not used (`MarkerHolds` re-checks the key). `Gone` is stable
under every change of the tables and the clock (`Outlives`), which is where it matters
that a revoked key is never created again. `AdmitsExactly` and `RefusesExactly`
are the two halves of the comparison.

`FallbackSurvives` compares two passes of one request, with pushes, revocations and
ticks in between. What links them is the marker (`Passes`): a first pass that named its
caller leaves one that says so, or the server's own where only the server knows him.
That the second pass can use it rests on the key it is signed with; `CanSign` is the
theorem's hypothesis, and a deployment without one has no markers.

### RequestChain

The handlers of one request do not race; what these properties need is that the long
way through all the plugins, and again after a redirect, keeps what was decided early,
and that lists of any length are read as the code reads them.

`AclHolds` states what an address rule promises without the plugin's walk over the
forwarding header: the client is the last address that no trusted proxy has appended,
and the client may have written anything before it. `WalkStopsAtClient` says that the
walk from the right ends there. A consumer whom no key of the route covers keeps the
rule that the default gives him (`DefaultRuleStays`): the new patterns do not cover
him, and one replaced in place stands where it stood, so the first that covers him is
still the first. `Checked` carries it: what has got past the check was not refused by
it, consumer and configuration are what they were (`NothingReconfigured`), and a
redirect goes through the check again.

`InheritanceSound` is about every pair of a default and a route's configuration:
whichever halves of a rejection a rule sets, the merged one refuses and says the
status it is sent with (`InheritedPairRejects`), a route balances by its own candidates
(`RouteHasItsCandidates`), and a catalogue of a rule's own is the only one its
models are looked up in (`OwnCatalogueDecides`). `Sound` adds that every reply so far
is such a rejection.

`RoutedAsDecided` compares the request at the upstream with the candidate that the
finisher settled. On the first pass (`FirstPass`) nothing is held until it settles
one, and from then on the target, the entry and the name to ask for are that
candidate's; a redirect comes with the header that keeps the finisher out
(`LaterPass`). The body may have been rewritten by the router, by the legacy
mode and by the finisher: `PlanAsks` says that a rewrite which is possible asks for the
name wanted, that one which is not changes nothing, and `RouterKeeps` that the
router's walk over the parts leaves their number and kinds. The hypothesis
`NullIsNoFunction` says that the value for a missing field is not itself a record or a
list, as it is not in Go; TLC cannot evaluate it, a model value satisfies it.

The lists are built by recursive functions (`Patterns`, `projected`). That they
exist and what they collect (`CollectsExists`, `ProjectsExists`, `PatternsAreEntries`)
is shown with the least length at which it would fail.

### Assumptions

The named assumption of each module: sets of requests, workers and keys are finite where
they are counted, bounds and ages are natural numbers (positive where the code
rejects or replaces zero), and the values that stand for "nobody" or "no token" are
none of the keys, tokens or each other. ExtAuth also assumes that the server starts
without revoked keys in its tables and that a key without a digest is its own secret.
RequestChain assumes of a scenario what the parsers leave (`ScenarioAssumption`: lists
are lists, networks hold addresses, a body has its fields), and IpAcl that "no rule" is
not a rule (`NoRuleAssumption`). TLC evaluates each of them in the runs. Hypotheses of
single theorems are `BucketsAgree`, `CanSign`, `OneList` with an established key, and
`NullIsNoFunction`, discussed above.

### Only model-checked

* Liveness (`NeverParked`) under fairness is out of the provers' reach.
* `SplitKept` and `VotesFair` of RequestChain compare sums of weights and of
  rational scores, taken over sorted and filtered lists, with what was configured;
  every invariant of ModelStream compares a whole wire, folded through several layers
  of buffers, with a whole conversation. What a fold, a filter or a sort computes for
  every input is an induction over data, and these would need a theory of each.
* `TypeOK` of RateRedis, RateLocal, TokenFailover and ExtAuth: the proofs have their
  own (`Domains`, `Typed`, `Base`), which for some variables are wider.

## 5. Not modelled

* Clock skew between gateways and redis's own clock: one clock.
* A redis that loses its data while running (a restart without persistence):
  every guarantee of the store is void then, and the code relies on nothing else.
* Encodings and matching of text: hashes, regular expressions and networks are the
  sets they admit, digests, markers and signatures are unforgeable, JSON is what
  it says, names that sort before the wildcard are left out.
* gpustack-model-mapper's own configuration and body limit: its behaviour is that of
  gpustack-lb's legacy mode, which is the one modelled.
* In TokenFailover the endpoint remembered for health checks, which is data for
  the request they send, and shared-data errors other than a lost race.
  `LeaseExclusive` ends with a push, which resets the lease.
* In DecisionCallout a shared-data read of the cooldown map that the host refuses
  (decision service `main.go:717`, `main.go:731`).
* What a count of failures leaves out: the evidence of `EjectionSound` and
  `FailuresNeeded` is that enough failures were reported (in TokenFailover, since the
  token was last put into service), not that no success came between them.
* In ExtAuth the route gate and the matching of header names.
* In the rate limiter the header names and texts of a refusal.
* In ai-proxy the other APIs (embeddings, images, files, batches and so on), which
  are passed through or renamed, the rewriting of paths and headers, and the
  parsing of a provider's configuration; of a request images, documents, sampling
  parameters and signatures. Gemini with a context file, which builds its request in
  the callback, is left out; that a context file which cannot be read answers a
  request twice (`context.go:136`) is seen as one refusal.
* In token usage the names and labels of the metrics, and costs.
* Not at all: the Python packaging and the build scripts, data and I/O without a
  protocol.

Known losses of the conversions, which the model follows and no property forbids:
claude and gemini keep only the last of several system messages, bedrock drops the
text beside tool calls, gemini drops tool calls of the conversation, vertex
represents parallel calls by the first, and an answer of claude tells no cached
tokens.

## 6. Plan

Done: every component of the first section but the packaging, as the status in
`PROJECT.json` says, and the theorems of section 4.

Next, in this order:

1. The stability of periods (`PeriodEnforced`) for punctual scripts of RateRedis.
2. A theory of weighted draws and rational sums, for `SplitKept` and `VotesFair`.
3. One of event streams (that `Extract` of two callbacks in turn is that of both
   together), for the first layer of `ClientIntact`.
4. The provider code that is passed over in section 5, where it keeps state.
