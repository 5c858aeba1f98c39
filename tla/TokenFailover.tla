----------------------------- MODULE TokenFailover -----------------------------
(***************************************************************************)
(* ai-proxy's token failover (provider/failover.go): the worker threads of *)
(* one Envoy share, in shared data, the available and the unavailable      *)
(* tokens, failure and success counts, when a token was taken out, and a   *)
(* lease.  Each key has a version of its own, so moving a token is several *)
(* compare-and-swap loops in a row.                                        *)
(*                                                                         *)
(* A step is one shared-data call.  A handler that has decided what to     *)
(* write is the sequence todo of operations left.  Instead of versions,    *)
(* fresh says that nobody has written the key a worker has loaded; every   *)
(* key exists, since resetSharedData has run before any request.           *)
(***************************************************************************)
EXTENDS ApiTokens, Sequences, TLC, SequencesExt

CONSTANTS
  Worker,
  Setups,            \* what is configured, and for how long it runs: records
                     \*   configs   the tokens of each config pushed, a
                     \*             sequence of sets
                     \*   failureThreshold, successThreshold
                     \*   cooldown  cooldownDuration, 0 when it is off
                     \*   healthCheck   whether healthCheckModel is set
                     \*   requests, time    bounds: so many requests; the
                     \*             clock stops here
  LeaseTime,         \* how long a lease is respected
  CasMaxRetries,     \* casMaxRetries
  Req                \* requests

ASSUME FailoverAssumption ==
  /\ IsFiniteSet(Worker) /\ Worker # {} /\ IsFiniteSet(Req)
  /\ {"tick", "reload"} \intersect (Token \union Req \union {NoToken}) = {}
  /\ LeaseTime \in Nat /\ CasMaxRetries \in Nat \ {0}
  /\ \A s \in Setups :
       /\ s.configs \in Seq(SUBSET Token) \ {<<>>}
       /\ s.failureThreshold \in Nat \ {0} /\ s.successThreshold \in Nat \ {0}
       /\ s.cooldown \in Nat /\ s.healthCheck \in BOOLEAN
       /\ s.requests \in Nat /\ s.time \in Nat
       /\ s.cooldown > 0 \/ s.healthCheck   \* failover.Validate

Never == -1
NoLease == [vm |-> NoToken, at |-> Never]

VARIABLES
  setup,
  now,
  shared,   \* key -> value
  pc, todo, attempt,     \* each worker: control, operations left, CAS attempt
  hand, tokens, count,   \* what its handler is about, what it has read
  loaded, snap, fresh,   \* the key loaded, what to store, nobody wrote it since
  gen,                   \* the config it runs
  req,                   \* requests: [st, at, token]
  probes,                \* tokens each worker awaits a health check of
  outAt, good,           \* history of each token: when it was taken out, and
                         \* its successful checks since; of a token taken out
                         \* while it is Pardoned, since the time before
  fails,                 \* failures since it came back; of a token that came
                         \* back while it was Blamed, since the time before
  dropped                \* history: tokens whose last way into a list was
                         \* given up

worker  == <<pc, todo, attempt, hand, tokens, count, loaded, snap, fresh, gen>>
history == <<outAt, good, fails, dropped>>
vars    == <<setup, now, shared, worker, req, probes, history>>

Configs          == setup.configs
FailureThreshold == setup.failureThreshold
SuccessThreshold == setup.successThreshold
Cooldown         == setup.cooldown
HealthCheck      == setup.healthCheck

Init ==
  /\ setup \in Setups
  /\ now = 0
  /\ shared = [avail |-> Configs[1], unavail |-> {}, failures |-> [t \in Token |-> 0],
               successes |-> [t \in Token |-> 0], since |-> [t \in Token |-> Never],
               lease |-> NoLease]
  /\ pc = [w \in Worker |-> "idle"]
  /\ todo = [w \in Worker |-> <<>>]
  /\ attempt = [w \in Worker |-> 0]
  /\ hand = [w \in Worker |-> NoToken]
  /\ tokens = [w \in Worker |-> {}]
  /\ count = [w \in Worker |-> 0]
  /\ loaded = [w \in Worker |-> NoToken]
  /\ snap = [w \in Worker |-> NoToken]
  /\ fresh = [w \in Worker |-> FALSE]
  /\ gen = [w \in Worker |-> 1]
  /\ req = [r \in Req |-> [st |-> "new", at |-> NoToken, token |-> NoToken]]
  /\ probes = [w \in Worker |-> {}]
  /\ outAt = [t \in Token |-> Never]
  /\ good = [t \in Token |-> 0]
  /\ fails = [t \in Token |-> 0]
  /\ dropped = {}
-----------------------------------------------------------------------------
(***************************************************************************)
(* Operations on shared data.                                              *)
(***************************************************************************)
Op(key, do, t) == [key |-> key, do |-> do, token |-> t]

Empty == [avail |-> {}, unavail |-> {}, failures |-> [t \in Token |-> 0],
          successes |-> [t \in Token |-> 0], since |-> [t \in Token |-> Never],
          lease |-> NoLease]

\* What the operation leaves of the value v.
Result(w, op, v) ==
  CASE op.do = "add"     -> v \union {op.token}
    [] op.do = "remove"  -> v \ {op.token}
    [] op.do = "count"   -> [v EXCEPT ![op.token] = @ + 1]
    [] op.do = "uncount" -> [v EXCEPT ![op.token] = 0]
    [] op.do = "stamp"   -> [v EXCEPT ![op.token] = now]
    [] op.do = "unstamp" -> [v EXCEPT ![op.token] = Never]
    [] op.do = "init"    -> Configs[gen[w]]

\* Nothing to write: the loop ends after its read.
Noop(op, v) ==
  \/ op.do = "add" /\ op.token \in v
  \/ op.do = "remove" /\ op.token \notin v
  \/ op.do = "unstamp" /\ v[op.token] = Never

\* handleUnavailableApiToken, at the threshold.
TakeOutHalf(t) ==      \* fault: taken out, but recorded nowhere
  <<Op("avail", "remove", t), Op("failures", "uncount", t)>>
  \o (IF Cooldown > 0 THEN <<Op("since", "stamp", t)>> ELSE <<>>)
TakeOut(t) ==
  <<Op("avail", "remove", t), Op("unavail", "add", t), Op("failures", "uncount", t)>>
  \o (IF Cooldown > 0 THEN <<Op("since", "stamp", t)>> ELSE <<>>)

\* Cooldown recovery of one token.
Recover(t) ==
  <<Op("unavail", "remove", t), Op("avail", "add", t),
    Op("since", "unstamp", t), Op("failures", "uncount", t)>>

\* ... and of all that have cooled down, one after the other.
RecoverAll(ts) ==
  [i \in 1..(4 * Len(ts)) |-> Recover(ts[((i - 1) \div 4) + 1])[((i - 1) % 4) + 1]]

\* handleAvailableApiToken, at the threshold.
Restore(t) ==
  <<Op("unavail", "remove", t), Op("avail", "add", t), Op("successes", "uncount", t)>>

\* resetSharedData, then initApiTokens.
Reset ==
  [i \in 1..6 |-> Op(<<"lease", "avail", "unavail", "successes", "failures", "since">>[i],
                     "clear", NoToken)]
  \o <<Op("avail", "init", NoToken)>>
-----------------------------------------------------------------------------
Forget(w) ==
  /\ tokens' = [tokens EXCEPT ![w] = {}]
  /\ count' = [count EXCEPT ![w] = 0]

Idle(w) ==
  /\ pc' = [pc EXCEPT ![w] = "idle"]
  /\ hand' = [hand EXCEPT ![w] = NoToken]
  /\ Forget(w)
  /\ UNCHANGED todo

\* The handler goes on with the operations ops, or is over.
Do(w, ops) ==
  IF ops = <<>> THEN Idle(w)
  ELSE /\ pc' = [pc EXCEPT ![w] = "run"]
       /\ todo' = [todo EXCEPT ![w] = ops]
       /\ Forget(w)
       /\ UNCHANGED hand

Reads(w, label, list) ==
  /\ pc' = [pc EXCEPT ![w] = label]
  /\ tokens' = [tokens EXCEPT ![w] = list]
  /\ UNCHANGED <<todo, count>>

\* The operation at hand is over.
Next1(w) ==
  /\ todo' = [todo EXCEPT ![w] = Tail(@)]
  /\ pc' = [pc EXCEPT ![w] = IF Tail(todo[w]) = <<>> THEN "idle" ELSE "run"]
  /\ hand' = [hand EXCEPT ![w] = IF Tail(todo[w]) = <<>> THEN NoToken ELSE @]
  /\ attempt' = [attempt EXCEPT ![w] = 0]
  /\ UNCHANGED <<tokens, count>>

Unload(w) ==
  /\ loaded' = [loaded EXCEPT ![w] = NoToken]
  /\ snap' = [snap EXCEPT ![w] = NoToken]

\* Whoever has loaded the key will lose the race.
Write(w, key, value) ==
  /\ shared' = [shared EXCEPT ![key] = value]
  /\ fresh' = [x \in Worker |-> fresh[x] /\ x # w /\ loaded[x] # key]

(* History. *)
Awaited(op) == \E w \in Worker : op \in Range(todo[w])

\* A failure of the token is on record, or somebody is at work on one.
Blamed(t) ==
  \/ shared.failures[t] > 0
  \/ \E w \in Worker : pc[w] = "guard" /\ hand[w] = t
  \/ Awaited(Op("failures", "count", t)) \/ Awaited(Op("avail", "remove", t))

\* Something that speaks for its return is on record, or somebody is at work on
\* it.
Pardoned(t) ==
  \/ shared.since[t] # Never \/ shared.successes[t] > 0
  \/ Awaited(Op("successes", "count", t)) \/ Awaited(Op("avail", "add", t))

Record(old, new) ==
  LET out  == {t \in old \ new : ~Pardoned(t)}
      back == {t \in new \ old : ~Blamed(t)}
  IN /\ outAt' = [t \in Token |-> IF t \in out THEN now ELSE outAt[t]]
     /\ good' = [t \in Token |-> IF t \in out THEN 0 ELSE good[t]]
     /\ fails' = [t \in Token |-> IF t \in back THEN 0 ELSE fails[t]]

\* An operation has had its effect.
Effected(op) ==
  dropped' = CASE op.do = "add"  -> dropped \ {op.token}
               [] op.do = "init" -> {}
               [] OTHER          -> dropped

GivenUp(op) == dropped' = IF op.do = "add" THEN dropped \union {op.token} ELSE dropped

\* The read of one operation.
Load(w) ==
  LET op == Head(todo[w])
      v  == shared[op.key]
  IN /\ pc[w] = "run" /\ op.do # "clear"
     /\ IF Noop(op, v)
          THEN Next1(w) /\ Effected(op) /\ UNCHANGED <<loaded, snap, fresh>>
          ELSE /\ loaded' = [loaded EXCEPT ![w] = op.key]
               /\ snap' = [snap EXCEPT ![w] = Result(w, op, v)]
               /\ fresh' = [fresh EXCEPT ![w] = TRUE]
               /\ pc' = [pc EXCEPT ![w] = "store"]
               /\ UNCHANGED <<todo, hand, tokens, count, attempt, dropped>>
     /\ UNCHANGED <<now, shared, gen, req, probes, outAt, good, fails>>

GivesUp(w) == attempt[w] + 1 >= CasMaxRetries

StoresBlind(w) == TRUE   \* fault: the write does not compare
Stores(w) == fresh[w]

\* ... and its write: a lost race is retried, or given up with an error.
\* initApiTokens does not retry: the config is refused.
Store(w) ==
  LET op == Head(todo[w])
  IN /\ pc[w] = "store"
     /\ \/ /\ Stores(w)
           /\ Write(w, op.key, snap[w])
           /\ Next1(w)
           /\ Effected(op)
           /\ IF op.key = "avail" /\ op.do # "init"
                THEN Record(shared.avail, snap[w]) ELSE UNCHANGED <<outAt, good, fails>>
        \/ /\ ~Stores(w) /\ op.do # "init" /\ ~GivesUp(w)
           /\ pc' = [pc EXCEPT ![w] = "run"]
           /\ attempt' = [attempt EXCEPT ![w] = @ + 1]
           /\ fresh' = [fresh EXCEPT ![w] = FALSE]
           /\ UNCHANGED <<shared, todo, hand, tokens, count, history>>
        \/ /\ ~Stores(w) /\ op.do # "init" /\ GivesUp(w)
           /\ Next1(w)
           /\ GivenUp(op)
           /\ fresh' = [fresh EXCEPT ![w] = FALSE]
           /\ UNCHANGED <<shared, outAt, good, fails>>
        \/ /\ ~Stores(w) /\ op.do = "init"
           /\ pc' = [pc EXCEPT ![w] = "refused"]
           /\ todo' = [todo EXCEPT ![w] = <<>>]
           /\ fresh' = [fresh EXCEPT ![w] = FALSE]
           /\ UNCHANGED <<shared, hand, tokens, count, attempt, history>>
     /\ Unload(w)
     /\ UNCHANGED <<now, gen, req, probes>>

\* A write of resetSharedData: unconditional.
Clear(w) ==
  LET key == Head(todo[w]).key
  IN /\ pc[w] = "run" /\ Head(todo[w]).do = "clear"
     /\ Write(w, key, Empty[key])
     /\ Next1(w)
     /\ UNCHANGED <<now, loaded, snap, gen, req, probes, history>>
-----------------------------------------------------------------------------
(***************************************************************************)
(* Requests.                                                               *)
(***************************************************************************)
\* GetGlobalRandomToken reads the available tokens ...
Arrive(w, r) ==
  /\ pc[w] = "idle" /\ req[r].st = "new"
  /\ Cardinality({x \in Req : req[x].st # "new"}) < setup.requests
  /\ Reads(w, "pick", shared.avail)
  /\ hand' = [hand EXCEPT ![w] = r]
  /\ req' = [req EXCEPT ![r] = [st |-> "picking", at |-> w, token |-> NoToken]]
  /\ UNCHANGED <<now, shared, attempt, loaded, snap, fresh, gen, probes, history>>

\* ... and the unavailable ones, of which one is taken if none is available.
Pick(w) ==
  LET r == hand[w]
      pool == IF tokens[w] # {} THEN tokens[w] ELSE shared.unavail
  IN /\ pc[w] = "pick"
     /\ \E t \in IF pool = {} THEN {NoToken} ELSE pool :
          req' = [req EXCEPT ![r].st = "upstream", ![r].token = t]
     /\ Idle(w)
     /\ UNCHANGED <<now, shared, attempt, loaded, snap, fresh, gen, probes, history>>

\* onHttpResponseHeaders with status 200: forget the failures, if there are any.
Succeed(w, r) ==
  LET t == req[r].token
  IN /\ pc[w] = "idle" /\ req[r].st = "upstream" /\ req[r].at = w
     /\ req' = [req EXCEPT ![r].st = "done"]
     /\ IF t # NoToken /\ shared.failures[t] > 0
          THEN /\ hand' = [hand EXCEPT ![w] = t]
               /\ pc' = [pc EXCEPT ![w] = "run"]
               /\ todo' = [todo EXCEPT ![w] = <<Op("failures", "uncount", t)>>]
               /\ UNCHANGED <<tokens, count>>
          ELSE UNCHANGED <<pc, todo, hand, tokens, count>>
     /\ UNCHANGED <<now, shared, attempt, loaded, snap, fresh, gen, probes, history>>

\* ... with a status of failoverOnStatus: read the failure counts,
Fail(w, r) ==
  LET t == req[r].token
  IN /\ pc[w] = "idle" /\ req[r].st = "upstream" /\ req[r].at = w
     /\ req' = [req EXCEPT ![r].st = "done"]
     /\ IF t = NoToken
          THEN UNCHANGED <<pc, todo, hand, tokens, count, fails>>
          ELSE /\ hand' = [hand EXCEPT ![w] = t]
               /\ pc' = [pc EXCEPT ![w] = "guard"]
               /\ count' = [count EXCEPT ![w] = shared.failures[t]]
               /\ UNCHANGED <<todo, tokens>>
               /\ fails' = [fails EXCEPT ![t] = @ + 1]
     /\ UNCHANGED <<now, shared, attempt, loaded, snap, fresh, gen, probes, outAt, good, dropped>>

StrikesOne(n) == TRUE   \* fault: the first failure takes a token out
Strikes(n) == n + 1 >= FailureThreshold

\* then the available tokens, and decide.
Guard(w) ==
  LET t == hand[w]
  IN /\ pc[w] = "guard"
     /\ Do(w, IF t \notin shared.avail THEN <<>>
              ELSE IF Strikes(count[w]) THEN TakeOut(t)
              ELSE <<Op("failures", "count", t)>>)
     /\ UNCHANGED <<now, shared, attempt, loaded, snap, fresh, gen, req, probes, history>>
-----------------------------------------------------------------------------
(***************************************************************************)
(* The tick: cooldown recovery and health checks, by the lease holder.     *)
(***************************************************************************)
LeaseFree(w) ==
  \/ shared.lease = NoLease
  \/ shared.lease.vm = w
  \/ now - shared.lease.at > LeaseTime

\* tryAcquireOrRenewLease reads the lease ...
TickLease(w) ==
  /\ pc[w] = "idle" /\ LeaseFree(w)
  /\ pc' = [pc EXCEPT ![w] = "lease"]
  /\ hand' = [hand EXCEPT ![w] = "tick"]
  /\ loaded' = [loaded EXCEPT ![w] = "lease"]
  /\ fresh' = [fresh EXCEPT ![w] = TRUE]
  /\ UNCHANGED <<now, shared, todo, attempt, tokens, count, snap, gen, req, probes, history>>

\* ... and writes it, once.
SetLease(w) ==
  /\ pc[w] = "lease"
  /\ IF Stores(w)
       THEN /\ Write(w, "lease", [vm |-> w, at |-> now])
            /\ pc' = [pc EXCEPT ![w] = "scan"]
            /\ UNCHANGED <<todo, hand, tokens, count>>
       ELSE /\ Idle(w)
            /\ fresh' = [fresh EXCEPT ![w] = FALSE]
            /\ UNCHANGED shared
  /\ Unload(w)
  /\ UNCHANGED <<now, attempt, gen, req, probes, history>>

Scan(w) ==
  /\ pc[w] = "scan"
  /\ IF shared.unavail = {} THEN Idle(w)
     ELSE Reads(w, "decide", shared.unavail) /\ UNCHANGED hand
  /\ UNCHANGED <<now, shared, attempt, loaded, snap, fresh, gen, req, probes, history>>

Cooled(t) == now - shared.since[t] >= Cooldown

\* The timestamps: recover what has cooled down, probe the rest.
Decide(w) ==
  LET cooled == {t \in tokens[w] : Cooldown > 0 /\ shared.since[t] # Never /\ Cooled(t)}
  IN /\ pc[w] = "decide"
     /\ Do(w, RecoverAll(SetToSeq(cooled)))
     /\ probes' = [probes EXCEPT ![w] =
          IF HealthCheck THEN @ \union (tokens[w] \ cooled) ELSE @]
     /\ UNCHANGED <<now, shared, attempt, loaded, snap, fresh, gen, req, history>>

EnoughOne(n) == TRUE   \* fault: the first health check restores
Enough(n) == n + 1 >= SuccessThreshold

\* handleAvailableApiToken: a health check succeeded.
ProbeOk(w, t) ==
  /\ pc[w] = "idle" /\ t \in probes[w]
  /\ probes' = [probes EXCEPT ![w] = @ \ {t}]
  /\ good' = [good EXCEPT ![t] = @ + 1]
  /\ hand' = [hand EXCEPT ![w] = t]
  /\ pc' = [pc EXCEPT ![w] = "run"]
  /\ todo' = [todo EXCEPT ![w] =
       IF Enough(shared.successes[t]) THEN Restore(t) ELSE <<Op("successes", "count", t)>>]
  /\ UNCHANGED <<now, shared, attempt, tokens, count, loaded, snap, fresh, gen, req, outAt, fails, dropped>>

ProbeFails(w, t) ==
  /\ pc[w] = "idle" /\ t \in probes[w]
  /\ probes' = [probes EXCEPT ![w] = @ \ {t}]
  /\ UNCHANGED <<now, shared, worker, req, history>>

\* A config push, or a rebuild of the worker's VM: SetApiTokensFailover.
\* Requests and health checks that are under way go on.
Reload(w) ==
  /\ pc[w] = "idle" /\ gen[w] < Len(Configs)
  /\ gen' = [gen EXCEPT ![w] = @ + 1]
  /\ hand' = [hand EXCEPT ![w] = "reload"]
  /\ pc' = [pc EXCEPT ![w] = "run"]
  /\ todo' = [todo EXCEPT ![w] = Reset]
  /\ UNCHANGED <<now, shared, attempt, tokens, count, loaded, snap, fresh, req, probes, history>>

\* The unit is longer than a handler and than healthCheckTimeout: neither is
\* under way when the clock moves.
Tick ==
  /\ now < setup.time
  /\ \A w \in Worker : probes[w] = {}
  /\ \A w \in Worker : pc[w] \in {"idle", "refused"}
  /\ now' = now + 1
  /\ UNCHANGED <<shared, worker, req, probes, history>>

Stopped ==
  /\ now = setup.time
  /\ \A w \in Worker : pc[w] \in {"idle", "refused"}
  /\ UNCHANGED vars

Step ==
  \/ \E w \in Worker :
       \/ Load(w) \/ Store(w) \/ Clear(w)
       \/ Pick(w) \/ Guard(w)
       \/ TickLease(w) \/ SetLease(w) \/ Scan(w) \/ Decide(w)
       \/ Reload(w)
       \/ \E r \in Req : Arrive(w, r) \/ Succeed(w, r) \/ Fail(w, r)
       \/ \E t \in Token : ProbeOk(w, t) \/ ProbeFails(w, t)
  \/ Tick

Next == (Step /\ UNCHANGED setup) \/ Stopped

Spec == Init /\ [][Next]_vars
-----------------------------------------------------------------------------
TypeOK ==
  /\ now \in 0..setup.time
  /\ shared.avail \subseteq Token /\ shared.unavail \subseteq Token
  /\ shared.failures \in [Token -> 0..Cardinality(Req)]
  /\ shared.successes \in [Token -> Nat]
  /\ shared.since \in [Token -> {Never} \union 0..now]
  /\ pc \in [Worker -> {"idle", "pick", "guard", "lease", "scan", "decide",
                        "run", "store", "refused"}]
  /\ \A w \in Worker : (pc[w] \in {"run", "store"}) = (todo[w] # <<>>)
  /\ attempt \in [Worker -> 0..(CasMaxRetries - 1)]
  /\ gen \in [Worker -> DOMAIN Configs]
  /\ probes \in [Worker -> SUBSET Token]

Quiet == \A w \in Worker : pc[w] = "idle"

\* However the moves of several workers interleave, and though handlers of the
\* previous config go on beneath a push or a rebuild: once every worker has
\* accepted a config, none of its tokens is out of both lists, unless the write
\* that would have put it there lost all its races.
NoTokenLost ==
  Quiet /\ (\A w \in Worker : gen[w] = Len(Configs)) =>
    Configs[Len(Configs)] \subseteq shared.avail \union shared.unavail \union dropped

\* No write of a list loses all its races.
NothingDropped == dropped = {}

\* "Restored after a successful health check or after the cooldown period
\* expires": until a config is pushed, a token comes back by no other way, and
\* no check or time of before it was taken out counts, unless its recovery was
\* under way or had left something on record (Pardoned).
Earned(t) ==
  \/ Cooldown > 0 /\ now - outAt[t] >= Cooldown
  \/ good[t] >= SuccessThreshold

Returned(t) == t \in shared'.avail \ shared.avail /\ outAt[t] # Never

EarnedReturn ==
  [][(\A w \in Worker : gen'[w] = 1) => \A t \in Token : Returned(t) => Earned(t)]_vars

\* The same, though a worker's VM is rebuilt.
EarnedReturnThroughRebuild == [][\A t \in Token : Returned(t) => Earned(t)]_vars

\* A token is taken out of service only after FailureThreshold failures since
\* it last came back, or since the time before if it came back while failures
\* of it were on record or being handled (Blamed): none is counted twice over.
FailuresNeeded ==
  [][\A t \in Token, w \in Worker :
       todo'[w] # todo[w] /\ hand[w] = t /\ t \in shared.avail \ shared'.avail =>
         fails[t] >= FailureThreshold]_vars

\* "Number of consecutive request failures required before triggering
\* failover": a token that comes back has no failure on record or under way.
ServiceStartsAnew ==
  [][(\A w \in Worker : gen'[w] = 1) =>
       \A t \in shared'.avail \ shared.avail : outAt[t] # Never => ~Blamed(t)]_vars

\* "Number of successful health checks required before restoring": of a token
\* that is taken out nothing speaks yet for its return.
OutageStartsAnew ==
  [][(\A w \in Worker : gen'[w] = 1) =>
       \A t \in shared.avail \ shared'.avail : ~Pardoned(t)]_vars

\* "Only the Wasm VM that successfully acquires the lease": two workers never
\* run the tick at the same time, until a push clears the lease beneath one.
LeaseExclusive ==
  (\A x \in Worker : gen[x] = 1) =>
    \A v, w \in Worker :
      v # w /\ hand[v] = "tick" /\ hand[w] = "tick" => pc[v] = "lease" \/ pc[w] = "lease"

\* "The apiToken is restored automatically after the cooldown expires": the
\* moment it was taken out is on record for every unavailable token.
RecoveryScheduled ==
  Quiet /\ Cooldown > 0 =>
    \A t \in shared.unavail \ shared.avail : shared.since[t] # Never

\* "Number of consecutive request failures required before triggering
\* failover": a token with that many does not stay in service.
ThresholdEnforced ==
  Quiet => \A t \in shared.avail : shared.failures[t] < FailureThreshold

\* "Stale state from the previous config does not leak into the new one".
NoStaleToken ==
  Quiet /\ (\A w \in Worker : gen[w] = Len(Configs)) =>
    shared.avail \union shared.unavail \subseteq Configs[Len(Configs)]

\* A valid failover config starts.
ConfigStarts == \A w \in Worker : pc[w] # "refused"

\* "All tokens are unavailable, will use random one of the unavailable tokens":
\* a request never goes upstream without a token.
NeverTokenless == \A r \in Req : req[r].st = "upstream" => req[r].token # NoToken
=============================================================================
