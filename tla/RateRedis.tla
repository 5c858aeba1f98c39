------------------------------- MODULE RateRedis -------------------------------
(***************************************************************************)
(* gpustack-rate-limit on the redis backend: the request-phase check, the  *)
(* Lua script (multi_level_limit.lua), its callback, and the accounting of *)
(* tokens at stream end (main.go, backend.go, metrics.go).  Requests come  *)
(* from any thread of any gateway; the script carries the second at which  *)
(* its sender read the clock and may run later, or never.                  *)
(***************************************************************************)
EXTENDS RateWindows

CONSTANTS
  Req,        \* requests
  Arrivals,   \* who sends them: functions from Req to [route, path, attrs]
  Config,     \* [global, rules]: the plugin's configurations
  MaxTokens,  \* bound: total_tokens of a response
  MaxTime     \* bound: the clock stops here

ASSUME RedisAssumption ==
  /\ IsFiniteSet(Req) /\ IsFiniteSet(Arrivals)
  /\ \A a \in Arrivals : DOMAIN a = Req
  /\ Accepted(Config)
  /\ MaxTokens \in Nat /\ MaxTime \in Nat

Caller == UNION {Range(a) : a \in Arrivals}
Key == Keys(Config, Caller)

\* The entries of the request and of the response phase for each caller.
ChecksOf == [c \in Caller |-> Checks(Config, c)]
PendingOf == [c \in Caller |-> Pending(Config, c)]

\* The entries of all callers, each with the limit behind its key.
AllChecks == UNION {Range(ChecksOf[c]) : c \in Caller}

\* RateQuota.Limits lets positive windows and quotas pass, requests are counted
\* in rolling windows only, and a calendar goes on in both directions.
ASSUME EntriesAssumption ==
  \A e \in AllChecks :
    /\ e \in [key : Key, limit : {e.limit}, quota : Nat, mode : {"check", "check_and_add"}]
    /\ IF e.limit.starts = {} THEN e.limit.window \in Nat \ {0}
       ELSE /\ e.mode = "check" /\ e.limit.starts \subseteq Int
            /\ \A t \in 0..MaxTime :
                 (\E s \in e.limit.starts : s <= t) /\ (\E s \in e.limit.starts : s > t)

VARIABLES
  now,
  zset,      \* redis: Key -> set of [req, count, score, ran], ran being history:
             \* when the script was executed
  expire,    \* redis: Key -> the second the key expires at
  pc, caller, start,  \* each request: phase, attributes, clock of the check
  check,     \* its Eval: none, sent, SUCCESS, LIMITED or lost
  limited,   \* the key that the script of a LIMITED request named
  add, doneAt, tokens,  \* its fire-and-forget add: none, sent, over
  charged,   \* history: Key -> everything ever recorded there
  metrics    \* the counters of metrics.go

request == <<pc, caller, start, check, limited, add, doneAt, tokens>>
redis   == <<zset, expire, charged>>
vars    == <<now, redis, request, metrics>>

NoLimit == <<>>

Init ==
  /\ now = 0
  /\ zset = [k \in Key |-> {}]
  /\ expire = [k \in Key |-> 0]
  /\ pc = [r \in Req |-> "idle"]
  /\ caller \in Arrivals
  /\ start = [r \in Req |-> 0]
  /\ check = [r \in Req |-> "none"]
  /\ limited = [r \in Req |-> NoLimit]
  /\ add = [r \in Req |-> "none"]
  /\ doneAt = [r \in Req |-> 0]
  /\ tokens = [r \in Req |-> 0]
  /\ charged = [k \in Key |-> {}]
  /\ metrics = [passed |-> 0, limited |-> 0, refused |-> [k \in Key |-> 0],
                value |-> [k \in Key |-> 0]]
-----------------------------------------------------------------------------
(***************************************************************************)
(* The script.                                                             *)
(***************************************************************************)
\* ZREMRANGEBYSCORE -inf .. t - window
Prune(entries, limit, t) == {e \in entries : e.score > t - WindowAt(limit, t)}

\* windowTotal: what a later clock has recorded is not in the range.
Total(entries, t) == MapThenSumSet(LAMBDA e : e.count, {e \in entries : e.score <= t})

Over(total, quota) == total >= quota

\* Pass 1 stops at the first combination over its quota.
LimitedAt(es, t) ==
  {i \in DOMAIN es : /\ es[i].mode # "add"
                     /\ Over(Total(Prune(zset[es[i].key], es[i].limit, t), t), es[i].quota)}

RecordedOnePass(es, over) ==   \* fault: recorded while checking
  {i \in DOMAIN es : es[i].mode # "check" /\ \A j \in over : i < j}
\* Pass 2 records only if nothing is limited.
Recorded(es, over) ==
  {i \in DOMAIN es : es[i].mode # "check" /\ over = {}}

Script(es, t, r, count) ==
  LET over    == LimitedAt(es, t)
      limits  == [k \in {es[i].key : i \in DOMAIN es} |->
                    es[CHOOSE i \in DOMAIN es : es[i].key = k].limit]
      visited == {es[i].key : i \in {i \in DOMAIN es : \A j \in over : i <= j}}
      added   == {es[i].key : i \in Recorded(es, over)}
      new(k)  == IF k \in added THEN {[req |-> r, count |-> count, score |-> t, ran |-> now]} ELSE {}
  IN /\ zset' = [k \in Key |->
           (IF k \in visited THEN Prune(zset[k], limits[k], t) ELSE zset[k]) \union new(k)]
     /\ expire' = [k \in Key |-> IF k \in added THEN now + TTL(limits[k], t) ELSE expire[k]]
     /\ charged' = [k \in Key |-> charged[k] \union new(k)]
-----------------------------------------------------------------------------
(***************************************************************************)
(* Request phase.                                                          *)
(***************************************************************************)
\* Requests on a path that is not enabled, or that no combination binds, pass.
Arrive(r) ==
  /\ pc[r] = "idle"
  /\ start' = [start EXCEPT ![r] = now]
  /\ IF ChecksOf[caller[r]] = <<>>
       THEN pc' = [pc EXCEPT ![r] = "upstream"] /\ UNCHANGED check
       ELSE /\ pc' = [pc EXCEPT ![r] = "paused"]
            /\ check' = [check EXCEPT ![r] = "sent"]
  /\ UNCHANGED <<now, redis, caller, limited, add, doneAt, tokens, metrics>>

\* The call cannot be dispatched: fail open, without a metric.
DispatchFails(r) ==
  /\ pc[r] = "idle"
  /\ start' = [start EXCEPT ![r] = now]
  /\ pc' = [pc EXCEPT ![r] = "upstream"]
  /\ UNCHANGED <<now, redis, caller, check, limited, add, doneAt, tokens, metrics>>

RunCheck(r) ==
  LET es == ChecksOf[caller[r]]
      over == LimitedAt(es, start[r])
  IN /\ check[r] = "sent"
     /\ Script(es, start[r], r, 1)
     /\ check' = [check EXCEPT ![r] = IF over = {} THEN "SUCCESS" ELSE "LIMITED"]
     /\ limited' = [limited EXCEPT ![r] = IF over = {} THEN @ ELSE es[Min(over)].key]
     /\ UNCHANGED <<now, pc, caller, start, add, doneAt, tokens, metrics>>

CheckLost(r) ==
  /\ check[r] = "sent"
  /\ check' = [check EXCEPT ![r] = "lost"]
  /\ UNCHANGED <<now, redis, pc, caller, start, limited, add, doneAt, tokens, metrics>>

CountPassed(r) ==
  LET es == ChecksOf[caller[r]]
  IN metrics' = [metrics EXCEPT !.passed = @ + 1,
       !.value = [k \in Key |-> @[k] +
          Cardinality({i \in DOMAIN es : es[i].key = k /\ es[i].mode = "check_and_add"})]]

CountLimited(r) ==
  metrics' = [metrics EXCEPT !.limited = @ + 1, !.refused[limited[r]] = @ + 1]

Pass(r) == pc' = [pc EXCEPT ![r] = "upstream"] /\ CountPassed(r)

\* The callback of the answer: resume, or a local reply.
Reply(r) ==
  /\ pc[r] = "paused"
  /\ \/ check[r] = "SUCCESS" /\ Pass(r)
     \/ /\ check[r] = "LIMITED"
        /\ pc' = [pc EXCEPT ![r] = "rejected"]
        /\ CountLimited(r)
  /\ UNCHANGED <<now, redis, caller, start, check, limited, add, doneAt, tokens>>

ReplyFailsStuck(r) == FALSE   \* fault: an empty reply neither resumes nor rejects
\* An error, a timeout or a malformed answer reads as an empty array: success.
\* The script may have run, or run later.
ReplyFails(r) ==
  /\ pc[r] = "paused"
  /\ Pass(r)
  /\ UNCHANGED <<now, redis, caller, start, check, limited, add, doneAt, tokens>>
-----------------------------------------------------------------------------
(***************************************************************************)
(* Response phase.                                                         *)
(***************************************************************************)
\* total_token of the ai_log, 0 when nobody published one.  What is pending
\* was collected in the request phase, the windows are those of now.
StreamDone(r) ==
  /\ pc[r] = "upstream"
  /\ pc' = [pc EXCEPT ![r] = "done"]
  /\ doneAt' = [doneAt EXCEPT ![r] = now]
  /\ \E n \in 0..MaxTokens :
       LET es == PendingOf[caller[r]]
       IN IF n = 0 \/ es = <<>>
            THEN UNCHANGED <<add, tokens, metrics>>
            ELSE /\ tokens' = [tokens EXCEPT ![r] = n]
                 /\ \/ /\ add' = [add EXCEPT ![r] = "sent"]
                       /\ metrics' = [metrics EXCEPT !.value = [k \in Key |-> @[k] +
                            n * Cardinality({i \in DOMAIN es : es[i].key = k})]]
                    \/ add' = [add EXCEPT ![r] = "over"] /\ UNCHANGED metrics
  /\ UNCHANGED <<now, redis, caller, start, check, limited>>

\* The client leaves while the answer of redis is awaited.
Disconnect(r) ==
  /\ pc[r] = "paused"
  /\ pc' = [pc EXCEPT ![r] = "done"]
  /\ UNCHANGED <<now, redis, caller, start, check, limited, add, doneAt, tokens, metrics>>

RunAdd(r) ==
  /\ add[r] = "sent"
  /\ Script(PendingOf[caller[r]], doneAt[r], r, tokens[r])
  /\ add' = [add EXCEPT ![r] = "over"]
  /\ UNCHANGED <<now, pc, caller, start, check, limited, doneAt, tokens, metrics>>

AddLost(r) ==
  /\ add[r] = "sent"
  /\ add' = [add EXCEPT ![r] = "over"]
  /\ UNCHANGED <<now, redis, pc, caller, start, check, limited, doneAt, tokens, metrics>>

\* Redis drops a key when its time to live is over.
Tick ==
  /\ now < MaxTime
  /\ now' = now + 1
  /\ zset' = [k \in Key |-> IF expire[k] <= now' THEN {} ELSE zset[k]]
  /\ UNCHANGED <<expire, charged, request, metrics>>

Stopped ==
  /\ now = MaxTime
  /\ \A r \in Req : pc[r] \in {"rejected", "done"} /\ check[r] # "sent" /\ add[r] # "sent"
  /\ UNCHANGED vars

Next ==
  \/ \E r \in Req :
       \/ Arrive(r) \/ DispatchFails(r) \/ RunCheck(r) \/ CheckLost(r)
       \/ Reply(r) \/ ReplyFails(r) \/ Disconnect(r)
       \/ StreamDone(r) \/ RunAdd(r) \/ AddLost(r)
  \/ Tick
  \/ Stopped

Spec == Init /\ [][Next]_vars

\* The host calls the callback of every dispatched call once.
FairSpec == Spec /\ \A r \in Req : WF_vars(Reply(r) \/ ReplyFails(r))
-----------------------------------------------------------------------------
TypeOK ==
  /\ now \in Nat
  /\ \A k \in Key :
       /\ zset[k] \subseteq [req : Req, count : Nat, score : 0..now, ran : 0..now]
       /\ zset[k] \subseteq charged[k]
  /\ expire \in [Key -> Nat]
  /\ pc \in [Req -> {"idle", "paused", "upstream", "rejected", "done"}]
  /\ caller \in Arrivals
  /\ start \in [Req -> 0..now]
  /\ check \in [Req -> {"none", "sent", "SUCCESS", "LIMITED", "lost"}]
  /\ limited \in [Req -> Key \union {NoLimit}]
  /\ add \in [Req -> {"none", "sent", "over"}]
  /\ doneAt \in [Req -> 0..now]
  /\ tokens \in [Req -> 0..MaxTokens]
  /\ metrics.passed + metrics.limited \in 0..Cardinality(Req)

\* The requests recorded on a bucket within a window that ends at t.
InWindow(e, t) == {c \in charged[e.key] : t - e.limit.window < c.score /\ c.score <= t}

\* "No more than N in any continuous window": whatever is admitted, the
\* requests recorded on a request-count bucket never exceed its quota within
\* any span of its window ...
WindowKeptAlways ==
  \A e \in AllChecks : e.mode = "check_and_add" =>
    \A t \in 0..now : Cardinality(InWindow(e, t)) <= e.quota

\* ... of those that redis counts in the second their sender read the clock.
OnTime(e, t) == {c \in InWindow(e, t) : c.ran = c.score}

WindowKept ==
  \A e \in AllChecks : e.mode = "check_and_add" =>
    \A t \in 0..now : Cardinality(OnTime(e, t)) <= e.quota

\* Every script of a calendar's bucket has run in the period of its sender.
Punctual(e) ==
  e.limit.starts # {} => \A c \in charged[e.key] :
    PeriodStart(e.limit.starts, c.score) = PeriodStart(e.limit.starts, c.ran)

\* Nothing that a later check must still count is pruned or expires: neither
\* another request's window, nor a new period, nor the key's time to live
\* removes a record inside the window of now.  A period may lose its records if
\* a script of the period before runs late (PeriodKept).
CountsKept ==
  \A e \in AllChecks : Punctual(e) =>
    \A c \in charged[e.key] : c.score > now - WindowAt(e.limit, now) => c \in zset[e.key]

\* A key stands for one limit, and whoever uses it is checked against every quota
\* of that limit.  Validate makes sure of it within one configuration; the routes
\* must not give different limits one name, or one calendar two time zones.
BucketsAgree ==
  \A e \in AllChecks, who \in Caller : \A f \in Range(ChecksOf[who]) :
    f.key = e.key => f.limit = e.limit /\ f.mode = e.mode /\ e \in Range(ChecksOf[who])

\* A window holds what it must, and no more than its quota (multi_level_limit.lua).
WindowExact == BucketsAgree => WindowKept /\ CountsKept

\* "The key lives at least until the period boundary regardless of how early in
\* the period the data was written" (calendarTTL).
PeriodKept ==
  \A e \in AllChecks : e.limit.starts # {} =>
    \A c \in charged[e.key] : c.score > now - WindowAt(e.limit, now) => c \in zset[e.key]

\* A refused request is recorded nowhere, on none of its buckets.
RefusedUncharged ==
  \A r \in Req : check[r] = "LIMITED" /\ pc[r] \in {"paused", "rejected"} =>
    \A k \in Key : \A c \in charged[k] : c.req # r

\* value_total grows by "the amount that was just written into the bucket":
\* with no script under way it is at most what the buckets have recorded.
ValueIsWritten ==
  (\A r \in Req : check[r] # "sent" /\ add[r] # "sent") =>
    \A k \in Key : metrics.value[k] <= MapThenSumSet(LAMBDA c : c.count, charged[k])

\* A token quota admits nobody once the tokens recorded in the calendar period
\* reach it.
PeriodEnforced ==
  [][\A r \in Req : check[r] = "sent" /\ check'[r] = "SUCCESS" =>
       LET es == ChecksOf[caller[r]]
       IN \A i \in DOMAIN es : es[i].limit.starts # {} =>
            MapThenSumSet(LAMBDA c : c.count,
              {c \in charged[es[i].key] :
                 PeriodStart(es[i].limit.starts, start[r]) <= c.score /\ c.score <= start[r]})
              < es[i].quota]_vars

\* "global is logically read-only here" (main.go): what a route declares changes
\* nothing for the requests of the other routes.
RulesApart ==
  \A r \in Req :
    LET own == SelectSeq(Config.rules, LAMBDA rule : rule.route = caller[r].route)
    IN ChecksOf[caller[r]] = Checks([Config EXCEPT !.rules = own], caller[r])

\* A request paused for redis is resumed or refused, whatever becomes of redis.
NeverParked == \A r \in Req : pc[r] = "paused" ~> pc[r] # "paused"
=============================================================================
