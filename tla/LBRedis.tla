------------------------------- MODULE LBRedis -------------------------------
(***************************************************************************)
(* One LB route of gpustack-lb on the redis backend: the context role      *)
(* (context.go), the finisher role (finisher.go) and the store they share  *)
(* (redis_store.go).  A request runs                                       *)
(*                                                                         *)
(*   idle -> loading -> published -> reserving -> running -> done          *)
(*                                                                         *)
(* and may leave as bypassed (fallback pass), rejected (503 or 429) or     *)
(* done (the client went away).  Redis runs each script atomically; what   *)
(* is not atomic is everything around it: a script runs some time after it *)
(* was sent, its answer may never come, and the release at stream end is   *)
(* fire-and-forget.                                                        *)
(*                                                                         *)
(* Ranking is left open: capability plugins may order the candidates in    *)
(* any way, so the walk order of a request is any order of its set.        *)
(* Requests may come from any number of gateways with one common clock.    *)
(* A local variable is reset once the handler or message that holds it is  *)
(* finished with it.                                                       *)
(***************************************************************************)
EXTENDS Integers, FiniteSets, SequencesExt

CONSTANTS
  Req,            \* requests; each is also the token of its own entry
  Target,         \* Candidate.Key() of the configured candidates
  Cluster,        \* backends
  NoTarget,       \* no candidate chosen
  ClusterOf,      \* Target -> Cluster
  MaxRun,         \* Target -> Nat: maxRunningRequests, 0 = unlimited
  Provider,       \* candidates of kind provider, exempt from health
  HasWeight,      \* candidates whose config carries a weight
  PositiveWeight, \* those whose weight is not zero
  FailOpen,       \* failOpen of the route
  MaxAge,         \* maxInflightAgeMs
  Threshold,      \* unhealthyThreshold
  Cooldown,       \* cooldownMs
  Ramp,           \* rampMs
  MinInflightTTL, \* minInflightTTLSeconds
  MinHealthTTL,   \* minHealthTTLSeconds
  TickMs,         \* granularity of the modelled clock
  MaxTime,        \* bound: the clock stops here
  Endings         \* Req -> SUBSET Outcome: the ends its stream may come to

Outcome == {"ok", "fail"}

ASSUME ConfigAssumption ==
  /\ IsFiniteSet(Req) /\ IsFiniteSet(Target)
  /\ NoTarget \notin Target
  /\ ClusterOf \in [Target -> Cluster]
  /\ MaxRun \in [Target -> Nat]
  /\ Provider \subseteq Target
  /\ HasWeight \subseteq Target /\ PositiveWeight \subseteq HasWeight
  /\ FailOpen \in BOOLEAN
  /\ MaxAge \in Nat \ {0} /\ Threshold \in Nat \ {0}
  /\ Cooldown \in Nat \ {0} /\ Ramp \in Nat \ {0}
  /\ MinInflightTTL \in Nat \ {0} /\ MinHealthTTL \in Nat \ {0}
  /\ TickMs \in Nat \ {0} /\ MaxTime \in Nat
  /\ Endings \in [Req -> SUBSET Outcome]

VARIABLES
  now,
  \* the request, in the filter chain
  pc, loadAt, published, probation, order, start, chosen, token,
  \* the two redis calls whose delivery matters
  reserve, pick, release, doneAt, outcome,
  \* redis
  inflight, inflightExp, health, healthExp

stream  == <<pc, loadAt, published, probation, order, start, chosen, token>>
wire    == <<reserve, pick, release, doneAt, outcome>>
redis   == <<inflight, inflightExp, health, healthExp>>
vars    == <<now, stream, wire, redis>>
-----------------------------------------------------------------------------
Clean == [f |-> 0, e |-> 0, r |-> 0]

Larger(a, b) == IF a >= b THEN a ELSE b

\* Seconds, as EXPIRE takes them.
InflightTTLSeconds == Larger((MaxAge * 2) \div 1000, MinInflightTTL)
HealthTTLFloor     == MinHealthTTL   \* fault: the configured times ignored
HealthTTLSeconds   == Larger(((Cooldown + Ramp) * 2) \div 1000, MinHealthTTL)

CutoffNow(at) == at   \* fault: maxInflightAgeMs not subtracted

\* Score at or below which an entry has leaked and no longer counts.
Cutoff(at) == at - MaxAge

Live(t, at) == {q \in inflight[t] : start[q] > Cutoff(at)}
-----------------------------------------------------------------------------
Init ==
  /\ now = 0
  /\ pc = [r \in Req |-> "idle"]
  /\ loadAt = [r \in Req |-> 0]
  /\ published = [r \in Req |-> {}]
  /\ probation = [r \in Req |-> {}]
  /\ order = [r \in Req |-> <<>>]
  /\ start = [r \in Req |-> 0]
  /\ chosen = [r \in Req |-> NoTarget]
  /\ token = [r \in Req |-> FALSE]
  /\ reserve = [r \in Req |-> "none"]
  /\ pick = [r \in Req |-> 0]
  /\ release = [r \in Req |-> "none"]
  /\ doneAt = [r \in Req |-> 0]
  /\ outcome = [r \in Req |-> "ignored"]
  /\ inflight = [t \in Target |-> {}]
  /\ inflightExp = [t \in Target |-> 0]
  /\ health = [c \in Cluster |-> Clean]
  /\ healthExp = [c \in Cluster |-> 0]

(***************************************************************************)
(* Context role.  LoadStates pauses the request; a failed dispatch is      *)
(* LoadFails with no pause in between.                                     *)
(***************************************************************************)
Arrive(r) ==
  /\ pc[r] = "idle"
  /\ pc' = [pc EXCEPT ![r] = "loading"]
  /\ loadAt' = [loadAt EXCEPT ![r] = now]
  /\ UNCHANGED <<now, published, probation, order, start, chosen, token, wire, redis>>

\* x-higress-fallback-from: neither role touches the request.
Fallback(r) ==
  /\ pc[r] = "idle"
  /\ pc' = [pc EXCEPT ![r] = "bypassed"]
  /\ UNCHANGED <<now, loadAt, published, probation, order, start, chosen, token, wire, redis>>

Ejected(t, h, at) == t \notin Provider /\ at < h[ClusterOf[t]].e

Recovering(t, h, at) ==
  /\ t \notin Provider
  /\ h[ClusterOf[t]].e <= at /\ at < h[ClusterOf[t]].r

\* buildCandidateSet: the health filter, and failOpen when it leaves nothing.
Publish(r, h) ==
  LET alive == {t \in Target : ~Ejected(t, h, loadAt[r])}
  IN /\ published' = [published EXCEPT
          ![r] = IF alive = {} /\ FailOpen THEN Target ELSE alive]
     /\ probation' = [probation EXCEPT ![r] = {t \in Target : Recovering(t, h, loadAt[r])}]
     /\ pc' = [pc EXCEPT ![r] = "published"]
     /\ loadAt' = [loadAt EXCEPT ![r] = 0]
     /\ UNCHANGED <<now, order, start, chosen, token, wire, redis>>

LoadReply(r) == pc[r] = "loading" /\ Publish(r, health)

\* Dispatch error, redis error, timeout, malformed reply: no state at all.
LoadFails(r) == pc[r] = "loading" /\ Publish(r, [c \in Cluster |-> Clean])

(***************************************************************************)
(* Finisher role, request headers.                                         *)
(***************************************************************************)

\* reserveOrder after selectCandidate.  A weighted set stops at the winner
\* of the dice, which has a positive weight if any candidate has.
ReserveOrders(S) ==
  IF S \intersect HasWeight = {}
    THEN SetToSeqs(S)
    ELSE LET drawn == IF S \intersect PositiveWeight = {} THEN S ELSE S \intersect PositiveWeight
         IN [1..1 -> drawn]

RejectEmpty(r) ==
  /\ pc[r] = "published" /\ published[r] = {}
  /\ pc' = [pc EXCEPT ![r] = "rejected"]
  /\ probation' = [probation EXCEPT ![r] = {}]
  /\ UNCHANGED <<now, loadAt, published, order, start, chosen, token, wire, redis>>

SendReserve(r) ==
  /\ pc[r] = "published" /\ published[r] # {}
  /\ order' \in {[order EXCEPT ![r] = o] : o \in ReserveOrders(published[r])}
  /\ published' = [published EXCEPT ![r] = {}]
  /\ start' = [start EXCEPT ![r] = now]
  /\ pc' = [pc EXCEPT ![r] = "reserving"]
  /\ reserve' = [reserve EXCEPT ![r] = "sent"]
  /\ UNCHANGED <<now, loadAt, probation, chosen, token, pick, release, doneAt, outcome, redis>>

\* The walk order is needed for as long as the script has not run.
Forget(r) == [order EXCEPT ![r] = IF reserve[r] = "sent" THEN @ ELSE <<>>]

\* Fault: the preferred candidate is published, not the one reserved.
RoutePreferred(r, t, reserved) ==
  /\ pc' = [pc EXCEPT ![r] = "running"]
  /\ chosen' = [chosen EXCEPT ![r] = order[r][1]]
  /\ token' = [token EXCEPT ![r] = reserved]

\* finalizeSelection with a candidate.
Route(r, t, reserved) ==
  /\ pc' = [pc EXCEPT ![r] = "running"]
  /\ chosen' = [chosen EXCEPT ![r] = t]
  /\ token' = [token EXCEPT ![r] = reserved]

ReserveReply(r) ==
  /\ pc[r] = "reserving" /\ reserve[r] = "executed"
  /\ \/ /\ pick[r] > 0
        /\ Route(r, order[r][pick[r]], TRUE)
     \/ /\ pick[r] = 0
        /\ pc' = [pc EXCEPT ![r] = "rejected"]
        /\ UNCHANGED <<chosen, token>>
  /\ order' = Forget(r) /\ pick' = [pick EXCEPT ![r] = 0]
  /\ UNCHANGED <<now, loadAt, published, probation, start, reserve, release, doneAt, outcome, redis>>

\* Fault: a call that redis never answers is not resumed.
ReserveFailsAnswered(r) ==
  /\ pc[r] = "reserving" /\ reserve[r] = "executed"
  /\ Route(r, order[r][1], FALSE)
  /\ order' = Forget(r) /\ pick' = [pick EXCEPT ![r] = 0]
  /\ UNCHANGED <<now, loadAt, published, probation, start, reserve, release, doneAt, outcome, redis>>

\* Dispatch error, redis error, timeout, malformed reply: the preferred
\* candidate without a reservation -- though the script may still run.
ReserveFails(r) ==
  /\ pc[r] = "reserving"
  /\ Route(r, order[r][1], FALSE)
  /\ order' = Forget(r) /\ pick' = [pick EXCEPT ![r] = 0]
  /\ UNCHANGED <<now, loadAt, published, probation, start, reserve, release, doneAt, outcome, redis>>

(***************************************************************************)
(* End of the stream.                                                      *)
(***************************************************************************)

\* finisherOnStreamDone: the stream of a routed request ends.
StreamDone(r) ==
  /\ pc[r] = "running"
  /\ pc' = [pc EXCEPT ![r] = "done"]
  /\ release' = [release EXCEPT ![r] = "sent"]
  /\ doneAt' = [doneAt EXCEPT ![r] = now]
  /\ outcome' \in {[outcome EXCEPT ![r] = oc] :
                     oc \in IF chosen[r] \in Provider THEN {"ignored"} ELSE Endings[r]}
  /\ UNCHANGED <<now, loadAt, published, probation, order, start, chosen, token,
                 reserve, pick, redis>>

\* The client goes away before a candidate was chosen: the hook returns at
\* once, and a callback still due finds no stream.
Disconnect(r) ==
  /\ pc[r] \in {"loading", "published", "reserving"}
  /\ pc' = [pc EXCEPT ![r] = "done"]
  /\ published' = [published EXCEPT ![r] = {}]
  /\ probation' = [probation EXCEPT ![r] = {}]
  /\ loadAt' = [loadAt EXCEPT ![r] = 0]
  /\ order' = Forget(r) /\ pick' = [pick EXCEPT ![r] = 0]
  /\ UNCHANGED <<now, start, chosen, token, reserve, release, doneAt, outcome, redis>>
-----------------------------------------------------------------------------
(***************************************************************************)
(* Redis.                                                                  *)
(***************************************************************************)
\* An emptied sorted set is no key at all; EXPIRE renews key's time to live.
Expiry(key) ==
  [t \in Target |-> IF inflight'[t] = {} THEN 0
                    ELSE IF t = key THEN now + InflightTTLSeconds * 1000
                    ELSE inflightExp[t]]

HasRoomInclusive(t, at) ==   \* fault: one too many
  MaxRun[t] = 0 \/ Cardinality(Live(t, at)) <= MaxRun[t]

HasRoom(t, at) == MaxRun[t] = 0 \/ Cardinality(Live(t, at)) < MaxRun[t]

\* reserveScript: the first target of the order with room; the walk prunes
\* every target it visits.
ReserveScript(r) ==
  LET o == order[r]
      Visited(n) == {o[i] : i \in 1..n}
      Pruned(n)  == [t \in Target |-> IF t \in Visited(n) THEN Live(t, start[r]) ELSE inflight[t]]
      Full(n)    == \A i \in 1..n : ~HasRoom(o[i], start[r])
  IN /\ reserve[r] = "sent"
     /\ reserve' = [reserve EXCEPT ![r] = "executed"]
     /\ \/ \E n \in 1..Len(o) :
             /\ Full(n - 1) /\ HasRoom(o[n], start[r])
             /\ inflight' = [Pruned(n) EXCEPT ![o[n]] = @ \union {r}]
             /\ inflightExp' = Expiry(o[n])
             /\ pick' = [pick EXCEPT ![r] = IF pc[r] = "reserving" THEN n ELSE 0]
        \/ /\ Full(Len(o))
           /\ inflight' = Pruned(Len(o))
           /\ inflightExp' = Expiry(NoTarget)
           /\ UNCHANGED pick
     /\ order' = [order EXCEPT ![r] = IF pc[r] = "reserving" THEN o ELSE <<>>]
     /\ UNCHANGED <<now, pc, loadAt, published, probation, start, chosen, token,
                    release, doneAt, outcome, health, healthExp>>

ReserveLost(r) ==
  /\ reserve[r] = "sent"
  /\ reserve' = [reserve EXCEPT ![r] = "lost"]
  /\ order' = [order EXCEPT ![r] = IF pc[r] = "reserving" THEN @ ELSE <<>>]
  /\ UNCHANGED <<now, pc, loadAt, published, probation, start, chosen, token,
                 pick, release, doneAt, outcome, redis>>


\* Threshold resolved by the finisher: one strike for a request admitted in
\* the recovery window.
Strikes(r) == IF chosen[r] \in probation[r] THEN 1 ELSE Threshold

\* Faults: a success takes one failure off; a failure of an
\* ejected cluster adds its cooldown to the one that runs.
AfterOutcomeDecays(h, r) ==
  CASE outcome[r] = "ok"   -> [h EXCEPT !.f = @ - 1]
    [] outcome[r] = "fail" -> [h EXCEPT !.f = @ + 1]
    [] OTHER -> h

AfterOutcomeStacks(h, r) ==
  LET from == Larger(h.e, doneAt[r])
  IN CASE outcome[r] = "ok"   -> [h EXCEPT !.f = 0]
       [] outcome[r] = "fail" ->
            IF h.e > doneAt[r] \/ h.f + 1 >= Strikes(r)
              THEN [f |-> 0, e |-> from + Cooldown, r |-> from + Cooldown + Ramp]
              ELSE [h EXCEPT !.f = @ + 1]
       [] OTHER -> h

AfterOutcome(h, r) ==
  CASE outcome[r] = "ok"   -> [h EXCEPT !.f = 0]
    [] outcome[r] = "fail" ->
         IF h.f + 1 >= Strikes(r)
           THEN [f |-> 0, e |-> doneAt[r] + Cooldown, r |-> doneAt[r] + Cooldown + Ramp]
           ELSE [h EXCEPT !.f = @ + 1]
    [] OTHER -> h

\* doneScript: give the slot back, prune, record the outcome.  A success on
\* a clean count writes nothing, so it does not refresh the health key.
DoneScript(r) ==
  LET t == chosen[r]
      c == ClusterOf[t]
      touched == outcome[r] = "fail" \/ (outcome[r] = "ok" /\ health[c].f # 0)
  IN /\ release[r] = "sent"
     /\ release' = [release EXCEPT ![r] = "executed"]
     /\ inflight' = [inflight EXCEPT ![t] =
                       Live(t, doneAt[r]) \ (IF token[r] THEN {r} ELSE {})]
     /\ inflightExp' = Expiry(t)
     /\ health' = [health EXCEPT ![c] = AfterOutcome(@, r)]
     /\ healthExp' = [healthExp EXCEPT ![c] =
                        IF touched THEN now + HealthTTLSeconds * 1000 ELSE @]
     /\ doneAt' = [doneAt EXCEPT ![r] = 0]
     /\ probation' = [probation EXCEPT ![r] = {}]
     /\ UNCHANGED <<now, pc, loadAt, published, order, start, chosen, token,
                    reserve, pick, outcome>>

DoneLost(r) ==
  /\ release[r] = "sent"
  /\ release' = [release EXCEPT ![r] = "lost"]
  /\ doneAt' = [doneAt EXCEPT ![r] = 0]
  /\ probation' = [probation EXCEPT ![r] = {}]
  /\ UNCHANGED <<now, pc, loadAt, published, order, start, chosen, token,
                 reserve, pick, outcome, redis>>

\* Time passes; keys whose time to live ran out are gone.
Tick ==
  /\ now + TickMs <= MaxTime
  /\ now' = now + TickMs
  /\ inflight' = [t \in Target |-> IF inflightExp[t] <= now' THEN {} ELSE inflight[t]]
  /\ health' = [c \in Cluster |-> IF healthExp[c] <= now' THEN Clean ELSE health[c]]
  /\ inflightExp' = Expiry(NoTarget)
  /\ healthExp' = [c \in Cluster |-> IF healthExp[c] <= now' THEN 0 ELSE healthExp[c]]
  /\ UNCHANGED <<stream, wire>>
-----------------------------------------------------------------------------
Settled(r) ==
  /\ pc[r] \in {"bypassed", "rejected", "done"}
  /\ reserve[r] # "sent" /\ release[r] # "sent"

\* Every stream has ended, every message has been dealt with, and the
\* bounded clock has stopped.
Stopped ==
  /\ \A r \in Req : Settled(r)
  /\ now + TickMs > MaxTime
  /\ UNCHANGED vars

Next ==
  \/ \E r \in Req :
       \/ Arrive(r) \/ Fallback(r) \/ LoadReply(r) \/ LoadFails(r)
       \/ RejectEmpty(r) \/ SendReserve(r) \/ ReserveReply(r) \/ ReserveFails(r)
       \/ StreamDone(r) \/ Disconnect(r)
       \/ ReserveScript(r) \/ ReserveLost(r) \/ DoneScript(r) \/ DoneLost(r)
  \/ Tick
  \/ Stopped

Spec == Init /\ [][Next]_vars

\* The wrapper calls back once for every dispatched call, with an error when
\* redis is silent; a resumed request reaches the finisher.  Nothing makes a
\* stream end: the AI route has no timeout.
Fairness ==
  \A r \in Req :
    WF_vars(\/ LoadReply(r) \/ LoadFails(r) \/ RejectEmpty(r) \/ SendReserve(r)
            \/ ReserveReply(r) \/ ReserveFails(r))

FairSpec == Spec /\ Fairness
-----------------------------------------------------------------------------
(***************************************************************************)
(* Properties.                                                             *)
(***************************************************************************)
TypeOK ==
  /\ now \in Nat
  /\ pc \in [Req -> {"idle", "bypassed", "loading", "published", "reserving",
                     "running", "rejected", "done"}]
  /\ loadAt \in [Req -> Nat]
  /\ published \in [Req -> SUBSET Target]
  /\ probation \in [Req -> SUBSET Target]
  /\ order \in [Req -> Seq(Target)]
  /\ start \in [Req -> Nat]
  /\ chosen \in [Req -> Target \union {NoTarget}]
  /\ token \in [Req -> BOOLEAN]
  /\ reserve \in [Req -> {"none", "sent", "executed", "lost"}]
  /\ pick \in [Req -> Nat]
  /\ release \in [Req -> {"none", "sent", "executed", "lost"}]
  /\ doneAt \in [Req -> Nat]
  /\ outcome \in [Req -> Outcome \union {"ignored"}]
  /\ inflight \in [Target -> SUBSET Req]
  /\ inflightExp \in [Target -> Nat]
  /\ health \in [Cluster -> [f : Nat, e : Nat, r : Nat]]
  /\ healthExp \in [Cluster -> Nat]

Reserved(r) == pc[r] = "running" /\ token[r]

Young(r) == now - start[r] < MaxAge

\* maxRunningRequests is a hard cap over the whole deployment: of the
\* requests that were admitted with a reservation and are younger than
\* maxInflightAgeMs, a target never runs more than its cap -- whatever redis
\* delays, loses or expires meanwhile.
HardCap ==
  \A t \in Target : MaxRun[t] > 0 =>
    Cardinality({r \in Req : Reserved(r) /\ chosen[r] = t /\ Young(r)}) <= MaxRun[t]

\* The count least-load reads covers every reserved request for as long as it
\* is young: no other request's pruning and no key expiry takes its slot away.
SlotHeld == \A r \in Req : Reserved(r) /\ Young(r) => r \in inflight[chosen[r]]

\* Every entry in redis has an owner: a request waiting for the answer that
\* names this target, one running here or whose release has not been carried
\* out, or one that never learned of its reservation.  So a release that
\* arrives frees the slot, and a cap rejection leaves none behind.
Accounted ==
  \A t \in Target : \A r \in inflight[t] :
    \/ pc[r] = "reserving" /\ reserve[r] = "executed" /\ pick[r] > 0 /\ order[r][pick[r]] = t
    \/ pc[r] \in {"running", "done"} /\ token[r] /\ chosen[r] = t /\ release[r] # "executed"
    \/ pc[r] \in {"running", "done"} /\ ~token[r]

\* The redis backend implements the abstract budget.
Budget == INSTANCE LBBudget WITH clock <- now, asked <- start, held <- inflight
BudgetSpec == Budget!Spec

\* A cluster is only ever ejected on the evidence of unhealthyThreshold
\* requests that failed to reach it.
EjectionNeedsEvidence ==
  \A c \in Cluster : health[c].e > 0 =>
    Cardinality({r \in Req : release[r] = "executed" /\ outcome[r] = "fail"
                               /\ ClusterOf[chosen[r]] = c}) >= Threshold

\* An ejection ends: failures reported while a cluster is ejected restart the
\* cooldown but never stack it, and the recovery window follows it directly.
EjectionBounded ==
  \A c \in Cluster :
    /\ health[c].e <= now + Cooldown
    /\ health[c].e > 0 => health[c].r = health[c].e + Ramp

\* Ejections are deserved and end (recordOutcome and the health script).
EjectionSound == EjectionNeedsEvidence /\ EjectionBounded

\* The health key outlives the recovery it describes: no expiry readmits a
\* cluster before its cooldown and its ramp are over.
EjectionOutlived ==
  [][\A c \in Cluster : health[c].r > now' => health'[c].e > 0]_vars

\* A request is never left parked: once it waits for redis it is routed,
\* rejected or abandoned by its client.
NeverParked ==
  \A r \in Req : pc[r] = "loading" ~> pc[r] \in {"running", "rejected", "done"}
=============================================================================
