---------------------------- MODULE LBSharedHealth ----------------------------
(***************************************************************************)
(* Passive health of gpustack-lb on the shared-data backend (state.go):    *)
(* the health half of Done, recordSuccess and recordFailure, run by every  *)
(* worker thread at stream end.  As in LBSharedInflight a step is one      *)
(* shared-data call, which the host may refuse, and the write of a cas     *)
(* read from an absent key is unconditional.  The in-flight half of Done   *)
(* works on other keys.                                                    *)
(***************************************************************************)
EXTENDS Integers, FiniteSets, LBShared

CONSTANTS
  Cluster,        \* backends
  Threshold,      \* unhealthyThreshold
  Cooldown, Ramp, \* cooldownMs, rampMs
  Primed,         \* clusters with a health key from the start
  Refusing        \* clusters for which the host may refuse a shared-data call

ASSUME HealthAssumption ==
  /\ IsFiniteSet(Req)
  /\ Threshold \in Nat \ {0} /\ Cooldown \in Nat \ {0} /\ Ramp \in Nat
  /\ CasMaxRetries \in Nat \ {0} /\ MaxTime \in Nat
  /\ Primed \subseteq Cluster /\ Refusing \subseteq Cluster

VARIABLES
  clock,
  health,    \* shared data: Cluster -> [cas, f, e, r], cas 0 when absent
  hook, cluster, outcome, strikes, endedAt, tries, copy,  \* the hook of each request
  tally,     \* history: the failures a cluster's count stands for
  earlier    \* history: what tally held when a success began to be recorded

locals     == <<cluster, outcome, strikes, endedAt>>
healthVars == <<clock, health, hook, locals, tries, copy, tally, earlier>>

Absent == [cas |-> 0, f |-> 0, e |-> 0, r |-> 0]

HealthInit ==
  /\ clock = 0
  /\ health = [c \in Cluster |-> [Absent EXCEPT !.cas = IF c \in Primed THEN 1 ELSE 0]]
  /\ hook = [r \in Req |-> "idle"]
  /\ cluster \in [Req -> Cluster]
  /\ outcome = [r \in Req |-> "ok"]
  /\ strikes = [r \in Req |-> Threshold]
  /\ endedAt = [r \in Req |-> 0]
  /\ tries = [r \in Req |-> 0]
  /\ copy = [r \in Req |-> Absent]
  /\ tally = [c \in Cluster |-> {}]
  /\ earlier = [r \in Req |-> {}]

\* Recovering at some time: what puts a request on one strike.
OnProbation(c, t) == health[c].e <= t /\ t < health[c].r

\* The context role read the health of the cluster when the request arrived
\* (an ejected cluster admits by failOpen), or could not read it, which it takes
\* for a healthy one.
Admit(r) ==
  /\ hook[r] = "idle"
  /\ strikes' \in {[strikes EXCEPT ![r] = n] :
                     n \in {Threshold} \union IF OnProbation(cluster[r], clock) THEN {1} ELSE {}}
  /\ hook' = [hook EXCEPT ![r] = "running"]
  /\ UNCHANGED <<clock, health, cluster, outcome, endedAt, tries, copy, tally, earlier>>

StreamEnds(r) ==
  /\ hook[r] = "running"
  /\ outcome' \in {[outcome EXCEPT ![r] = oc] : oc \in {"ok", "fail"}}
  /\ endedAt' = [endedAt EXCEPT ![r] = clock]
  /\ earlier' = [earlier EXCEPT ![r] = tally[cluster[r]]]
  /\ hook' = [hook EXCEPT ![r] = "load"]
  /\ UNCHANGED <<clock, health, cluster, strikes, tries, copy, tally>>

AfterSuccess(h) == [h EXCEPT !.f = 0]

AfterFailure(h, r) ==
  IF h.f + 1 >= strikes[r]
    THEN [h EXCEPT !.f = 0, !.e = endedAt[r] + Cooldown, !.r = endedAt[r] + Cooldown + Ramp]
    ELSE [h EXCEPT !.f = @ + 1]

\* GetSharedData answered; HealthRefused is the answer that is an error.
Load(r) ==
  LET h == health[cluster[r]]
  IN /\ hook[r] = "load"
     /\ IF outcome[r] = "ok" /\ h.f = 0
          THEN hook' = [hook EXCEPT ![r] = "done"] /\ UNCHANGED copy
          ELSE /\ copy' = [copy EXCEPT ![r] =
                            IF outcome[r] = "ok" THEN AfterSuccess(h) ELSE AfterFailure(h, r)]
               /\ hook' = [hook EXCEPT ![r] = "store"]
     /\ UNCHANGED <<clock, health, locals, tries, tally, earlier>>

WinsAlways(r, c) == TRUE   \* fault: the write does not compare

\* SetSharedData took the write or reported a lost race: it is compared with the
\* cas that was read, unless that is 0.
Wins(r, c) == copy[r].cas \in {0, health[c].cas}

Store(r) ==
  LET c == cluster[r]
      won == Wins(r, c)
  IN /\ hook[r] = "store"
     /\ IF won
          THEN /\ health' = [health EXCEPT ![c] = [copy[r] EXCEPT !.cas = health[c].cas + 1]]
               /\ tally' = [tally EXCEPT ![c] = IF copy[r].f = 0 THEN {} ELSE @ \union {r}]
               /\ hook' = [hook EXCEPT ![r] = "done"]
               /\ UNCHANGED tries
          ELSE /\ tries' = [tries EXCEPT ![r] = @ + 1]
               /\ hook' = [hook EXCEPT ![r] =
                             IF tries[r] + 1 < CasMaxRetries THEN "load" ELSE "gaveUp"]
               /\ UNCHANGED <<health, tally>>
     /\ copy' = [copy EXCEPT ![r] = Absent]
     /\ UNCHANGED <<clock, locals, earlier>>

\* fault: a read that was refused is taken for one of an absent key
HealthRefusedBlank(r) ==
  /\ hook[r] = "load" /\ cluster[r] \in Refusing
  /\ hook' = [hook EXCEPT ![r] = "store"]
  /\ copy' = [copy EXCEPT ![r] =
                IF outcome[r] = "ok" THEN AfterSuccess(Absent) ELSE AfterFailure(Absent, r)]
  /\ UNCHANGED <<clock, health, locals, tries, tally, earlier>>

\* The host refuses a call.  An error of the read drops the outcome; one of the
\* write is logged and taken for a success, so that the hook does not try again
\* either: the outcome is in neither case recorded.
HealthRefused(r) ==
  /\ hook[r] \in {"load", "store"} /\ cluster[r] \in Refusing
  /\ hook' = [hook EXCEPT ![r] = "refused"]
  /\ copy' = [copy EXCEPT ![r] = Absent]
  /\ UNCHANGED <<clock, health, locals, tries, tally, earlier>>

ClockTick ==
  /\ clock < MaxTime
  /\ clock' = clock + 1
  /\ UNCHANGED <<health, hook, locals, tries, copy, tally, earlier>>

HooksOver ==
  /\ clock = MaxTime
  /\ \A r \in Req : hook[r] \in {"done", "gaveUp", "refused"}
  /\ UNCHANGED healthVars

HealthNext ==
  \/ \E r \in Req : Admit(r) \/ StreamEnds(r) \/ Load(r) \/ Store(r) \/ HealthRefused(r)
  \/ ClockTick
  \/ HooksOver

HealthSpec == HealthInit /\ [][HealthNext]_healthVars
-----------------------------------------------------------------------------
\* The count is the number of failures recorded since the last reset: none is
\* counted twice or lost to another worker's write, and once a success has been
\* recorded none from before it counts any more.  An outcome the host refused, or
\* that lost all its races, is not recorded and disturbs none of this.  The first
\* use of a health key writes it unconditionally: this is about the others.
TallyExact ==
  /\ \A c \in Primed : health[c].f = Cardinality(tally[c])
  /\ \A r \in Req : hook[r] = "done" /\ outcome[r] = "ok" /\ cluster[r] \in Primed =>
       tally[cluster[r]] \intersect earlier[r] = {}

\* Enough failures eject: a cluster whose streams have only failed, and enough
\* of them recorded, has been ejected; a hook that has exhausted its retries, or
\* met an error, records nothing.
EnoughFailuresEject ==
  \A c \in Primed :
    LET over == {r \in Req : cluster[r] = c
                           /\ hook[r] \in {"load", "store", "done", "gaveUp", "refused"}}
    IN /\ \A r \in over : outcome[r] = "fail"
       /\ Cardinality({r \in over : hook[r] = "done"}) >= Threshold
       => health[c].e > 0

\* The hooks of all workers together keep one record of a cluster's health.
HealthExact == TallyExact /\ EnoughFailuresEject

\* What recordSuccess is there for: the count is one of consecutive failures, so
\* none from before a success that is over counts any more, recorded or not.
ConsecutiveOnly ==
  \A r \in Req :
    hook[r] \in {"done", "gaveUp", "refused"} /\ outcome[r] = "ok" /\ cluster[r] \in Primed =>
      tally[cluster[r]] \intersect earlier[r] = {}

\* An ejection, once recorded, is never wiped out by a write that did not see
\* it: its deadline stays until a later failure replaces it.
EjectionKept == [][\A c \in Primed : health[c].e > 0 => health'[c].e > 0]_healthVars

\* The same, of a cluster whose health key is new.
EjectionNotErased == [][\A c \in Cluster : health[c].e > 0 => health'[c].e > 0]_healthVars
=============================================================================
