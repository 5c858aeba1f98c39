---------------------------- MODULE PluginConfig ----------------------------
(***************************************************************************)
(* How the plugins of the load-balancing chain read their configuration:   *)
(* parseConfig and parseOverrideConfig of gpustack-lb, session-affinity,   *)
(* least-load and decision-service.                                        *)
(*                                                                         *)
(* A raw configuration is a function from the fields that are present to   *)
(* their values; Null is a JSON null and Bad a value of the wrong type,    *)
(* which gjson reads as 0, FALSE or empty.  A rule is parsed over the      *)
(* parsed default configuration.  Clusters and target ids are numbers, 0   *)
(* the empty target id.                                                    *)
(***************************************************************************)
EXTENDS LBCandidates

CONSTANTS Null, Bad

Has(raw, field) == field \in DOMAIN raw
Given(raw, field) == Has(raw, field) /\ raw[field] # Null
Positive(raw, field, default) ==
  IF Has(raw, field) /\ raw[field] \in Nat \ {0} THEN raw[field] ELSE default
Field(raw, field, default) == IF Given(raw, field) THEN raw[field] ELSE default

-----------------------------------------------------------------------------
(* gpustack-lb *)

DefaultThreshold == 3
DefaultCooldown == 10
DefaultAge == 600
DefaultSuffixes == {"/completions", "/messages"}   \* two of defaultPathSuffixes

\* normalizeMode
ModeOf(raw) == IF Field(raw, "mode", "context") = "finisher" THEN "finisher" ELSE "context"

\* normalizeRejectStatus: below 400 or above 599 it would not be a rejection.
RejectStatus(raw, field, default) ==
  IF Has(raw, field) /\ raw[field] \in 400..599 THEN raw[field] ELSE default

\* buildRejectBody: a message that is a JSON object is the body; any other is
\* wrapped in an envelope that repeats the status.
RejectBody(message, status) ==
  [message |-> message, code |-> IF message = "object" THEN Null ELSE status]

\* rejectMessage, capRejectMessage: never empty.
MessageOf(raw, field) ==
  IF Field(raw, field, "") \in {"", Bad} THEN "default" ELSE raw[field]

\* parseLB on one candidate: what it refuses, and what it keeps.
WholeNumber(v) == v \in Nat
CandidateMalformed(c) ==
  \/ c.cluster = 0
  \/ c.kind \notin {"", "instance", "provider"}
  \/ c.maxRun # None /\ ~WholeNumber(c.maxRun)
  \/ c.weight # None /\ ~WholeNumber(c.weight)

Weights(cands) == MapThenSumSet(LAMBDA i : cands[i].weight,
                                {i \in DOMAIN cands : cands[i].weight # None})

CandidateOf(c) == [c EXCEPT !.kind = IF @ = "" THEN "instance" ELSE @,
                            !.maxRun = IF @ = None THEN 0 ELSE @]

\* Sorted by (cluster, targetId): the weighted intervals depend on the order.
Sorted(cands) ==
  SetToSortSeq({CandidateOf(cands[i]) : i \in DOMAIN cands},
    LAMBDA a, b : a.cluster < b.cluster \/ (a.cluster = b.cluster /\ a.target < b.target))

Candidates(raw) == Field(raw, "candidates", <<>>)

LBMalformed(raw) ==
  LET cands == Candidates(raw)
  IN  \/ Has(raw, "maxBodyBytes") /\ raw["maxBodyBytes"] \notin Nat \ {0}
      \/ \E f \in {"modelMapping", "enableOnPathSuffix"} : Has(raw, f) /\ raw[f] \in {Null, Bad}
      \/ \E f \in {"candidates", "failOpen", "redis"} : Has(raw, f) /\ raw[f] = Bad
      \/ /\ cands # Bad /\ cands # <<>>
         /\ \/ \E i \in DOMAIN cands : CandidateMalformed(cands[i])
            \/ \E i, j \in DOMAIN cands : /\ i # j /\ cands[i].cluster = cands[j].cluster
                                          /\ cands[i].target = cands[j].target
            \/ Weights(cands) > MaxInt64
            \/ Field(raw, "modelMappers", <<>>) = Bad

\* A default of the empty name is no default.
LegacyMapping(m) ==
  [p \in DOMAIN m \ {q \in DOMAIN m : q.prefix /\ q.name = <<>> /\ m[q] = <<>>} |-> m[p]]

\* parseConfig, parseLegacy and parseLB.  Nothing of the destination is kept,
\* whatever a failed attempt left in it.
LBConfig(raw) ==
  LET cooldown == Positive(raw, "cooldownMs", DefaultCooldown)
      status == RejectStatus(raw, "status", 503)
      capStatus == RejectStatus(raw, "capStatus", 429)
      message == MessageOf(raw, "message")
      capMessage == MessageOf(raw, "capMessage")
  IN  [mode |-> ModeOf(raw),
       mapping |-> LegacyMapping(Field(raw, "modelMapping", [p \in {} |-> <<>>])),
       suffixes |-> Field(raw, "enableOnPathSuffix", DefaultSuffixes),
       lbMode |-> Candidates(raw) # <<>>,
       candidates |-> Sorted(Candidates(raw)),
       mappers |-> IF Candidates(raw) = <<>> THEN [t \in {} |-> <<>>]
                   ELSE Field(raw, "modelMappers", [t \in {} |-> <<>>]),
       threshold |-> Positive(raw, "unhealthyThreshold", DefaultThreshold),
       cooldown |-> cooldown,
       ramp |-> Positive(raw, "rampMs", cooldown),
       failOpen |-> Field(raw, "failOpen", Null),
       maxAge |-> Positive(raw, "maxInflightAgeMs", DefaultAge),
       store |-> Field(raw, "redis", "shared"),
       status |-> status, message |-> message, body |-> RejectBody(message, status),
       capStatus |-> capStatus, capMessage |-> capMessage,
       capBody |-> RejectBody(capMessage, capStatus)]

\* What is left of a default configuration that does not parse.
ZeroLB == [mode |-> "", mapping |-> [p \in {} |-> <<>>], suffixes |-> {}, lbMode |-> FALSE,
           candidates |-> <<>>, mappers |-> [t \in {} |-> <<>>], threshold |-> 0,
           cooldown |-> 0, ramp |-> 0, failOpen |-> Null, maxAge |-> 0, store |-> Null,
           status |-> 0, message |-> "", body |-> Null, capStatus |-> 0,
           capMessage |-> "", capBody |-> Null]

LBGlobal(raw) == IF LBMalformed(raw) THEN ZeroLB ELSE LBConfig(raw)

\* shouldFailOpen
FailOpen(conf) == conf.failOpen \in {Null, TRUE}

\* The rejection pair under inheritance: the inherited body is reused only
\* when the rule sets neither half of it.
Inherited(own, set, global, unset) == IF set \/ global = unset THEN own ELSE global

\* Fault: reused as soon as one half is inherited.
BodyReused(raw, statusField, messageField, globalBody, message, status) ==
  IF (~Has(raw, statusField) \/ ~Has(raw, messageField)) /\ globalBody # Null
  THEN globalBody ELSE RejectBody(message, status)

BodyFor(raw, statusField, messageField, globalBody, message, status) ==
  IF ~Has(raw, statusField) /\ ~Has(raw, messageField) /\ globalBody # Null
  THEN globalBody ELSE RejectBody(message, status)

\* parseOverrideConfig: what describes the deployment is inherited, the
\* topology (candidates, modelMappers, modelMapping) never is.
LBOverride(raw, global) ==
  LET own == LBConfig(raw)
      Number(field, mine, theirs) == Inherited(mine, Has(raw, field), theirs, 0)
      status == Inherited(own.status, Has(raw, "status"), global.status, 0)
      message == Inherited(own.message, Has(raw, "message"), global.message, "")
      capStatus == Inherited(own.capStatus, Has(raw, "capStatus"), global.capStatus, 0)
      capMessage == Inherited(own.capMessage, Has(raw, "capMessage"), global.capMessage, "")
      cooldown == Number("cooldownMs", own.cooldown, global.cooldown)
  IN  [own EXCEPT
         !.mode = Inherited(@, Has(raw, "mode"), global.mode, ""),
         !.failOpen = IF @ = Null THEN global.failOpen ELSE @,
         !.threshold = Number("unhealthyThreshold", @, global.threshold),
         !.cooldown = cooldown,
         !.ramp = IF Has(raw, "rampMs") THEN @
                  ELSE IF global.ramp > 0 THEN global.ramp ELSE cooldown,
         !.maxAge = Number("maxInflightAgeMs", @, global.maxAge),
         !.store = Inherited(@, Given(raw, "redis"), global.store, Null),
         !.status = status, !.message = message,
         !.body = BodyFor(raw, "status", "message", global.body, message, status),
         !.capStatus = capStatus, !.capMessage = capMessage,
         !.capBody = BodyFor(raw, "capStatus", "capMessage", global.capBody, capMessage, capStatus),
         !.suffixes = Inherited(@, Has(raw, "enableOnPathSuffix"), global.suffixes, {})]

-----------------------------------------------------------------------------
(* The capability plugins *)

\* session-affinity: parseSessionKeys refuses a source that is not exactly one
\* of a header and a body key; the keys belong to the route.
AffinityMalformed(raw) ==
  \/ ~Has(raw, "sessionKeys") \/ raw["sessionKeys"] \in {Null, Bad}
  \/ \E i \in DOMAIN raw["sessionKeys"] : raw["sessionKeys"][i].kind \notin {"header", "bodyKey"}
  \/ Has(raw, "maxBodyBytes") /\ raw["maxBodyBytes"] \notin Nat \ {0}
  \/ Has(raw, "enableOnPathSuffix") /\ raw["enableOnPathSuffix"] \in {Null, Bad}

AffinityConfig(raw) ==
  [keys |-> raw["sessionKeys"], weight |-> Positive(raw, "weight", 1),
   suffixes |-> Field(raw, "enableOnPathSuffix", {"/responses", "/messages"})]

ZeroAffinity == [keys |-> <<>>, weight |-> 0, suffixes |-> {}]
AffinityGlobal(raw) == IF AffinityMalformed(raw) THEN ZeroAffinity ELSE AffinityConfig(raw)

AffinityOverride(raw, global) ==
  [AffinityConfig(raw) EXCEPT
     !.weight = Inherited(@, Has(raw, "weight"), global.weight, 0),
     !.suffixes = Inherited(@, Has(raw, "enableOnPathSuffix"), global.suffixes, {})]

\* least-load: both knobs are inherited.
LoadConfig(raw) ==
  [enabled |-> Field(raw, "enabled", Null), weight |-> Positive(raw, "weight", 1)]

LoadGlobal(raw) ==
  IF Has(raw, "enabled") /\ raw["enabled"] = Bad THEN [enabled |-> Null, weight |-> 0]
  ELSE LoadConfig(raw)

LoadOverride(raw, global) ==
  [LoadConfig(raw) EXCEPT
     !.enabled = IF @ = Null THEN global.enabled ELSE @,
     !.weight = Inherited(@, Has(raw, "weight"), global.weight, 0)]

LoadEnabled(conf) == conf.enabled \in {Null, TRUE}

\* decision-service: a provider is [id, tokens], "" an id not given.  A rule
\* starts from a copy of the default configuration, and a catalogue of its own
\* drops the decision, the tokens and the choice that came with it.
NoDecision == [providers |-> <<>>, active |-> "", decision |-> Null,
               selection |-> {}, rankWeight |-> 0]

Selected(providers, active) ==
  LET hits == {i \in DOMAIN providers : providers[i].id = active}
  IN  IF hits # {} THEN providers[Min(hits)]
      ELSE IF Len(providers) = 1 THEN providers[1] ELSE Null

DecisionConfig(raw, base, fromGlobal) ==
  LET own == Has(raw, "providers")
      providers == IF own THEN raw["providers"] ELSE base.providers
      active == IF Has(raw, "activeProviderId") /\ raw["activeProviderId"] # ""
                THEN raw["activeProviderId"]
                ELSE IF ~fromGlobal /\ own /\ ~Has(raw, "activeProviderId") THEN ""
                ELSE base.active
      kept == IF ~fromGlobal /\ own THEN Null ELSE base.decision
      selected == Selected(providers, active)
      criteria == Field(raw, "criteria", {})
  IN  [providers |-> providers, active |-> active,
       decision |-> IF selected = Null THEN kept ELSE selected,
       selection |-> IF ~Has(raw, "criteria") THEN base.selection
                     ELSE IF Cardinality(criteria) < 2 THEN {} ELSE criteria,
       rankWeight |-> IF Has(raw, "rankWeight") THEN raw["rankWeight"]
                      ELSE IF fromGlobal THEN 10 ELSE base.rankWeight]

DecisionRejected(raw, base, fromGlobal) ==
  LET c == DecisionConfig(raw, base, fromGlobal)
  IN  \/ c.active # "" /\ \A i \in DOMAIN c.providers : c.providers[i].id # c.active
      \/ Has(raw, "rankWeight") /\ raw["rankWeight"] \notin Nat \ {0}
      \/ Has(raw, "criteria") /\ raw["criteria"] = Bad
=============================================================================
