----------------------------- MODULE RequestChain -----------------------------
(***************************************************************************)
(* One request on its way through the request plugins of GPUStack's        *)
(* gateway, one action per handler, in the order the deployment gives      *)
(* them: set-header-pre-route, generic-proxy-router, ip-acl, the context   *)
(* role of gpustack-lb (which is model-mapper on a route without           *)
(* candidates), session-affinity, least-load, decision-service and the     *)
(* finisher role.  Handlers speak to each other through the request's      *)
(* headers, its body and two filter-state values, the candidate set and    *)
(* the rank list.                                                          *)
(*                                                                         *)
(* A handler that stops for the body keeps the later filters waiting, so a *)
(* request is at one place of the chain at a time.  A failed upstream may  *)
(* send it through the whole chain again (internal redirect), with the     *)
(* headers and the body the first pass left.                               *)
(***************************************************************************)
EXTENDS PluginConfig, ModelBody, IpAcl

CONSTANTS
  Scenario,    \* configurations, a request and the state it meets
  Redirects    \* bound on the internal redirects of a request

\* What the parsers leave: lists are lists, networks hold addresses, and a body
\* has its fields.
IsList(x) == x \in Seq(ToSet(x))
IsAcl(raw) ==
  raw.valid \in BOOLEAN /\ raw.header \in BOOLEAN /\ raw.from \subseteq SUBSET Addr /\ IsList(raw.entries)
IsBody(b) ==
  /\ DOMAIN b = {"kind", "intact", "parts", "turns"} /\ b.intact \in BOOLEAN /\ IsList(b.parts)
  /\ \A i \in DOMAIN b.parts : DOMAIN b.parts[i] = {"file", "name"} /\ b.parts[i].file \in BOOLEAN

ASSUME ScenarioAssumption ==
  \A s \in Scenario :
    /\ IsAcl(s.acl[1]) /\ (s.acl[2] # Null => IsAcl(s.acl[2]))
    /\ IsList(s.req.consumer) /\ IsList(s.req.claimed) /\ IsList(s.req.proxies)
    /\ IsBody(s.req.body)
    /\ s.dec[2] # Null /\ Has(s.dec[2], "providers") => IsList(s.dec[2]["providers"])

VARIABLES
  scn,       \* the scenario, never changed
  conf,      \* the parsed configuration of each plugin on this route
  at,        \* the next handler
  hdr,       \* the headers the plugins read and write
  body,      \* the buffered body
  set,       \* filter state: the candidate set, Null when not published
  ranks,     \* filter state: the rank list
  chosen,    \* the finisher's context: the candidate, its token, or Null
  reroute,   \* FALSE once a plugin has called DisableReroute
  passes,    \* passes through the chain so far
  reply,     \* a local reply, or Null
  tokens     \* the in-flight entries reserved and those released

vars == <<scn, conf, at, hdr, body, set, ranks, chosen, reroute, passes, reply, tokens>>

req == scn.req
RuleOf(raw, overridden, global) == IF raw = Null THEN global ELSE overridden

Parsed(s) ==
  [router |-> s.router,
   acl  |-> RuleOf(s.acl[2], OverrideAcl(s.acl[2], GlobalAcl(s.acl[1])), GlobalAcl(s.acl[1])),
   lb   |-> RuleOf(s.lb[2], LBOverride(s.lb[2], LBGlobal(s.lb[1])), LBGlobal(s.lb[1])),
   fin  |-> RuleOf(s.fin[2], LBOverride(s.fin[2], LBGlobal(s.fin[1])), LBGlobal(s.fin[1])),
   aff  |-> RuleOf(s.aff[2], AffinityOverride(s.aff[2], AffinityGlobal(s.aff[1])), AffinityGlobal(s.aff[1])),
   load |-> RuleOf(s.load[2], LoadOverride(s.load[2], LoadGlobal(s.load[1])), LoadGlobal(s.load[1])),
   dec  |-> LET global == DecisionConfig(s.dec[1], NoDecision, TRUE)
            IN  IF s.dec[2] = Null THEN global ELSE DecisionConfig(s.dec[2], global, FALSE)]

\* A rule that does not parse never becomes a configuration; a default that
\* does not parse is only what the rules are parsed over.
Loadable(s) ==
  /\ \A raw \in {s.lb, s.fin} : ~LBMalformed(IF raw[2] = Null THEN raw[1] ELSE raw[2])
  /\ ~AffinityMalformed(IF s.aff[2] = Null THEN s.aff[1] ELSE s.aff[2])
  /\ ~DecisionRejected(s.dec[1], NoDecision, TRUE)
  /\ s.dec[2] # Null =>
       ~DecisionRejected(s.dec[2], DecisionConfig(s.dec[1], NoDecision, TRUE), FALSE)

Init ==
  /\ scn \in {s \in Scenario : Loadable(s)}
  /\ conf = Parsed(scn)
  /\ at = "setHeader"
  /\ hdr = [llm |-> <<>>, provider |-> <<>>, model |-> <<>>, final |-> <<>>,
            target |-> scn.req.target, fallback |-> FALSE, routes |-> <<>>]
  /\ body = scn.req.body
  /\ set = Null /\ ranks = <<>> /\ chosen = Null
  /\ reroute = TRUE /\ passes = 1 /\ reply = Null
  /\ tokens = [held |-> {}, done |-> {}]

\* A configured suffix of the path, "*" standing for every path.
OnPath(suffixes) == "*" \in suffixes \/ req.suffix \in suffixes
Rewritable(suffixes) == OnPath(suffixes) /\ body.kind \in {"json", "multipart"}

Go(next) == at' = next

-----------------------------------------------------------------------------
\* gpustack-set-header-pre-route: the route's name is added, never replaced.
SetHeader ==
  /\ at = "setHeader" /\ Go("router")
  /\ hdr' = IF OnPath(DefaultSuffixes) \/ req.id # Null
            THEN [hdr EXCEPT !.routes = Append(@, passes)] ELSE hdr
  /\ UNCHANGED <<scn, conf, body, set, ranks, chosen, reroute, passes, reply, tokens>>

\* generic-proxy-router onHttpRequestHeaders: a mapped id in the path decides
\* from the headers alone.
RouterHeaders ==
  /\ at = "router"
  /\ \/ /\ req.id \in DOMAIN conf.router.alias /\ conf.router.alias[req.id] # <<>>
        /\ hdr' = WriteRoutingHeaders(conf.router, hdr, conf.router.alias[req.id])
        /\ Go("acl")
     \/ /\ ~(req.id \in DOMAIN conf.router.alias /\ conf.router.alias[req.id] # <<>>)
        /\ Go(IF Rewritable(conf.router.suffixes) THEN "routerBody" ELSE "acl")
        /\ UNCHANGED hdr
  /\ UNCHANGED <<scn, conf, body, set, ranks, chosen, reroute, passes, reply, tokens>>

RouterBody ==
  /\ at = "routerBody" /\ Go("acl")
  /\ hdr' = RouteBody(conf.router, hdr, body).hdr
  /\ body' = RouteBody(conf.router, hdr, body).body
  /\ UNCHANGED <<scn, conf, set, ranks, chosen, reroute, passes, reply, tokens>>

Answer(status, text) ==
  /\ reply' = [status |-> status, body |-> text]
  /\ reroute' = FALSE
  /\ Go("answered")

\* ip-acl: the peer is the last proxy, or the client itself; each proxy has
\* appended the address it was called from.
Source == IF req.proxies = <<>> THEN req.client ELSE Last(req.proxies)
Forwarded ==
  IF req.proxies = <<>> THEN req.claimed
  ELSE req.claimed \o <<req.client>> \o Front(req.proxies)

Acl ==
  /\ at = "acl"
  /\ IF Rejects(conf.acl, req.consumer, Source, Forwarded)
     THEN Answer(403, [message |-> "text", code |-> Null])
     ELSE Go("context") /\ UNCHANGED <<reply, reroute>>
  /\ UNCHANGED <<scn, conf, hdr, body, set, ranks, chosen, passes, tokens>>

-----------------------------------------------------------------------------
(* gpustack-lb, mode: context *)

\* handleLBMode: filter, publish, continue; nothing on a fallback pass.  The
\* model name comes from the header the router wrote.
Publish ==
  /\ at = "context" /\ conf.lb.lbMode /\ Go("affinity")
  /\ set' = IF hdr.fallback THEN set
            ELSE BuildCandidateSet([candidates |-> conf.lb.candidates,
                                    mappers |-> conf.lb.mappers,
                                    failOpen |-> FailOpen(conf.lb)],
                                   scn.now, hdr.llm, scn.inflight, scn.health)
  /\ UNCHANGED <<scn, conf, hdr, body, ranks, chosen, reroute, passes, reply, tokens>>

\* handleLegacyMode: the routing is done, only the body is edited.
Legacy ==
  /\ at = "context" /\ ~conf.lb.lbMode
  /\ Go(IF Rewritable(conf.lb.suffixes) THEN "contextBody" ELSE "affinity")
  /\ reroute' = (reroute /\ ~Rewritable(conf.lb.suffixes))
  /\ UNCHANGED <<scn, conf, hdr, body, set, ranks, chosen, passes, reply, tokens>>

\* resolveModel: exact, first prefix, default, unchanged.
ResolveModel(name) == FirstMatch(conf.lb.mapping, name, name)

Rewritten(plan) ==
  /\ body' = plan.body
  /\ hdr' = IF plan.set THEN [hdr EXCEPT !.final = plan.header] ELSE hdr

LegacyBody ==
  /\ at = "contextBody" /\ Go("affinity")
  /\ Rewritten(PlanRewrite(body, ResolveModel(ModelIn(body))))
  /\ UNCHANGED <<scn, conf, set, ranks, chosen, reroute, passes, reply, tokens>>

-----------------------------------------------------------------------------
(* The capability plugins *)

Rankable == set \notin {Null, <<>>} /\ ~IsWeighted(set)
AppendRank(weight, scores) == ranks' = Append(ranks, [weight |-> weight, scores |-> scores])

\* The session named by the first source of a kind that has a value.
SessionOf(kind) ==
  LET found == {i \in DOMAIN conf.aff.keys :
                  conf.aff.keys[i].kind = kind /\ req.session[conf.aff.keys[i].name] # ""}
  IN  IF found = {} THEN "" ELSE req.session[conf.aff.keys[Min(found)].name]

\* Headers are looked up first, whatever the order of the sources.
AffinityHeaders ==
  /\ at = "affinity"
  /\ LET bodySource == \E i \in DOMAIN conf.aff.keys : conf.aff.keys[i].kind = "bodyKey"
     IN  IF Rankable /\ SessionOf("header") # ""
         THEN /\ AppendRank(<<conf.aff.weight, 1>>,
                            AffinityScores(set, scn.hrw[SessionOf("header")]))
              /\ Go("load")
         ELSE /\ Go(IF /\ Rankable /\ bodySource /\ body.kind = "json"
                       /\ OnPath(conf.aff.suffixes) THEN "affinityBody" ELSE "load")
              /\ UNCHANGED ranks
  /\ UNCHANGED <<scn, conf, hdr, body, set, chosen, reroute, passes, reply, tokens>>

AffinityBody ==
  /\ at = "affinityBody" /\ Go("load")
  /\ IF SessionOf("bodyKey") # ""
     THEN AppendRank(<<conf.aff.weight, 1>>,
                     AffinityScores(set, scn.hrw[SessionOf("bodyKey")]))
     ELSE UNCHANGED ranks
  /\ UNCHANGED <<scn, conf, hdr, body, set, chosen, reroute, passes, reply, tokens>>

LeastLoad ==
  /\ at = "load" /\ Go("decision")
  /\ IF LoadEnabled(conf.load) /\ Rankable
     THEN AppendRank(<<conf.load.weight, 1>>, LoadScores(set)) ELSE UNCHANGED ranks
  /\ UNCHANGED <<scn, conf, hdr, body, set, chosen, reroute, passes, reply, tokens>>

\* decision-service: it asks when there is something to decide, and its rank
\* is the verdict weighted by the confidence (applyVerdict); the callout and
\* its retries are DecisionCallout's.
Models == {set[i].model : i \in DOMAIN set} \ {<<>>}

Decision ==
  /\ at = "decision" /\ Go("finisher")
  /\ \/ /\ ~hdr.fallback /\ conf.dec.selection # {} /\ conf.dec.decision # Null
        /\ Rankable /\ Cardinality(Models) >= 2 /\ body.kind # "none"
        /\ \E v \in scn.verdicts :
             LET scores == VerdictScores(set, v.probability)
             IN  IF DOMAIN scores = {} THEN UNCHANGED ranks
                 ELSE AppendRank(Times(<<conf.dec.rankWeight, 1>>, v.confidence), scores)
     \/ UNCHANGED ranks
  /\ UNCHANGED <<scn, conf, hdr, body, set, chosen, reroute, passes, reply, tokens>>

-----------------------------------------------------------------------------
(* gpustack-lb, mode: finisher *)

NoTarget == [hdr EXCEPT !.target = Null]

\* finisherOnHeaders before the selection: a fallback pass is not pinned, a
\* route without a candidate set is none of its business.
FinisherSkips ==
  /\ at = "finisher" /\ (hdr.fallback \/ set = Null)
  /\ hdr' = IF hdr.fallback THEN NoTarget ELSE hdr
  /\ Go("upstream")
  /\ UNCHANGED <<scn, conf, body, set, ranks, chosen, reroute, passes, reply, tokens>>

\* reject: no candidate is left.
FinisherRejects ==
  /\ at = "finisher" /\ ~hdr.fallback /\ set = <<>>
  /\ hdr' = NoTarget
  /\ Answer(conf.fin.status, conf.fin.body)
  /\ UNCHANGED <<scn, conf, body, set, ranks, chosen, passes, tokens>>

\* Without a request id the hash is random.
Hashes == IF req.hash = Null THEN 0..MaxInt64 ELSE {req.hash}

\* What the finisher may decide to try, in order.
Orders ==
  UNION {UNION {ReserveOrders(set, ranks, w) : w \in SelectCandidate(set, ranks, h)} :
           h \in Hashes}

Limited(i) == set[i].maxRun > 0
Deciding == at = "finisher" /\ ~hdr.fallback /\ set \notin {Null, <<>>}

\* Fault: the header is written for the winner, before the reservation.
SettleWinner(i, token) ==
  /\ chosen' = [cand |-> set[i], key |-> Key(set[i]), token |-> token, body |-> body]
  /\ tokens' = IF token = Null THEN tokens
               ELSE [tokens EXCEPT !.held = @ \union {<<Key(set[i]), token>>}]
  /\ hdr' = [hdr EXCEPT !.target = set[CHOOSE w \in SelectCandidate(set, ranks, 0) : TRUE].cluster]
  /\ Go(IF set[i].model # <<>> /\ Rewritable(conf.fin.suffixes) THEN "finisherBody"
        ELSE "upstream")
  /\ UNCHANGED <<reply, reroute>>

\* finalizeSelection and needsRewrite for a candidate; "key" and "token" name
\* the entry it holds.
Settle(i, token) ==
  /\ chosen' = [cand |-> set[i], key |-> Key(set[i]), token |-> token, body |-> body]
  /\ tokens' = IF token = Null THEN tokens
               ELSE [tokens EXCEPT !.held = @ \union {<<Key(set[i]), token>>}]
  /\ hdr' = [hdr EXCEPT !.target = set[i].cluster]
  /\ Go(IF set[i].model # <<>> /\ Rewritable(conf.fin.suffixes) THEN "finisherBody"
        ELSE "upstream")
  /\ UNCHANGED <<reply, reroute>>

\* Reserve answers with the first target that has room; only a limited one may
\* be full.
Reserved ==
  /\ Deciding
  /\ \E order \in Orders, n \in 1..Len(set) :
       /\ n \in DOMAIN order /\ \A m \in 1..(n - 1) : Limited(order[m])
       /\ Settle(order[n], passes)
  /\ UNCHANGED <<scn, conf, body, set, ranks, passes>>

\* The store is degraded: the preferred candidate, without an entry.
ReserveFailsOpen ==
  /\ Deciding
  /\ \E order \in Orders : Settle(order[1], Null)
  /\ UNCHANGED <<scn, conf, body, set, ranks, passes>>

\* rejectCap: every target it may try is full.
Exhausted ==
  /\ Deciding
  /\ \E order \in Orders : \A n \in DOMAIN order : Limited(order[n])
  /\ hdr' = NoTarget
  /\ Answer(conf.fin.capStatus, conf.fin.capBody)
  /\ UNCHANGED <<scn, conf, body, set, ranks, chosen, passes, tokens>>

FinisherBody ==
  /\ at = "finisherBody" /\ Go("upstream")
  /\ Rewritten(PlanRewrite(body, chosen.cand.model))
  /\ UNCHANGED <<scn, conf, set, ranks, chosen, reroute, passes, reply, tokens>>

\* finisherOnStreamDone, which also ends a pass that is redirected.
Outcomes == IF chosen.cand.kind = "provider" THEN {"ignored"} ELSE {"success", "failure"}

StreamDone ==
  /\ at \in {"upstream", "answered"}
  /\ IF chosen = Null THEN UNCHANGED tokens
     ELSE \E o \in Outcomes :
            tokens' = [tokens EXCEPT !.done = @ \union
                        {[key |-> chosen.key, token |-> chosen.token, outcome |-> o,
                          threshold |-> IF chosen.cand.probation THEN 1
                                        ELSE conf.fin.threshold]}]
  /\ Go(IF at = "upstream" THEN "closed" ELSE "ended")
  /\ UNCHANGED <<scn, conf, hdr, body, set, ranks, chosen, reroute, passes, reply>>

\* Envoy follows an internal redirect: new filter contexts, and filter state
\* that may or may not outlive the pass.
Redirect ==
  /\ at = "closed" /\ passes <= Redirects
  /\ passes' = passes + 1
  /\ hdr' = [hdr EXCEPT !.fallback = TRUE]
  /\ \/ set' = Null /\ ranks' = <<>>
     \/ UNCHANGED <<set, ranks>>
  /\ chosen' = Null /\ reroute' = TRUE
  /\ Go("setHeader")
  /\ UNCHANGED <<scn, conf, body, reply, tokens>>

Next ==
  \/ SetHeader \/ RouterHeaders \/ RouterBody \/ Acl
  \/ Publish \/ Legacy \/ LegacyBody
  \/ AffinityHeaders \/ AffinityBody \/ LeastLoad \/ Decision
  \/ FinisherSkips \/ FinisherRejects \/ Reserved \/ ReserveFailsOpen \/ Exhausted
  \/ FinisherBody \/ StreamDone \/ Redirect

Spec == Init /\ [][Next]_vars

-----------------------------------------------------------------------------
AtUpstream == at \in {"upstream", "closed"}

\* What leaves the gateway is what the finisher decided.  On a route with
\* candidates the target header names the cluster of the candidate that was
\* reserved, not of the one that ranked first nor what a client or an earlier
\* pass has put there; the route is still re-evaluated; the body asks for that
\* candidate's model wherever it can be rewritten and is otherwise untouched;
\* and the entry it holds is that candidate's own.
RoutedAsDecided ==
  AtUpstream /\ conf.lb.lbMode =>
    IF passes > 1 THEN hdr.target = Null
    ELSE /\ chosen # Null /\ reroute
         /\ hdr.target = chosen.cand.cluster
         /\ LET wanted == chosen.cand.model
            IN  IF /\ wanted # <<>> /\ Rewritable(conf.fin.suffixes) /\ body.intact
                   /\ body.kind = "json" \/ Fields(body) # {}
                THEN ModelIn(body) = wanted ELSE body = chosen.body
         /\ {e \in tokens.held : e[2] = passes} =
              IF chosen.token = Null THEN {}
              ELSE {<<<<chosen.cand.cluster, chosen.cand.target>>, passes>>}

\* The traffic split of a weighted route is the one configured: over all
\* hashes each candidate owns as many as its weight, and a request goes to the
\* owner of its hash or is refused, whatever the ranks say and whoever is full.
SplitKept ==
  at = "finisher" /\ ~hdr.fallback /\ set \notin {Null, <<>>} /\ IsWeighted(set) =>
    LET Owner(h) == SelectWeighted(set, h)
        total == MapThenSumSet(LAMBDA i : WeightOf(set[i]), DOMAIN set)
    IN  /\ total \in 1..MaxInt64 =>
             \A i \in DOMAIN set :
               Cardinality({h \in 0..(total - 1) : Owner(h) = i}) = WeightOf(set[i])
        /\ Orders \subseteq {<<Owner(h)>> : h \in Hashes}

\* Every rank entry casts its weight once, however many candidates it scored
\* and however many of them share a cluster; and a session keeps its candidate
\* when any other one leaves the set.
VotesFair ==
  Deciding /\ ~IsWeighted(set) =>
    /\ LET totals == CombineRanks(set, ranks)
       IN  SumOver(LAMBDA i : totals[i], DOMAIN set) =
             SumOver(LAMBDA e : VoteWeight(ranks[e]), Contributing(set, ranks))
    /\ \A s \in DOMAIN scn.hrw :
         LET Favourite(cands) ==
               LET scores == AffinityScores(cands, scn.hrw[s])
               IN  {k \in DOMAIN scores : \A l \in DOMAIN scores : ~Less(scores[k], scores[l])}
         IN  \A k \in Favourite(set), gone \in DOMAIN set :
               Key(set[gone]) # k => k \in Favourite(RemoveAt(set, gone))

\* No request passes the address check that its consumer's rule forbids its
\* real client, whatever the client wrote into the forwarding header itself,
\* when the proxies between them are trusted ones; a consumer no key of the
\* route covers keeps its default rule; and a configuration that does not
\* parse lets nobody through.
Trusted(ip) == InNetworks(ip, scn.acl[1].from)
HonestPath ==
  /\ req.client \in Addr /\ ~Trusted(req.client)
  /\ req.proxies # <<>> => scn.acl[1].header /\ \A i \in DOMAIN req.proxies : Trusted(req.proxies[i])
Passed == at \notin {"setHeader", "router", "routerBody", "acl", "answered", "ended"}

AclHolds ==
  /\ Passed /\ passes = 1 /\ HonestPath /\ req.consumer # <<>>
  /\ req.proxies # <<>> => scn.acl[1].valid
  =>
    LET global == GlobalAcl(scn.acl[1])
        route == scn.acl[2]
        rule == IF route = Null \/ ~\E i \in DOMAIN route.entries : Covers(route.entries[i][1], req.consumer)
                THEN LookupACL(global, req.consumer)
                ELSE LookupACL(conf.acl, req.consumer)
    IN  /\ route # Null => route.valid
        /\ route = Null => scn.acl[1].valid
        /\ rule # NoRule => /\ ~InNetworks(req.client, rule.denied)
                            /\ rule.allowed # {} => InNetworks(req.client, rule.allowed)

\* README.md:78 of ip-acl: a typo in the configuration stops traffic instead of
\* widening access.  A default that does not parse also loses the trusted
\* proxies, and a route with keys of its own is then checked against the proxy.
BrokenDefaultNarrows ==
  Passed /\ passes = 1 /\ HonestPath /\ req.consumer # <<>> /\ ~scn.acl[1].valid =>
    LET rule == LookupACL(conf.acl, req.consumer)
    IN  rule # NoRule => ~InNetworks(req.client, rule.denied)

\* A rule inherits what describes the deployment and nothing else: a rejection
\* says in its body the status it is sent with, and always refuses; a route
\* becomes a load-balancing route only by its own candidates; and a rule with
\* its own catalogue of decision services never asks with the credentials of
\* the inherited one.
InheritanceSound ==
  /\ reply # Null => /\ reply.status \in 400..599
                     /\ reply.body.code \in {Null, reply.status}
                     /\ reply.body.message # ""
  /\ conf.lb.lbMode =>
       Candidates(IF scn.lb[2] = Null THEN scn.lb[1] ELSE scn.lb[2]) # <<>>
  /\ scn.dec[2] # Null /\ Has(scn.dec[2], "providers") =>
       conf.dec.decision \in {Null} \union ToSet(scn.dec[2]["providers"])
==============================================================================
