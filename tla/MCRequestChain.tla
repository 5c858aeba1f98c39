---------------------------- MODULE MCRequestChain ----------------------------
(***************************************************************************)
(* Scenarios for RequestChain: one family per question, each varying a few *)
(* things around Base.                                                     *)
(***************************************************************************)
EXTENDS RequestChain

CONSTANTS a1, a2, a3    \* two clients and a proxy

Absent == [f \in {} |-> 0]
Map(S, v) == [x \in S |-> v]
G == <<"g">>
GC == <<"g", "c">>
PG == <<"p", "/", "g">>
Auto == <<"a">>
Star == [prefix |-> TRUE, name |-> <<>>]
Json(name) ==
  [kind |-> "json", intact |-> TRUE, turns |-> <<>>,
   parts |-> IF name = <<>> THEN <<>> ELSE <<[file |-> FALSE, name |-> name]>>]

Cand(cluster, target, kind, weight, maxRun) ==
  [cluster |-> cluster, target |-> target, kind |-> kind, weight |-> weight, maxRun |-> maxRun]

Clusters == 1..3
Targets == 0..2
CandKeys == Clusters \X Targets
Mappers == 1 :> (Star :> <<"x">> @@ [prefix |-> TRUE, name |-> G] :> <<"y">>)
           @@ 2 :> ([prefix |-> FALSE, name |-> G] :> <<"z">> @@
                    [prefix |-> TRUE, name |-> G] :> <<"y">> @@
                    [prefix |-> TRUE, name |-> GC] :> <<"w">>)
Healthy == [ejectedUntil |-> 0, rampUntil |-> 0]
Hrw(order) == [k \in CandKeys |-> (order * (5 * k[1] + k[2])) % 7]

NoAcl == [valid |-> TRUE, header |-> FALSE, from |-> {}, entries |-> <<>>]

Base ==
  [router |-> [alias |-> ("i" :> PG), suffixes |-> {"/completions"}, providerHeader |-> TRUE,
               modelToHeader |-> TRUE, auto |-> TRUE, autoName |-> Auto, autoDefault |-> G,
               rules |-> <<[matches |-> {"hard"}, model |-> GC]>>],
   acl |-> <<NoAcl, Null>>,
   lb |-> <<Absent, Null>>, fin |-> <<Absent, Null>>,
   aff |-> <<"sessionKeys" :> <<>>, Null>>,
   load |-> <<"enabled" :> FALSE, Null>>,
   dec |-> <<Absent, Null>>,
   now |-> 5, inflight |-> Map(CandKeys, 0), health |-> Map(Clusters, Healthy),
   hrw |-> [s \in {"s", "t"} |-> Hrw(IF s = "s" THEN 1 ELSE 3)], verdicts |-> {},
   req |-> [id |-> Null, suffix |-> "/completions", body |-> Json(G), consumer |-> <<>>,
            claimed |-> <<>>, client |-> a1, proxies |-> <<>>,
            session |-> Map({"h", "b"}, ""), target |-> Null, hash |-> 0]]

LBRule(cands) == "candidates" :> cands @@ "modelMappers" :> Mappers

\* Which candidate, with shared clusters, caps, ejection, recovery and load.
Trio(m1, m2, m3) == <<Cand(1, 1, "", None, m1), Cand(1, 2, "instance", None, m2),
                      Cand(2, 1, "provider", None, m3)>>
Verdict(c, px, py) ==
  [confidence |-> c, probability |-> <<"y">> :> px @@ <<"z">> :> py]

Ranking ==
  {[Base EXCEPT !.lb[2] = LBRule(Trio(caps[1], caps[2], caps[3])),
                !.aff[1] = "sessionKeys" :> <<[kind |-> "bodyKey", name |-> "b"],
                                              [kind |-> "header", name |-> "h"]>>
                           @@ "enableOnPathSuffix" :> {"*"},
                !.load[2] = load, !.load[1] = "enabled" :> TRUE @@ "weight" :> 2,
                !.dec[1] = "providers" :> <<[id |-> "", tokens |-> "k"]>>,
                !.dec[2] = "criteria" :> {<<"y">>, <<"z">>},
                !.verdicts = {Verdict(<<1, 2>>, <<3, 4>>, <<1, 4>>),
                              Verdict(<<1, 1>>, <<0, 1>>, <<1, 1>>)},
                !.inflight[<<1, 1>>] = n, !.health[1] = health,
                !.req.session = ("h" :> sessions[1] @@ "b" :> sessions[2]),
                !.req.target = 9] :
     caps \in {<<0, 1, 1>>, <<1, 1, 1>>, <<None, 2, 0>>}, n \in {0, 2},
     load \in {Null, "enabled" :> FALSE},
     health \in {Healthy, [ejectedUntil |-> 9, rampUntil |-> 12],
                 [ejectedUntil |-> 3, rampUntil |-> 7]},
     sessions \in {<<"", "">>, <<"s", "t">>, <<"", "t">>}}

\* Everything ejected: fail open or the finisher's own answer.
AllOut ==
  {[Base EXCEPT !.lb = <<global, LBRule(<<Cand(1, 1, "", None, 1), Cand(2, 0, "", None, 1)>>)
                                 @@ rule>>,
                !.health = Map(Clusters, [ejectedUntil |-> 9, rampUntil |-> 9]),
                !.fin = <<fin[1], fin[2]>>] :
     global \in {Absent, "failOpen" :> FALSE, "failOpen" :> Bad},
     rule \in {Absent, "failOpen" :> FALSE, "failOpen" :> Null},
     fin \in ({Absent, "status" :> 404 @@ "message" :> "text", "status" :> 200,
               "capStatus" :> 503 @@ "capMessage" :> "object", "failOpen" :> Bad}
              \X {Null, Absent, "status" :> 410, "message" :> "text",
                  "message" :> "object" @@ "capStatus" :> Null, "capStatus" :> 400})}

\* The traffic split.
Split ==
  {[Base EXCEPT !.lb[2] = LBRule(<<Cand(2, 1, "", w[1], 1), Cand(1, 1, "", w[2], 1),
                                   Cand(1, 2, "provider", w[3], 0)>>),
                !.load[1] = "enabled" :> TRUE,
                !.health[1] = health, !.req.hash = h] :
     w \in {<<1, 0, 2>>, <<2, 3, None>>, <<0, 0, 0>>, <<1, 4, 2>>, <<3, 3, 1>>},
     health \in {Healthy, [ejectedUntil |-> 9, rampUntil |-> 9]},
     h \in {0, 1, 3, 6, Null}}

\* Who may call from where.
Rule(allowed, denied) == [allowed |-> allowed, denied |-> denied]
Exact(n) == [kind |-> "exact", text |-> n]
Pre(n) == [kind |-> "prefix", text |-> n]
Suf(n) == [kind |-> "suffix", text |-> n]
AclOf(valid, entries) == [valid |-> valid, header |-> TRUE, from |-> {{a3}}, entries |-> entries]
Globals == {AclOf(TRUE, <<<<Pre(<<>>), Rule({}, {{a1}})>>, <<Exact(GC), Rule({{a2}}, {})>>>>),
            AclOf(TRUE, <<<<Suf(<<"c">>), Rule({{a1, a2}}, {{a2}})>>, <<Pre(G), Rule({{a1}}, {})>>>>),
            AclOf(FALSE, <<>>)}
Routes == {Null} \union
          {AclOf(v, e) : v \in BOOLEAN,
             e \in {<<>>, <<<<Exact(G), Rule({}, {})>>>>,
                    <<<<Suf(<<"c">>), Rule({}, {{a1}})>>, <<Pre(<<"x">>), Rule({}, {})>>>>}}
AccessControl ==
  {[Base EXCEPT !.acl = <<global, route>>,
                !.req.consumer = consumer, !.req.client = client,
                !.req.claimed = claimed, !.req.proxies = proxies] :
     global \in Globals, route \in Routes, consumer \in {<<>>, G, GC, <<"d">>},
     client \in {a1, a2, "broken"}, claimed \in {<<>>, <<a2>>, <<a1, "broken">>, <<a3>>},
     proxies \in {<<>>, <<a3>>, <<a3, a3>>, <<a2, a3>>}}

\* Names in bodies, headers and mappings, with and without candidates.
Part(file, name) == [file |-> file, name |-> name]
Turn(role, texts) == [role |-> role, texts |-> texts]
Bodies ==
  {NoBody, Json(<<>>), Json(GC), Json(PG), [Json(PG) EXCEPT !.intact = FALSE]}
  \union {[Json(Auto) EXCEPT !.turns = t] :
            t \in {<<>>, <<Turn("user", <<"x", "hard">>), Turn("assistant", <<"x">>), Turn("user", <<>>)>>}}
  \union {[kind |-> "multipart", intact |-> intact, turns |-> <<>>, parts |-> parts] :
            intact \in BOOLEAN,
            parts \in {<<>>, <<Part(TRUE, G), Part(FALSE, PG)>>, <<Part(FALSE, GC), Part(FALSE, PG)>>}}
Names ==
  {[Base EXCEPT !.lb = lb, !.router.providerHeader = provider, !.router.autoDefault = default,
                !.req.id = id, !.req.suffix = suffix, !.req.body = body0, !.req.target = target] :
     lb \in {<<Absent, Null>>, <<"candidates" :> Bad, Absent>>,
             <<Absent, LBRule(<<Cand(1, 1, "", None, 0), Cand(3, 0, "", None, 0)>>)>>,
             <<Absent, "modelMapping" :> (Star :> G @@ [prefix |-> FALSE, name |-> GC] :> <<>>)>>,
             <<"modelMapping" :> (Star :> <<"x">>), "enableOnPathSuffix" :> {"*"}>>,
             <<"enableOnPathSuffix" :> Bad, "modelMapping" :> (Star :> <<>>)>>},
     provider \in BOOLEAN, default \in {<<>>, G}, id \in {Null, "i"},
     suffix \in {"/completions", "/other"}, body0 \in Bodies, target \in {Null, 9}}

\* Which decision service, with which credentials.
Prov(id, keys) == [id |-> id, tokens |-> keys]
Catalogues ==
  {[Base EXCEPT !.dec = <<g, r>>, !.lb[2] = LBRule(Trio(0, 0, 0)),
                !.verdicts = {Verdict(<<1, 2>>, <<3, 4>>, <<1, 4>>)}] :
     g \in {"providers" :> <<Prov("a", "k"), Prov("b", "l")>> @@ "activeProviderId" :> "b",
            "providers" :> <<Prov("", "k")>>},
     r \in {Null, Absent, "providers" :> <<>>, "providers" :> <<Prov("c", "m"), Prov("d", "n")>>,
            "providers" :> <<Prov("b", "m")>> @@ "criteria" :> {G, GC},
            "providers" :> <<Prov("c", "m")>> @@ "activeProviderId" :> "c" @@ "rankWeight" :> 3,
            "activeProviderId" :> "a" @@ "criteria" :> {G}}}

MCScenario ==
  Ranking \union AllOut \union Split \union AccessControl \union Names \union Catalogues
==============================================================================
