------------------------------ MODULE MCRateRedis ------------------------------
(***************************************************************************)
(* Instances of RateRedis for TLC.                                         *)
(***************************************************************************)
EXTENDS RateRedis

CONSTANTS r1, r2

Quota(w, n) == [window |-> w, quota |-> n]
Rule(source, name, kind, value) == [source |-> source, name |-> name, kind |-> kind, value |-> value]

\* ann comes from the console and, to another route, with her key; bob with his
\* key to that route, or to a path that is not limited.
Who(route, path, name) == [route |-> route, path |-> <<"v1", path>>, attrs |-> (ConsumerHeader :> name)]
Ann == Who("chat", "completions", "ann")
AnnByKey == Who("tools", "completions", "key.ann")
Bob == Who("tools", "completions", "key.bob")
Nobody == Who("chat", "models", "key.bob")
Two(a, b) == r1 :> a @@ r2 :> b
Mixed == {Two(Ann, AnnByKey), Two(Ann, Bob), Two(Bob, Bob), Two(Bob, Nobody)}
JustBob == {Two(Bob, Bob)}
JustAnn == {Two(Ann, Ann)}

Global(combos) ==
  [rule_name |-> "rule", timezone |-> "utc", suffixes |-> {<<"completions">>}, prefixes |-> {<<"proxy">>}, combos |-> combos]

\* Everybody's default: one window of requests, twice, and a limit that is off.
\* ann has a plan that hides it, and that her two names share: two windows of
\* requests, one of tokens, and a calendar period of tokens that has begun before.
Default ==
  [name |-> "default", match |-> <<>>, fallback |-> TRUE,
   query |-> <<Quota(2, 1), Quota(0, 9), Quota(2, 1)>>, tokens |-> <<>>, calendar |-> <<>>]
PlanOfAnn ==
  [name |-> "plan", fallback |-> FALSE,
   match |-> <<Rule("consumer", "", "capture", "ann" :> "ann" @@ "key.ann" :> "ann")>>,
   query |-> <<Quota(1, 1), Quota(2, 2)>>, tokens |-> <<Quota(2, 1)>>,
   calendar |-> <<[kind |-> "each_day", quota |-> 1, starts |-> [utc |-> {-1, 3, 7}]]>>]
\* The rule of a route adds a combination for whoever comes there.
OfRoute ==
  [name |-> "tools", match |-> <<Rule("consumer", "", "wildcard", "*")>>, fallback |-> TRUE,
   query |-> <<Quota(2, 1)>>, tokens |-> <<>>, calendar |-> <<>>]
Plans == [global |-> Global(<<Default, PlanOfAnn>>), rules |-> <<[route |-> "tools", combos |-> <<OfRoute>>]>>]

\* One combination for everybody: tokens alone, one rolling window and one period,
Only(combo) == [global |-> Global(<<combo>>), rules |-> <<>>]
Tokens ==
  Only([name |-> "plan", match |-> <<>>, fallback |-> TRUE,
        query |-> <<>>, tokens |-> <<Quota(2, 2)>>,
        calendar |-> <<[kind |-> "each_day", quota |-> 2, starts |-> [utc |-> {0, 4, 8}, east |-> {-1, 3, 7}]]>>])
\* with a rule that only changes the time zone of another route,
Abroad == [Tokens EXCEPT !.rules = <<[route |-> "tools", timezone |-> "east"]>>]

\* or requests alone.
Window ==
  Only([name |-> "plan", match |-> <<>>, fallback |-> TRUE,
        query |-> <<Quota(2, 1)>>, tokens |-> <<>>, calendar |-> <<>>])
=============================================================================
