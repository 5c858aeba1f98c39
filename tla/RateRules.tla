------------------------------- MODULE RateRules -------------------------------
(***************************************************************************)
(* gpustack-rate-limit: which combinations of limits bind a request        *)
(* (config.go, and parseOverrideRuleConfig and isPathEnabled of main.go).  *)
(*                                                                         *)
(* A request is [route, path, attrs]: the route Envoy chose, the segments  *)
(* of its path, and what it carries, a function from <<place, name>>, the  *)
(* place being "header", "param" or "cookie".                              *)
(*                                                                         *)
(* A match rule is [source, name, kind, value], its value as compiled: the *)
(* string of an "exact" one, the set a "regexp" or "cidr" admits, the      *)
(* function from what a "capture" admits to its first group.               *)
(***************************************************************************)
EXTENDS Integers, Sequences, SequencesExt, FiniteSetsExt, TLC

\* MatchRule.extract: ip is a header that another filter set, consumer a fixed one.
ConsumerHeader == <<"header", "x-mse-consumer">>
Attribute(rule) ==
  CASE rule.source = "consumer" -> ConsumerHeader
    [] rule.source \in {"header", "ip"} -> <<"header", rule.name>>
    [] OTHER -> <<rule.source, rule.name>>

\* MatchRule.Match: whether the rule hits, and the fragment of the key.
Hits(rule, who) ==
  /\ Attribute(rule) \in DOMAIN who.attrs
  /\ LET raw == who.attrs[Attribute(rule)]
     IN  CASE rule.kind = "wildcard" -> TRUE
           [] rule.kind = "exact" -> raw = rule.value
           [] rule.kind = "capture" -> raw \in DOMAIN rule.value
           [] OTHER -> raw \in rule.value

Fragment(rule, who) ==
  LET raw == who.attrs[Attribute(rule)]
  IN  IF rule.kind = "capture" THEN rule.value[raw] ELSE raw

KeyPart(rule, value) ==
  IF rule.source = "consumer" \/ rule.name = "" THEN <<rule.source, value>>
                                                ELSE <<rule.source, rule.name, value>>

Base(combo, who) ==
  [i \in DOMAIN combo.match |-> KeyPart(combo.match[i], Fragment(combo.match[i], who))]

\* Every rule must hit; a fallback combination may have none.
Matches(combo, who) == \A i \in DOMAIN combo.match : Hits(combo.match[i], who)

\* A fallback combination binds a request only if no other one matches it.
Active(combos, who) ==
  LET matched == SelectSeq(combos, LAMBDA c : Matches(c, who))
      own == SelectSeq(matched, LAMBDA c : ~c.fallback)
  IN IF own = <<>> THEN matched ELSE own

-----------------------------------------------------------------------------
\* matchPathFilters; <<"*">> is the suffix of every path, <<>> a prefix of each.
Enabled(config, path) ==
  \/ \E s \in config.suffixes : s = <<"*">> \/ IsSuffix(s, path)
  \/ \E p \in config.prefixes : IsPrefix(p, path)

\* parseOverrideRuleConfig: what a rule declares replaces what it inherits, but
\* its combinations come after the global ones.
Override(global, rule) ==
  IF "combos" \in DOMAIN rule THEN [(rule @@ global) EXCEPT !.combos = global.combos \o @]
                              ELSE rule @@ global

\* QuotaSpec.Compile: the periods of the time zone.
Compiled(combo, timezone) ==
  [combo EXCEPT !.calendar = [i \in DOMAIN @ |-> [@[i] EXCEPT !.starts = @[timezone]]]]

\* Every rule compiles the global combinations it inherits once more, and all
\* configurations share their calendars: the last rule leaves its time zone.
Shared(config) ==
  IF config.rules = <<>> THEN config.global.timezone
                         ELSE Override(config.global, Last(config.rules)).timezone

\* The first rule that names the route of the request, or the global configuration.
ConfigOf(config, who) ==
  LET rules == SelectSeq(config.rules, LAMBDA r : r.route = who.route)
      own == IF rules = <<>> THEN config.global ELSE Override(config.global, Head(rules))
      inherited(i) == i <= Len(config.global.combos)
  IN [own EXCEPT !.combos = [i \in DOMAIN @ |->
        Compiled(@[i], IF inherited(i) THEN Shared(config) ELSE own.timezone)]]

\* PluginConfig.Validate
Valid(config) ==
  /\ config.rule_name # "" /\ config.combos # <<>>
  /\ \A i, j \in DOMAIN config.combos : config.combos[i].name = config.combos[j].name => i = j
  /\ \A i \in DOMAIN config.combos :
       LET c == config.combos[i]
       IN  /\ c.name # "" /\ (c.match = <<>> => c.fallback)
           /\ c.query # <<>> \/ c.tokens # <<>> \/ c.calendar # <<>>
           /\ \A p \in DOMAIN c.calendar : c.calendar[p].quota > 0

\* A global configuration need not limit anything itself.
Accepted(config) ==
  /\ config.global.combos = <<>> \/ Valid(config.global)
  /\ \A i \in DOMAIN config.rules : Valid(Override(config.global, config.rules[i]))
=============================================================================
