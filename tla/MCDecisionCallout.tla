-------------------------- MODULE MCDecisionCallout --------------------------
(***************************************************************************)
(* Instances of DecisionCallout for TLC.                                   *)
(***************************************************************************)
EXTENDS DecisionCallout, TLC

CONSTANTS w1, w2, r1, r2, r3

Conf(tokens, cooldown, global) ==
  [tokens |-> tokens, cooldown |-> cooldown, global |-> global, selects |-> TRUE, serves |-> TRUE]

\* One credential list: in a global config, which is pushed again, and in a rule
\* without a cooldown; and an anonymous service.
Configs == {Conf(<<"t1", "t2">>, 2, TRUE), Conf(<<>>, 2, FALSE)}

\* Rules only, and rules that share a service but not the credentials.
RulesOnly == {Conf(<<"t1", "t2">>, 2, FALSE)}
TwoLists  == {Conf(<<"t1", "t2">>, 2, FALSE), Conf(<<"t3", "t2">>, 2, FALSE)}

Plain == [fallback |-> FALSE, models |-> 2, weighted |-> FALSE, body |-> TRUE]
Queries == {Plain, [Plain EXCEPT !.weighted = TRUE]}
=============================================================================
