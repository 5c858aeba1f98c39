------------------------------ MODULE MCRateLocal ------------------------------
(***************************************************************************)
(* Instances of RateLocal for TLC.                                         *)
(***************************************************************************)
EXTENDS RateLocal

CONSTANTS w1, w2, w3

Quota(w, n) == [window |-> w, quota |-> n]

\* One consumer, on one route, with one combination.
ann == [route |-> "chat", path |-> <<"v1", "completions">>, attrs |-> (ConsumerHeader :> "ann")]
Ann == {ann}
Plan(query, tokens) ==
  [global |-> [rule_name |-> "rule", timezone |-> "utc", suffixes |-> {<<"completions">>}, prefixes |-> {},
               combos |-> <<[name |-> "plan", fallback |-> FALSE,
                             match |-> <<[source |-> "consumer", name |-> "", kind |-> "exact", value |-> "ann"]>>,
                             query |-> query, tokens |-> tokens, calendar |-> <<>>]>>],
   rules |-> <<>>]

OneWindow == Plan(<<Quota(2, 1)>>, <<>>)
TwoWindows == Plan(<<Quota(1, 1), Quota(2, 2)>>, <<>>)
WithTokens == Plan(<<Quota(1, 1), Quota(2, 2)>>, <<Quota(2, 2)>>)

\* The buckets of requests exist; that of tokens is new, and the host may
\* refuse its calls.
Requests == {e.key : e \in {e \in AllChecks : e.mode = "check_and_add"}}
Tokens == Key \ Requests
Every == Key

\* per_minute together with a per_custom of sixty seconds.
SameWindow == Plan(<<Quota(2, 3), Quota(2, 3)>>, <<>>)

Symmetry == Permutations(Worker)
=============================================================================
