---------------------------- MODULE LBCandidates ----------------------------
(***************************************************************************)
(* The pure part of gpustack-lb and its capability plugins: from the       *)
(* configured candidates and the loaded states to the published set        *)
(* (context.go), the scores of the rank entries (session-affinity,         *)
(* least-load, decision-service) and the order in which the finisher tries *)
(* to reserve a slot (selector.go, finisher.go).                           *)
(*                                                                         *)
(* Scores are exact rationals <<numerator, denominator>> where the code    *)
(* has float64.  Model names are sequences, <<>> the empty name, and a     *)
(* pattern is [prefix |-> TRUE, name |-> n] for "n*" and FALSE for "n".    *)
(***************************************************************************)
EXTENDS Integers, Sequences, FiniteSets, SequencesExt, FiniteSetsExt

CONSTANTS
  None,      \* an absent weight or target id
  MaxInt64   \* the largest sum of weights that does not overflow

Gcd == LET g[a \in Nat, b \in Nat] == IF b = 0 THEN a ELSE g[b, a % b] IN g
Ratio(n, d) == IF n = 0 THEN <<0, 1>> ELSE <<n \div Gcd[n, d], d \div Gcd[n, d]>>
Plus(a, b) == Ratio(a[1] * b[2] + b[1] * a[2], a[2] * b[2])
Times(a, b) == Ratio(a[1] * b[1], a[2] * b[2])
Over(a, b) == Ratio(a[1] * b[2], a[2] * b[1])
Less(a, b) == a[1] * b[2] < b[1] * a[2]
SumOver(f(_), S) == FoldSet(LAMBDA i, acc : Plus(f(i), acc), <<0, 1>>, S)

-----------------------------------------------------------------------------
\* wire.Candidate.Key: the identity every score and every budget is keyed by.
Key(c) == <<c.cluster, c.target>>

IsWeighted(cands) == \E i \in DOMAIN cands : cands[i].weight # None

Matches(pattern, name) ==
  IF pattern.prefix THEN IsPrefix(pattern.name, name) ELSE pattern.name = name

\* Exact, then the first matching prefix, then "*".  The keys are tried in
\* lexicographic order, where "*" sorts before every character of a name, so
\* of two matching prefixes the shorter one wins.
FirstMatch(group, name, otherwise) ==
  LET exact == [prefix |-> FALSE, name |-> name]
      prefixes == {p \in DOMAIN group : p.prefix /\ p.name # <<>> /\ Matches(p, name)}
      star == [prefix |-> TRUE, name |-> <<>>]
  IN  IF exact \in DOMAIN group THEN group[exact]
      ELSE IF prefixes # {}
        THEN group[CHOOSE p \in prefixes : \A q \in prefixes : Len(p.name) <= Len(q.name)]
      ELSE IF star \in DOMAIN group THEN group[star] ELSE otherwise

\* resolveCandidateModel
ResolveCandidateModel(mappers, target, name) ==
  IF target \in DOMAIN mappers THEN FirstMatch(mappers[target], name, <<>>) ELSE <<>>

\* The context role's buildCandidateSet: state[Key(c)].inflight and
\* health[c.cluster], a missing one reading as zero.
Ejected(c, health, now) == c.kind # "provider" /\ now < health[c.cluster].ejectedUntil

Recovering(c, health, now) ==
  /\ c.kind # "provider" /\ ~Ejected(c, health, now)
  /\ health[c.cluster].rampUntil > health[c.cluster].ejectedUntil
  /\ now < health[c.cluster].rampUntil

BuildCandidateSet(lb, now, name, inflight, health) ==
  LET alive == SelectSeq(lb.candidates, LAMBDA c : ~Ejected(c, health, now))
      MaxLoad == Max({0} \union {inflight[Key(alive[i])] : i \in DOMAIN alive})
      Penalty(c) ==
        IF Recovering(c, health, now)
        THEN Times(Ratio(health[c.cluster].rampUntil - now,
                         health[c.cluster].rampUntil - health[c.cluster].ejectedUntil),
                   <<MaxLoad + 1, 1>>)
        ELSE <<0, 1>>
      Published(c) ==
        [cluster |-> c.cluster, target |-> c.target, kind |-> c.kind, weight |-> c.weight,
         maxRun |-> c.maxRun, inflight |-> inflight[Key(c)],
         model |-> ResolveCandidateModel(lb.mappers, c.target, name),
         penalty |-> Penalty(c), probation |-> Recovering(c, health, now)]
      Publish(s) == [i \in DOMAIN s |-> Published(s[i])]
  IN  IF alive = <<>> /\ lb.failOpen THEN Publish(lb.candidates) ELSE Publish(alive)

-----------------------------------------------------------------------------
(* The rank entries: scores by candidate key. *)

ScoresOf(cands, score) ==
  [k \in {Key(cands[i]) : i \in DOMAIN cands} |->
     score[CHOOSE i \in DOMAIN cands : Key(cands[i]) = k]]

\* affinityScores: rendezvous hashing, the halving decay in hash order.  The
\* published order is the key order, which breaks a tie of the hash.
AffinityScores(cands, hash) ==
  LET Before(j, i) == \/ hash[Key(cands[j])] > hash[Key(cands[i])]
                      \/ hash[Key(cands[j])] = hash[Key(cands[i])] /\ j < i
  IN  ScoresOf(cands, [i \in DOMAIN cands |->
        <<1, 2 ^ Cardinality({j \in DOMAIN cands : Before(j, i)})>>])

\* loadScores, effectiveLoad, loadScore
LoadScores(cands) ==
  ScoresOf(cands, [i \in DOMAIN cands |->
    Over(<<1, 1>>, Plus(<<1 + cands[i].inflight, 1>>, cands[i].penalty))])

\* verdictScores: the probability of the model, whatever the number of
\* candidates that serve it.
VerdictScores(cands, probability) ==
  LET scored == SelectSeq(cands, LAMBDA c : /\ c.model \in DOMAIN probability
                                            /\ probability[c.model][1] > 0)
  IN  ScoresOf(scored, [i \in DOMAIN scored |-> probability[scored[i].model]])

-----------------------------------------------------------------------------
(* The finisher's choice.  Where the code draws at random the result is    *)
(* the set of what it may draw.                                            *)

\* combineRanks: an entry votes over the candidates of the set only.
Voted(cands, entry) ==
  {i \in DOMAIN cands : /\ Key(cands[i]) \in DOMAIN entry.scores
                        /\ entry.scores[Key(cands[i])][1] > 0}

Contributing(cands, ranks) == {e \in DOMAIN ranks : Voted(cands, ranks[e]) # {}}

VoteWeight(entry) == IF entry.weight[1] > 0 THEN entry.weight ELSE <<1, 1>>

\* Fault: the raw scores are added, so an entry over more candidates weighs more.
ShareRaw(cands, entry, i) ==
  IF i \in Voted(cands, entry) THEN Times(VoteWeight(entry), entry.scores[Key(cands[i])])
  ELSE <<0, 1>>

Share(cands, entry, i) ==
  LET Score(j) == entry.scores[Key(cands[j])]
  IN  IF i \in Voted(cands, entry)
      THEN Times(VoteWeight(entry), Over(Score(i), SumOver(Score, Voted(cands, entry))))
      ELSE <<0, 1>>

CombineRanks(cands, ranks) ==
  [i \in DOMAIN cands |->
     SumOver(LAMBDA e : Share(cands, ranks[e], i), Contributing(cands, ranks))]

BestTotal(cands, totals) ==
  {i \in DOMAIN cands : \A j \in DOMAIN cands : ~Less(totals[i], totals[j])}

\* selectWeighted: the interval of the hash; uniform when the sum is zero or
\* overflows.
WeightOf(c) == IF c.weight = None THEN 0 ELSE c.weight

SelectWeighted(cands, hash) ==
  LET Acc(i) == MapThenSumSet(LAMBDA j : WeightOf(cands[j]), 1..i)
      total == Acc(Len(cands))
  IN  IF total = 0 \/ total > MaxInt64 THEN (hash % Len(cands)) + 1
      ELSE CHOOSE i \in DOMAIN cands : /\ hash % total < Acc(i)
                                       /\ \A j \in 1..(i - 1) : hash % total >= Acc(j)

\* selectCandidate with selectScored and roundRobin: the possible winners.
Scored(cands, ranks) == ~IsWeighted(cands) /\ Contributing(cands, ranks) # {}

SelectCandidate(cands, ranks, hash) ==
  IF IsWeighted(cands) THEN {SelectWeighted(cands, hash)}
  ELSE IF Scored(cands, ranks) THEN BestTotal(cands, CombineRanks(cands, ranks))
  ELSE DOMAIN cands

\* Fault: a full candidate of a weighted route spills to the next one.
ReserveSpills(cands, ranks, winner) ==
  {<<winner>> \o SetToSortSeq(DOMAIN cands \ {winner}, LAMBDA a, b : a < b)}

\* reserveOrder: the winner, then every other candidate by descending total,
\* equals shuffled.
ReserveOrders(cands, ranks, winner) ==
  LET totals == CombineRanks(cands, ranks)
      rest == DOMAIN cands \ {winner}
  IN  IF IsWeighted(cands) THEN {<<winner>>}
      ELSE IF ~Scored(cands, ranks)
        THEN {<<winner>> \o SetToSortSeq(rest, LAMBDA a, b : a < b)}
      ELSE {<<winner>> \o s : s \in {s \in SetToSeqs(rest) :
              \A i, j \in DOMAIN s : i < j => ~Less(totals[s[i]], totals[s[j]])}}
=============================================================================
