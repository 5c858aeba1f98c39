-------------------------- MODULE RequestChain_proofs --------------------------
(***************************************************************************)
(* RequestChain, for any scenarios and any number of redirects.            *)
(***************************************************************************)
EXTENDS RequestChain, WellFoundedInduction, TLAPS

LEMMA LeastNatural ==
  ASSUME NEW T \in SUBSET Nat, T # {}
  PROVE  \E m \in T : \A n \in T : m <= n
<1>1. PICK m \in T : \A n \in T : ~ (<<n, m>> \in OpToRel(<, Nat))
  BY NatLessThanWellFounded, WFMin
<1>2. \A n \in T : ~ (n < m)
  BY <1>1 DEF OpToRel
<1>. QED BY <1>2

LEMMA GreatestBelow ==
  ASSUME NEW N \in Nat, NEW T \in SUBSET (0..N), T # {}
  PROVE  \E m \in T : \A n \in T : n <= m
<1>. DEFINE Rest == {k \in 0..N : N - k \in T}
<1>1. Rest \in SUBSET Nat /\ Rest # {}
  <2>1. PICK n \in T : TRUE
    OBVIOUS
  <2>2. N - n \in 0..N /\ N - (N - n) = n
    BY <2>1
  <2>3. N - n \in Rest
    BY <2>1, <2>2
  <2>4. Rest \in SUBSET Nat
    OBVIOUS
  <2>. HIDE DEF Rest
  <2>. QED BY <2>3, <2>4
<1>2. PICK k \in Rest : \A l \in Rest : k <= l
  <2>. HIDE DEF Rest
  <2>. QED BY <1>1, LeastNatural
<1>3. ASSUME NEW n \in T PROVE n <= N - k
  <2>1. n \in 0..N /\ N - n \in 0..N /\ N - (N - n) = n
    OBVIOUS
  <2>2. k <= N - n
    BY <1>2, <2>1
  <2>. QED BY <2>1, <2>2
<1>. QED BY <1>2, <1>3

-----------------------------------------------------------------------------
(***************************************************************************)
(* The address check.                                                      *)
(***************************************************************************)

\* The loop that collects patterns: f[n] is what it has after n entries.
Collects(f, entries, known, n) ==
  f = [m \in 0..n |->
         IF m = 0 THEN <<>>
         ELSE IF IsPattern(entries[m]) /\ entries[m][1] \notin known
         THEN Append(f[m - 1], entries[m]) ELSE f[m - 1]]

LEMMA CollectsExists ==
  ASSUME NEW E, NEW entries \in Seq(E), NEW known
  PROVE  \E f : Collects(f, entries, known, Len(entries))
<1>. DEFINE Failing == {n \in 0..Len(entries) : ~ \E f : Collects(f, entries, known, n)}
<1>. SUFFICES ASSUME Failing # {} PROVE FALSE
  <2>1. Len(entries) \in 0..Len(entries)
    OBVIOUS
  <2>. QED BY <2>1
<1>1. PICK n \in Failing : \A m \in Failing : n <= m
  <2>1. Failing \in SUBSET Nat
    OBVIOUS
  <2>. HIDE DEF Failing
  <2>. QED BY <2>1, LeastNatural
<1>2. n # 0
  <2>1. Collects([m \in 0..0 |-> <<>>], entries, known, 0)
    BY DEF Collects
  <2>. QED BY <2>1
<1>3. n \in 1..Len(entries) /\ n - 1 \in 0..Len(entries)
  BY <1>2
<1>4. PICK f : Collects(f, entries, known, n - 1)
  <2>1. n - 1 \notin Failing
    <3>. HIDE DEF Failing
    <3>. QED BY <1>1, <1>3
  <2>. QED BY <1>3, <2>1
<1>. DEFINE Step(h, m) == IF m = 0 THEN <<>>
                          ELSE IF IsPattern(entries[m]) /\ entries[m][1] \notin known
                          THEN Append(h[m - 1], entries[m]) ELSE h[m - 1]
            g == [m \in 0..n |-> IF m < n THEN f[m] ELSE Step(f, n)]
<1>5. ASSUME NEW m \in 0..n PROVE g[m] = Step(g, m)
  <2>1. m # 0 => g[m - 1] = f[m - 1]
    BY <1>3
  <2>2. m < n => f[m] = Step(f, m)
    <3>1. m < n => m \in 0..(n - 1)
      BY <1>3
    <3>. QED BY <1>4, <3>1, Zenon DEF Collects
  <2>3. Step(g, m) = Step(f, m)
    <3>. HIDE DEF g
    <3>. QED BY <2>1
  <2>4. g[m] = Step(f, m)
    <3>. HIDE DEF Step
    <3>. QED BY <1>3, <2>2
  <2>. QED BY <2>3, <2>4
<1>6. g = [m \in 0..n |-> Step(g, m)]
  <2>. HIDE DEF Step
  <2>1. g = [m \in 0..n |-> g[m]]
    OBVIOUS
  <2>. HIDE DEF g
  <2>. QED BY <1>5, <2>1
<1>7. Collects(g, entries, known, n)
  <2>. HIDE DEF g
  <2>. QED BY <1>6, Zenon DEF Collects
<1>. QED BY <1>1, <1>7

\* Every pattern collected is one of the entries.
LEMMA PatternsAreEntries ==
  ASSUME NEW E, NEW entries \in Seq(E), NEW known
  PROVE  Patterns(entries, known) \in Seq(ToSet(entries))
<1>1. PICK f : /\ Collects(f, entries, known, Len(entries))
               /\ Patterns(entries, known) = f[Len(entries)]
  <2>1. Patterns(entries, known) =
          (CHOOSE f : Collects(f, entries, known, Len(entries)))[Len(entries)]
    BY Zenon DEF Collects, Patterns
  <2>. QED BY <2>1, CollectsExists
<1>. DEFINE Failing == {n \in 0..Len(entries) : f[n] \notin Seq(ToSet(entries))}
<1>2. Failing = {}
  <2>. SUFFICES ASSUME Failing # {} PROVE FALSE
    OBVIOUS
  <2>1. PICK n \in Failing : \A m \in Failing : n <= m
    <3>1. Failing \in SUBSET Nat
      OBVIOUS
    <3>. HIDE DEF Failing
    <3>. QED BY <3>1, LeastNatural
  <2>2. f[n] = IF n = 0 THEN <<>>
               ELSE IF IsPattern(entries[n]) /\ entries[n][1] \notin known
               THEN Append(f[n - 1], entries[n]) ELSE f[n - 1]
    BY <1>1, Zenon DEF Collects
  <2>3. n # 0
    <3>1. n = 0 => f[n] = <<>>
      BY <2>2
    <3>2. <<>> \in Seq(ToSet(entries))
      OBVIOUS
    <3>3. f[n] \notin Seq(ToSet(entries))
      BY <2>1
    <3>. QED BY <3>1, <3>2, <3>3
  <2>4. n \in 1..Len(entries) /\ n - 1 \in 0..Len(entries)
    BY <2>3
  <2>5. f[n - 1] \in Seq(ToSet(entries))
    <3>1. n - 1 \notin Failing
      <4>. HIDE DEF Failing
      <4>. QED BY <2>1, <2>4
    <3>. QED BY <2>4, <3>1
  <2>6. entries[n] \in ToSet(entries)
    BY <2>4 DEF ToSet
  <2>7. f[n] \in Seq(ToSet(entries))
    BY <2>2, <2>3, <2>5, <2>6
  <2>. QED BY <2>7
<1>. QED BY <1>1, <1>2

Least(T) == CHOOSE i \in T : \A j \in T : i <= j

LEMMA LeastIs ==
  ASSUME NEW T \in SUBSET Nat, NEW m \in T, \A n \in T : m <= n
  PROVE  Least(T) = m
<1>1. Least(T) \in T /\ \A n \in T : Least(T) <= n
  BY Zenon DEF Least
<1>2. Least(T) \in Nat /\ m \in Nat /\ Least(T) <= m /\ m <= Least(T)
  BY <1>1
<1>. QED BY <1>2

\* A sequence of entries looks a consumer up by the first that covers it.
Hits(patterns, consumer) == {i \in DOMAIN patterns : Covers(patterns[i][1], consumer)}

LEMMA LookupIs ==
  \A c, consumer : LookupACL(c, consumer) =
    IF consumer \in DOMAIN c.exact THEN c.exact[consumer]
    ELSE IF Hits(c.patterns, consumer) = {} THEN NoRule
    ELSE c.patterns[Least(Hits(c.patterns, consumer))][2]
BY Zenon DEF LookupACL, Hits, Least

\* A replaced pattern keeps its place and its key.
LEMMA InPlaceKeeps ==
  ASSUME NEW P, NEW patterns \in Seq(P), NEW E, NEW entries \in Seq(E),
         NEW i \in 1..Len(patterns)
  PROVE  LET old == InPlace(patterns, entries)
         IN  \/ old[i] = patterns[i]
             \/ \E j \in DOMAIN entries : old[i] = entries[j] /\ entries[j][1] = patterns[i][1]
<1>. DEFINE Again == {j \in DOMAIN entries : entries[j][1] = patterns[i][1]}
            last == CHOOSE j \in Again : \A k \in Again : k <= j
<1>1. InPlace(patterns, entries)[i] = IF Again = {} THEN patterns[i] ELSE entries[last]
  <2>1. i \in DOMAIN patterns
    OBVIOUS
  <2>. QED BY <2>1, Zenon DEF InPlace
<1>2. Again # {} => last \in Again
  <2>1. Again \in SUBSET (0..Len(entries)) /\ Len(entries) \in Nat
    OBVIOUS
  <2>2. Again # {} => \E j \in Again : \A k \in Again : k <= j
    <3>. HIDE DEF Again
    <3>. QED BY <2>1, GreatestBelow
  <2>. HIDE DEF Again
  <2>. QED BY <2>2
<1>. HIDE DEF last
<1>. QED BY <1>1, <1>2

LEMMA InPlaceIs ==
  ASSUME NEW P, NEW patterns \in Seq(P), NEW E, NEW entries \in Seq(E)
  PROVE  /\ InPlace(patterns, entries) \in Seq(P \union ToSet(entries))
         /\ Len(InPlace(patterns, entries)) = Len(patterns)
<1>. DEFINE old == InPlace(patterns, entries)
<1>1. old = [i \in 1..Len(patterns) |-> old[i]]
  <2>. DEFINE new(i) ==
         LET again == {j \in DOMAIN entries : entries[j][1] = patterns[i][1]}
         IN  IF again = {} THEN patterns[i]
             ELSE entries[CHOOSE j \in again : \A k \in again : k <= j]
  <2>1. old = [i \in DOMAIN patterns |-> new(i)]
    BY Zenon DEF InPlace
  <2>2. DOMAIN patterns = 1..Len(patterns)
    OBVIOUS
  <2>. HIDE DEF new, old
  <2>. QED BY <2>1, <2>2
<1>2. ASSUME NEW i \in 1..Len(patterns) PROVE old[i] \in P \union ToSet(entries)
  <2>1. /\ patterns[i] \in P
        /\ \/ old[i] = patterns[i]
           \/ \E j \in DOMAIN entries : old[i] = entries[j] /\ entries[j][1] = patterns[i][1]
    BY InPlaceKeeps
  <2>. HIDE DEF old
  <2>. QED BY <2>1 DEF ToSet
<1>. HIDE DEF old
<1>3. old \in [1..Len(patterns) -> P \union ToSet(entries)]
  BY <1>1, <1>2
<1>. QED BY <1>3 DEF old

\* The entries of a route that do not cover a consumer leave its first pattern.
LEMMA FirstHitStays ==
  ASSUME NEW P, NEW ps \in Seq(P), NEW E, NEW es \in Seq(E), NEW known, NEW consumer,
         \A i \in DOMAIN es : ~Covers(es[i][1], consumer)
  PROVE  LET all == Patterns(es, known) \o InPlace(ps, es)
         IN  /\ Hits(all, consumer) = {} <=> Hits(ps, consumer) = {}
             /\ Hits(ps, consumer) # {} =>
                  all[Least(Hits(all, consumer))] = ps[Least(Hits(ps, consumer))]
<1>. DEFINE new == Patterns(es, known)
            old == InPlace(ps, es)
            all == new \o old
<1>1. /\ new \in Seq(ToSet(es)) /\ Len(new) \in Nat
      /\ \A i \in 1..Len(new) : ~Covers(new[i][1], consumer)
  <2>1. new \in Seq(ToSet(es))
    BY PatternsAreEntries
  <2>. HIDE DEF new
  <2>2. ASSUME NEW i \in 1..Len(new) PROVE ~Covers(new[i][1], consumer)
    <3>1. new[i] \in ToSet(es)
      BY <2>1
    <3>. QED BY <3>1 DEF ToSet
  <2>. QED BY <2>1, <2>2
<1>2. /\ old \in Seq(P \union ToSet(es)) /\ Len(old) = Len(ps) /\ Len(ps) \in Nat
      /\ DOMAIN ps = 1..Len(ps)
  <2>1. old \in Seq(P \union ToSet(es))
    BY InPlaceIs
  <2>2. Len(old) = Len(ps)
    BY InPlaceIs
  <2>3. Len(ps) \in Nat /\ DOMAIN ps = 1..Len(ps)
    OBVIOUS
  <2>. QED BY <2>1, <2>2, <2>3
<1>3. ASSUME NEW i \in 1..Len(ps)
      PROVE  /\ Covers(old[i][1], consumer) <=> Covers(ps[i][1], consumer)
             /\ Covers(ps[i][1], consumer) => old[i] = ps[i]
  <2>1. \/ old[i] = ps[i]
        \/ \E j \in DOMAIN es : old[i] = es[j] /\ es[j][1] = ps[i][1]
    BY InPlaceKeeps
  <2>. HIDE DEF old
  <2>. QED BY <2>1
<1>. HIDE DEF new, old
<1>4. /\ DOMAIN all = 1..(Len(new) + Len(ps))
      /\ \A i \in 1..Len(new) : all[i] = new[i]
      /\ \A i \in 1..Len(ps) : all[Len(new) + i] = old[i]
  <2>1. new \in Seq(P \union ToSet(es)) /\ old \in Seq(P \union ToSet(es))
    BY <1>1, <1>2
  <2>2. DOMAIN all = 1..(Len(new) + Len(old))
    BY <2>1
  <2>3. \A i \in 1..Len(new) : all[i] = new[i]
    BY <2>1
  <2>4. \A i \in 1..Len(old) : all[Len(new) + i] = old[i]
    BY <2>1
  <2>. QED BY <1>2, <2>2, <2>3, <2>4
<1>. HIDE DEF all
<1>5. Hits(all, consumer) = {Len(new) + i : i \in Hits(ps, consumer)}
  <2>1. ASSUME NEW k \in Hits(all, consumer)
        PROVE  k \in {Len(new) + i : i \in Hits(ps, consumer)}
    <3>1. k \in 1..(Len(new) + Len(ps)) /\ Covers(all[k][1], consumer)
      BY <1>4 DEF Hits
    <3>2. k \notin 1..Len(new)
      BY <1>1, <1>4, <3>1
    <3>3. PICK i \in 1..Len(ps) : k = Len(new) + i
      <4>1. k - Len(new) \in 1..Len(ps) /\ k = Len(new) + (k - Len(new))
        BY <1>1, <1>2, <3>1, <3>2
      <4>. QED BY <4>1
    <3>4. Covers(ps[i][1], consumer)
      BY <1>3, <1>4, <3>1, <3>3
    <3>. QED BY <1>2, <3>3, <3>4 DEF Hits
  <2>2. ASSUME NEW i \in Hits(ps, consumer)
        PROVE  Len(new) + i \in Hits(all, consumer)
    <3>1. i \in 1..Len(ps) /\ Covers(ps[i][1], consumer)
      BY <1>2 DEF Hits
    <3>2. Len(new) + i \in 1..(Len(new) + Len(ps))
      BY <1>1, <1>2, <3>1
    <3>3. all[Len(new) + i] = old[i] /\ Covers(old[i][1], consumer)
      BY <1>3, <1>4, <3>1
    <3>. QED BY <1>4, <3>2, <3>3 DEF Hits
  <2>. QED BY <2>1, <2>2
<1>6. ASSUME Hits(ps, consumer) # {}
      PROVE  all[Least(Hits(all, consumer))] = ps[Least(Hits(ps, consumer))]
  <2>1. Hits(ps, consumer) \in SUBSET Nat
    BY <1>2 DEF Hits
  <2>2. PICK m \in Hits(ps, consumer) : \A i \in Hits(ps, consumer) : m <= i
    BY <1>6, <2>1, LeastNatural
  <2>3. Least(Hits(ps, consumer)) = m
    BY <2>1, <2>2, LeastIs
  <2>4. Least(Hits(all, consumer)) = Len(new) + m
    <3>1. /\ Hits(all, consumer) \in SUBSET Nat /\ Len(new) + m \in Hits(all, consumer)
          /\ \A k \in Hits(all, consumer) : Len(new) + m <= k
      BY <1>1, <1>5, <2>1, <2>2
    <3>. QED BY <3>1, LeastIs
  <2>5. m \in 1..Len(ps) /\ Covers(ps[m][1], consumer)
    BY <1>2, <2>2 DEF Hits
  <2>6. all[Len(new) + m] = ps[m]
    BY <1>3, <1>4, <2>5
  <2>. QED BY <2>3, <2>4, <2>6
<1>7. Hits(all, consumer) = {} <=> Hits(ps, consumer) = {}
  BY <1>5
<1>. QED BY <1>6, <1>7 DEF all, new, old

\* A rule that names a consumer nowhere leaves it its default rule.
LEMMA DefaultRuleStays ==
  ASSUME NEW raw, NEW global, NEW consumer, NEW P, NEW E,
         raw.valid, raw.entries \in Seq(E), global.patterns \in Seq(P),
         \A i \in DOMAIN raw.entries : ~Covers(raw.entries[i][1], consumer)
  PROVE  LookupACL(OverrideAcl(raw, global), consumer) = LookupACL(global, consumer)
<1>. DEFINE o == OverrideAcl(raw, global)
            es == raw.entries
            ps == global.patterns
            all == Patterns(es, Keys(ps)) \o InPlace(ps, es)
<1>1. o.exact = ExactRules(es, global.exact) /\ o.patterns = all
  BY DEF OverrideAcl
<1>2. \A i \in DOMAIN es : ~IsPattern(es[i]) => es[i][1].text # consumer
  BY DEF IsPattern, Covers
<1>3. es \in Seq(E) /\ ps \in Seq(P) /\ \A i \in DOMAIN es : ~Covers(es[i][1], consumer)
  OBVIOUS
<1>. HIDE DEF o, es, ps, all
<1>4. /\ consumer \in DOMAIN o.exact <=> consumer \in DOMAIN global.exact
      /\ consumer \in DOMAIN global.exact => o.exact[consumer] = global.exact[consumer]
  <2>1. {i \in {j \in DOMAIN es : ~IsPattern(es[j])} : es[i][1].text = consumer} = {}
    BY <1>2
  <2>2. DOMAIN ExactRules(es, global.exact) =
          DOMAIN global.exact \union {es[i][1].text : i \in {j \in DOMAIN es : ~IsPattern(es[j])}}
    BY DEF ExactRules
  <2>3. consumer \in DOMAIN global.exact =>
          ExactRules(es, global.exact)[consumer] = global.exact[consumer]
    BY <2>1 DEF ExactRules
  <2>. QED BY <1>1, <1>2, <2>2, <2>3
<1>5. /\ Hits(all, consumer) = {} <=> Hits(ps, consumer) = {}
      /\ Hits(ps, consumer) # {} =>
           all[Least(Hits(all, consumer))] = ps[Least(Hits(ps, consumer))]
  BY <1>3, FirstHitStays DEF all
<1>6. LookupACL(o, consumer) = IF consumer \in DOMAIN o.exact THEN o.exact[consumer]
        ELSE IF Hits(all, consumer) = {} THEN NoRule ELSE all[Least(Hits(all, consumer))][2]
  BY <1>1, LookupIs
<1>7. LookupACL(global, consumer) = IF consumer \in DOMAIN global.exact THEN global.exact[consumer]
        ELSE IF Hits(ps, consumer) = {} THEN NoRule ELSE ps[Least(Hits(ps, consumer))][2]
  BY LookupIs DEF ps
<1>. QED BY <1>4, <1>5, <1>6, <1>7 DEF o

\* Behind trusted proxies the walk from the right stops at the client.
LEMMA WalkStopsAtClient ==
  ASSUME NEW c, NEW client \in Addr, NEW S, NEW claimed \in Seq(S), NEW T, NEW proxies \in Seq(T),
         c.from \subseteq SUBSET Addr, c.header, ~InNetworks(client, c.from), proxies # <<>>,
         \A i \in DOMAIN proxies : InNetworks(proxies[i], c.from)
  PROVE  ClientIP(c, Last(proxies), claimed \o <<client>> \o Front(proxies)) = client
<1>. DEFINE front == Front(proxies)
            fwd == claimed \o <<client>> \o front
            here == Len(claimed) + 1
<1>1. /\ Len(claimed) \in Nat /\ Len(proxies) \in Nat \ {0} /\ here \in Nat
      /\ DOMAIN proxies = 1..Len(proxies)
  OBVIOUS
<1>2. front \in Seq(T) /\ Len(front) = Len(proxies) - 1 /\ \A i \in 1..Len(front) : front[i] = proxies[i]
  BY <1>1 DEF Front
<1>. HIDE DEF front
<1>3. /\ claimed \o <<client>> \in Seq(S \union T \union {client})
      /\ Len(claimed \o <<client>>) = here /\ (claimed \o <<client>>)[here] = client
  <2>1. claimed \in Seq(S \union T \union {client}) /\ <<client>> \in Seq(S \union T \union {client})
    OBVIOUS
  <2>. QED BY <2>1
<1>4. front \in Seq(S \union T \union {client})
  BY <1>2
<1>. DEFINE left == claimed \o <<client>>
<1>5. /\ DOMAIN fwd = 1..(here + Len(front)) /\ fwd[here] = client
      /\ \A i \in 1..Len(front) : fwd[here + i] = front[i]
  <2>1. left \in Seq(S \union T \union {client}) /\ Len(left) = here /\ left[here] = client
        /\ fwd = left \o front
    BY <1>3
  <2>. HIDE DEF left, fwd
  <2>2. DOMAIN fwd = 1..(Len(left) + Len(front))
    BY <1>4, <2>1
  <2>3. \A i \in 1..Len(left) : fwd[i] = left[i]
    BY <1>4, <2>1
  <2>4. \A i \in 1..Len(front) : fwd[Len(left) + i] = front[i]
    BY <1>4, <2>1
  <2>5. here \in 1..Len(left)
    BY <1>1, <2>1
  <2>. HIDE DEF here
  <2>6. DOMAIN fwd = 1..(here + Len(front))
    BY <2>1, <2>2
  <2>7. fwd[here] = client
    BY <2>1, <2>3, <2>5
  <2>8. \A i \in 1..Len(front) : fwd[here + i] = front[i]
    BY <2>1, <2>4
  <2>. QED BY <2>6, <2>7, <2>8
<1>. HIDE DEF left, fwd
<1>6. here \in StopsAt(fwd, c.from)
  <2>1. here \in 1..(here + Len(front))
    BY <1>1, <1>2
  <2>. HIDE DEF here
  <2>. QED BY <1>5, <2>1 DEF StopsAt
<1>7. ASSUME NEW j \in StopsAt(fwd, c.from) PROVE j <= here /\ j \in Nat
  <2>1. j \in 1..(here + Len(front)) /\ (fwd[j] \notin Addr \/ ~InNetworks(fwd[j], c.from))
    <3>. HIDE DEF here
    <3>. QED BY <1>5 DEF StopsAt
  <2>2. ASSUME ~(j <= here) PROVE FALSE
    <3>1. j - here \in 1..Len(front) /\ here + (j - here) = j
      BY <1>1, <1>2, <2>1, <2>2
    <3>2. fwd[j] = front[j - here]
      <4>. HIDE DEF here
      <4>. QED BY <1>5, <3>1
    <3>3. fwd[j] = proxies[j - here] /\ j - here \in 1..Len(proxies)
      <4>1. PICK i \in 1..Len(front) : i = j - here
        BY <3>1
      <4>2. i \in 1..Len(proxies)
        BY <1>1, <1>2
      <4>3. front[i] = proxies[i]
        BY <1>2
      <4>. HIDE DEF here
      <4>. QED BY <3>2, <4>1, <4>2, <4>3
    <3>4. InNetworks(fwd[j], c.from)
      <4>. HIDE DEF here
      <4>. QED BY <1>1, <3>3
    <3>5. fwd[j] \in Addr
      BY <3>4 DEF InNetworks
    <3>. QED BY <2>1, <3>4, <3>5
  <2>. QED BY <2>1, <2>2
<1>8. LastStop(fwd, c.from) = here
  <2>1. LastStop(fwd, c.from) \in StopsAt(fwd, c.from) /\ here <= LastStop(fwd, c.from)
    <3>. HIDE DEF here
    <3>. QED BY <1>6, <1>7, Zenon DEF LastStop
  <2>2. LastStop(fwd, c.from) <= here /\ LastStop(fwd, c.from) \in Nat
    BY <1>7, <2>1
  <2>. QED BY <1>1, <2>1, <2>2
<1>9. InNetworks(Last(proxies), c.from)
  BY <1>1 DEF Last
<1>10. ClientIP(c, Last(proxies), fwd) = client
  <2>. HIDE DEF here
  <2>. QED BY <1>5, <1>6, <1>8, <1>9 DEF ClientIP
<1>. QED BY <1>10 DEF fwd, left, front

LEMMA DirectClient ==
  ASSUME NEW c, NEW client, NEW fwd, ~InNetworks(client, c.from)
  PROVE  ClientIP(c, client, fwd) = client
BY DEF ClientIP

\* What does not parse lets no consumer through.
LEMMA DenyAllRejects ==
  ASSUME NEW S, NEW consumer \in Seq(S), consumer # <<>>, NEW source, NEW fwd
  PROVE  Rejects(DenyAll, consumer, source, fwd)
<1>. DEFINE rule == [allowed |-> {}, denied |-> {Addr}]
<1>1. Covers([kind |-> "prefix", text |-> <<>>], consumer)
  BY DEF Covers, IsPrefix
<1>2. Hits(DenyAll.patterns, consumer) = {1} /\ DenyAll.patterns[1][2] = rule
  BY <1>1 DEF Hits, DenyAll
<1>3. Least({1}) = 1
  BY LeastIs
<1>4. LookupACL(DenyAll, consumer) = rule
  BY <1>2, <1>3, LookupIs DEF DenyAll, NoExact
<1>5. rule # NoRule
  BY NoRuleAssumption
<1>6. \A ip : Enforced(ip, rule)
  BY DEF Enforced, InNetworks
<1>. HIDE DEF rule
<1>7. rule.denied # {}
  BY DEF rule
<1>. QED BY <1>4, <1>5, <1>6, <1>7, Zenon DEF Rejects

-----------------------------------------------------------------------------
(* The address rules on the chain.  A handler behind the check runs only on  *)
(* a request the check let by, and neither the request nor the configuration *)
(* changes under it.                                                         *)

AclConf == conf.acl
Checked ==
  /\ scn \in Scenario /\ conf = Parsed(scn)
  /\ Passed => ~Rejects(AclConf, req.consumer, Source, Forwarded)

LEMMA CheckedInit == Init => Checked
  BY DEF Init, Checked, Passed

\* No step touches the configuration, and only the check leads behind it.
LEMMA NothingReconfigured ==
  ASSUME [Next]_vars
  PROVE  /\ scn' = scn /\ conf' = conf
         /\ Passed' /\ ~Passed => at = "acl" /\ ~Rejects(AclConf, req.consumer, Source, Forwarded)
<1>. USE DEF Passed, Go, Answer, Rewritten, Settle
<1>1. CASE SetHeader
  BY <1>1 DEF SetHeader
<1>2. CASE RouterHeaders
  BY <1>2 DEF RouterHeaders
<1>3. CASE RouterBody
  BY <1>3 DEF RouterBody
<1>4. CASE Acl
  BY <1>4 DEF Acl, AclConf
<1>5. CASE Publish
  BY <1>5 DEF Publish
<1>6. CASE Legacy
  BY <1>6 DEF Legacy
<1>7. CASE LegacyBody
  BY <1>7 DEF LegacyBody
<1>8. CASE AffinityHeaders
  BY <1>8 DEF AffinityHeaders
<1>9. CASE AffinityBody
  BY <1>9 DEF AffinityBody
<1>10. CASE LeastLoad
  BY <1>10 DEF LeastLoad
<1>11. CASE Decision
  BY <1>11 DEF Decision
<1>12. CASE FinisherSkips
  BY <1>12 DEF FinisherSkips
<1>13. CASE FinisherRejects
  BY <1>13 DEF FinisherRejects
<1>14. CASE Reserved
  BY <1>14 DEF Reserved, Deciding
<1>15. CASE ReserveFailsOpen
  BY <1>15 DEF ReserveFailsOpen, Deciding
<1>16. CASE Exhausted
  BY <1>16 DEF Exhausted, Deciding
<1>17. CASE FinisherBody
  BY <1>17 DEF FinisherBody
<1>18. CASE StreamDone
  BY <1>18 DEF StreamDone
<1>19. CASE Redirect
  BY <1>19 DEF Redirect
<1>20. CASE UNCHANGED vars
  BY <1>20 DEF vars
<1>. QED BY <1>1, <1>2, <1>3, <1>4, <1>5, <1>6, <1>7, <1>8, <1>9, <1>10, <1>11, <1>12,
            <1>13, <1>14, <1>15, <1>16, <1>17, <1>18, <1>19, <1>20 DEF Next

LEMMA CheckedStep == Checked /\ [Next]_vars => Checked'
  BY NothingReconfigured DEF Checked, AclConf, req, Source, Forwarded

LEMMA ListIs == ASSUME NEW x, IsList(x) PROVE x \in Seq(ToSet(x))
  BY DEF IsList

\* An honest request is checked under its client's own address.
LEMMA ClientIsChecked ==
  ASSUME scn \in Scenario, NEW c, HonestPath,
         req.proxies # <<>> => c.header /\ scn.acl[1].valid,
         c.from = IF scn.acl[1].valid THEN scn.acl[1].from ELSE {}
  PROVE  ClientIP(c, Source, Forwarded) = req.client
<1>1. IsAcl(scn.acl[1]) /\ IsList(req.claimed) /\ IsList(req.proxies)
  BY ScenarioAssumption DEF req
<1>2. ~InNetworks(req.client, c.from) /\ req.client \in Addr
  BY DEF HonestPath, Trusted, InNetworks
<1>3. CASE req.proxies = <<>>
  BY <1>2, <1>3, DirectClient DEF Source
<1>4. CASE req.proxies # <<>>
  <2>1. c.header /\ c.from = scn.acl[1].from /\ c.from \subseteq SUBSET Addr
    BY <1>1, <1>4 DEF IsAcl
  <2>2. \A i \in DOMAIN req.proxies : InNetworks(req.proxies[i], c.from)
    BY <1>4, <2>1 DEF HonestPath, Trusted
  <2>3. ClientIP(c, Last(req.proxies), req.claimed \o <<req.client>> \o Front(req.proxies)) = req.client
    BY <1>1, <1>2, <1>4, <2>1, <2>2, ListIs, WalkStopsAtClient
  <2>. QED BY <1>4, <2>3 DEF Source, Forwarded
<1>. QED BY <1>3, <1>4

LEMMA CheckedIsAclHolds == Checked => AclHolds
<1>. SUFFICES ASSUME Checked, Passed, HonestPath, req.consumer # <<>>,
                     req.proxies # <<>> => scn.acl[1].valid
              PROVE  LET global == GlobalAcl(scn.acl[1])
                         route == scn.acl[2]
                         rule == IF \/ route = Null
                                    \/ ~\E i \in DOMAIN route.entries :
                                          Covers(route.entries[i][1], req.consumer)
                                 THEN LookupACL(global, req.consumer)
                                 ELSE LookupACL(AclConf, req.consumer)
                     IN  /\ route # Null => route.valid
                         /\ route = Null => scn.acl[1].valid
                         /\ rule # NoRule =>
                              /\ ~InNetworks(req.client, rule.denied)
                              /\ rule.allowed # {} => InNetworks(req.client, rule.allowed)
  BY DEF AclHolds, AclConf
<1>. DEFINE global == GlobalAcl(scn.acl[1])
            route == scn.acl[2]
            own == LookupACL(AclConf, req.consumer)
<1>1. /\ scn \in Scenario /\ ~Rejects(AclConf, req.consumer, Source, Forwarded)
      /\ AclConf = IF route = Null THEN global ELSE OverrideAcl(route, global)
  BY DEF Checked, AclConf, Parsed, RuleOf
<1>2. /\ IsAcl(scn.acl[1]) /\ (route # Null => IsAcl(route)) /\ IsList(req.consumer)
  BY <1>1, ScenarioAssumption DEF req
<1>3. AclConf # DenyAll
  BY <1>1, <1>2, ListIs, DenyAllRejects
<1>4. (route # Null => route.valid) /\ (route = Null => scn.acl[1].valid)
  BY <1>1, <1>3 DEF OverrideAcl, GlobalAcl
<1>5. global.from = IF scn.acl[1].valid THEN scn.acl[1].from ELSE {}
  BY DEF GlobalAcl, DenyAll
<1>6. scn.acl[1].valid => global.header = scn.acl[1].header
  BY DEF GlobalAcl
<1>7. AclConf.from = global.from /\ (global.header => AclConf.header)
  BY <1>1, <1>4 DEF OverrideAcl
<1>8. ClientIP(AclConf, Source, Forwarded) = req.client
  <2>1. req.proxies # <<>> => AclConf.header
    BY <1>6, <1>7 DEF HonestPath
  <2>. QED BY <1>1, <1>5, <1>7, <2>1, ClientIsChecked
<1>9. own # NoRule => /\ ~InNetworks(req.client, own.denied)
                      /\ own.allowed # {} => InNetworks(req.client, own.allowed)
  BY <1>1, <1>8 DEF Rejects, Enforced, InNetworks
<1>10. ASSUME route # Null, ~\E i \in DOMAIN route.entries : Covers(route.entries[i][1], req.consumer)
       PROVE  own = LookupACL(global, req.consumer)
  <2>1. global.patterns = IF scn.acl[1].valid THEN Patterns(scn.acl[1].entries, {}) ELSE DenyAll.patterns
    BY DEF GlobalAcl
  <2>2. \E P : global.patterns \in Seq(P)
    <3>1. Patterns(scn.acl[1].entries, {}) \in Seq(ToSet(scn.acl[1].entries))
      BY <1>2, ListIs, PatternsAreEntries DEF IsAcl
    <3>2. DenyAll.patterns \in Seq({DenyAll.patterns[1]})
      BY DEF DenyAll
    <3>. QED BY <2>1, <3>1, <3>2
  <2>3. route.entries \in Seq(ToSet(route.entries)) /\ route.valid
    BY <1>2, <1>4, <1>10, ListIs DEF IsAcl
  <2>4. LookupACL(OverrideAcl(route, global), req.consumer) = LookupACL(global, req.consumer)
    <3>. HIDE DEF global, route
    <3>. QED BY <1>10, <2>2, <2>3, DefaultRuleStays
  <2>. QED BY <1>1, <1>10, <2>4
<1>11. route = Null => own = LookupACL(global, req.consumer)
  BY <1>1
<1>. HIDE DEF own, global, route
<1>12. LET rule == IF route = Null \/ ~\E i \in DOMAIN route.entries : Covers(route.entries[i][1], req.consumer)
                   THEN LookupACL(global, req.consumer) ELSE own
       IN  rule # NoRule => /\ ~InNetworks(req.client, rule.denied)
                            /\ rule.allowed # {} => InNetworks(req.client, rule.allowed)
  BY <1>9, <1>10, <1>11
<1>. QED BY <1>4, <1>12 DEF own, global, route

\* No request passes the address check that the rule of its consumer forbids
\* its real client, behind trusted proxies or called directly, whatever the
\* client wrote into the forwarding header; a consumer that no key of the route
\* covers keeps its default rule; and a configuration that does not parse lets
\* nobody through.
THEOREM AddressRulesHold == Spec => []AclHolds
<1>1. Spec => []Checked
  BY CheckedInit, CheckedStep, PTL DEF Spec
<1>. QED BY <1>1, CheckedIsAclHolds, PTL

-----------------------------------------------------------------------------
(* What a rule inherits.                                                     *)

Says(message) == message # ""
Rejection(status, answer) ==
  status \in 400..599 /\ answer.code \in {Null, status} /\ Says(answer.message)

LEMMA MessageIsThere == ASSUME NEW raw, NEW field PROVE Says(MessageOf(raw, field))
<1>1. CASE Field(raw, field, "") \in {"", Bad}
  <2>1. MessageOf(raw, field) = "default"
    BY <1>1, Zenon DEF MessageOf
  <2>. QED BY <2>1, Zenon DEF Says
<1>2. CASE Field(raw, field, "") \notin {"", Bad}
  <2>1. MessageOf(raw, field) = raw[field] /\ Field(raw, field, "") # ""
    BY <1>2, Zenon DEF MessageOf
  <2>2. Field(raw, field, "") = raw[field]
    BY <2>1, Zenon DEF Field
  <2>. QED BY <2>1, <2>2, Zenon DEF Says
<1>. QED BY <1>1, <1>2

LEMMA MessageStays ==
  ASSUME NEW own, NEW given, NEW global, Says(own)
  PROVE  Says(Inherited(own, given, global, ""))
<1>1. CASE Inherited(own, given, global, "") = own
  BY <1>1
<1>2. CASE global # "" /\ Inherited(own, given, global, "") = global
  BY <1>2, Zenon DEF Says
<1>. QED BY <1>1, <1>2, Zenon DEF Inherited

LEMMA OwnBodyRejects ==
  ASSUME NEW message, NEW status \in 400..599, Says(message)
  PROVE  Rejection(status, RejectBody(message, status))
<1>1. RejectBody(message, status).message = message
      /\ RejectBody(message, status).code \in {Null, status}
  BY DEF RejectBody
<1>. QED BY <1>1 DEF Rejection

\* A half that the rule leaves out is the default's; the body is the default's
\* only with both of its halves.
LEMMA InheritedPairRejects ==
  ASSUME NEW raw, NEW sf, NEW mf, NEW own \in 400..599, NEW message, Says(message),
         NEW status, NEW answer,
         (answer = Null /\ status = 0) \/ Rejection(status, answer)
  PROVE  LET s == Inherited(own, Has(raw, sf), status, 0)
         IN  Rejection(s, BodyFor(raw, sf, mf, answer, message, s))
<1>. DEFINE s == Inherited(own, Has(raw, sf), status, 0)
<1>1. s \in 400..599
  BY DEF Inherited, Rejection
<1>2. CASE ~Has(raw, sf) /\ ~Has(raw, mf) /\ answer # Null
  <2>1. s = status
    BY <1>2 DEF Inherited, Rejection
  <2>2. BodyFor(raw, sf, mf, answer, message, s) = answer
    BY <1>2, Zenon DEF BodyFor
  <2>. QED BY <1>2, <2>1, <2>2
<1>3. CASE ~(~Has(raw, sf) /\ ~Has(raw, mf) /\ answer # Null)
  <2>1. BodyFor(raw, sf, mf, answer, message, s) = RejectBody(message, s)
    BY <1>3, Zenon DEF BodyFor
  <2>. QED BY <1>1, <2>1, OwnBodyRejects
<1>. QED BY <1>2, <1>3

RejectsSoundly(c) ==
  /\ Rejection(c.status, c.body) /\ Says(c.message)
  /\ Rejection(c.capStatus, c.capBody) /\ Says(c.capMessage)

LEMMA OwnRejects == ASSUME NEW raw PROVE RejectsSoundly(LBConfig(raw))
<1>. DEFINE status == RejectStatus(raw, "status", 503)
            capStatus == RejectStatus(raw, "capStatus", 429)
            message == MessageOf(raw, "message")
            capMessage == MessageOf(raw, "capMessage")
<1>1. /\ LBConfig(raw).status = status /\ LBConfig(raw).message = message
      /\ LBConfig(raw).capStatus = capStatus /\ LBConfig(raw).capMessage = capMessage
      /\ LBConfig(raw).body = RejectBody(message, status)
      /\ LBConfig(raw).capBody = RejectBody(capMessage, capStatus)
  BY DEF LBConfig
<1>2. status \in 400..599 /\ capStatus \in 400..599
  <2>1. status \in 400..599
    BY DEF RejectStatus
  <2>2. capStatus \in 400..599
    BY DEF RejectStatus
  <2>. QED BY <2>1, <2>2
<1>3. Says(message) /\ Says(capMessage)
  BY MessageIsThere
<1>. HIDE DEF status, capStatus, message, capMessage
<1>. QED BY <1>1, <1>2, <1>3, OwnBodyRejects DEF RejectsSoundly

LEMMA OverrideRejects ==
  ASSUME NEW raw, NEW first
  PROVE  RejectsSoundly(LBOverride(raw, LBGlobal(first)))
<1>. DEFINE own == LBConfig(raw)
            global == LBGlobal(first)
            c == LBOverride(raw, global)
            status == Inherited(own.status, Has(raw, "status"), global.status, 0)
            message == Inherited(own.message, Has(raw, "message"), global.message, "")
            capStatus == Inherited(own.capStatus, Has(raw, "capStatus"), global.capStatus, 0)
            capMessage == Inherited(own.capMessage, Has(raw, "capMessage"), global.capMessage, "")
<1>1. RejectsSoundly(own)
  BY OwnRejects
<1>2. global = ZeroLB \/ RejectsSoundly(global)
  BY OwnRejects DEF LBGlobal
<1>3. /\ c.status = status /\ c.message = message
      /\ c.body = BodyFor(raw, "status", "message", global.body, message, status)
      /\ c.capStatus = capStatus /\ c.capMessage = capMessage
      /\ c.capBody = BodyFor(raw, "capStatus", "capMessage", global.capBody, capMessage, capStatus)
  BY DEF LBOverride, LBConfig
<1>4. Says(message) /\ Says(capMessage)
  BY <1>1, MessageStays DEF RejectsSoundly
<1>5. /\ (global.body = Null /\ global.status = 0) \/ Rejection(global.status, global.body)
      /\ (global.capBody = Null /\ global.capStatus = 0) \/ Rejection(global.capStatus, global.capBody)
  <2>1. ZeroLB.body = Null /\ ZeroLB.status = 0 /\ ZeroLB.capBody = Null /\ ZeroLB.capStatus = 0
    BY Zenon DEF ZeroLB
  <2>. QED BY <1>2, <2>1 DEF RejectsSoundly
<1>6. own.status \in 400..599 /\ own.capStatus \in 400..599
  BY <1>1 DEF RejectsSoundly, Rejection
<1>. HIDE DEF c, own, global, message, capMessage
<1>7. Rejection(status, BodyFor(raw, "status", "message", global.body, message, status))
  <2>1. own.status \in 400..599 /\ Says(message)
    BY <1>4, <1>6
  <2>2. (global.body = Null /\ global.status = 0) \/ Rejection(global.status, global.body)
    BY <1>5
  <2>. QED BY <2>1, <2>2, InheritedPairRejects, ZenonT(30)
<1>8. Rejection(capStatus, BodyFor(raw, "capStatus", "capMessage", global.capBody, capMessage, capStatus))
  <2>1. own.capStatus \in 400..599 /\ Says(capMessage)
    BY <1>4, <1>6
  <2>2. (global.capBody = Null /\ global.capStatus = 0) \/ Rejection(global.capStatus, global.capBody)
    BY <1>5
  <2>. QED BY <2>1, <2>2, InheritedPairRejects, ZenonT(30)
<1>9. RejectsSoundly(c)
  <2>. HIDE DEF status, capStatus
  <2>. QED BY <1>3, <1>4, <1>7, <1>8 DEF RejectsSoundly
<1>. QED BY <1>9 DEF c, global

\* The provider chosen is one of the catalogue.
LEMMA SelectedIsListed ==
  ASSUME NEW P, NEW providers \in Seq(P), NEW active
  PROVE  Selected(providers, active) \in {Null} \union ToSet(providers)
<1>. DEFINE hits == {i \in DOMAIN providers : providers[i].id = active}
<1>1. DOMAIN providers = 1..Len(providers) /\ ToSet(providers) = {providers[i] : i \in 1..Len(providers)}
  BY DEF ToSet
<1>2. hits \in SUBSET Nat /\ hits \subseteq 1..Len(providers)
  BY <1>1
<1>. HIDE DEF hits
<1>3. hits # {} => Min(hits) \in hits
  BY <1>2, LeastNatural DEF Min
<1>4. Selected(providers, active) =
        IF hits # {} THEN providers[Min(hits)]
        ELSE IF Len(providers) = 1 THEN providers[1] ELSE Null
  BY DEF Selected, hits
<1>5. hits # {} => providers[Min(hits)] \in ToSet(providers)
  BY <1>1, <1>2, <1>3
<1>6. Len(providers) = 1 => providers[1] \in ToSet(providers)
  BY <1>1
<1>. QED BY <1>4, <1>5, <1>6

\* A catalogue of the rule's own drops the decision inherited.
LEMMA OwnCatalogueDecides ==
  ASSUME NEW raw, NEW base, Has(raw, "providers"), IsList(raw["providers"])
  PROVE  DecisionConfig(raw, base, FALSE).decision \in {Null} \union ToSet(raw["providers"])
<1>1. PICK active : DecisionConfig(raw, base, FALSE).decision =
        IF Selected(raw["providers"], active) = Null THEN Null ELSE Selected(raw["providers"], active)
  BY DEF DecisionConfig
<1>. QED BY <1>1, ListIs, SelectedIsListed

\* The finisher of a scenario that loads.
LEMMA FinisherRejectsSoundly ==
  ASSUME NEW s, Loadable(s)
  PROVE  RejectsSoundly(Parsed(s).fin)
<1>1. Parsed(s).fin = IF s.fin[2] = Null THEN LBGlobal(s.fin[1]) ELSE LBOverride(s.fin[2], LBGlobal(s.fin[1]))
  BY DEF Parsed, RuleOf
<1>2. s.fin[2] = Null => LBGlobal(s.fin[1]) = LBConfig(s.fin[1])
  BY DEF Loadable, LBGlobal
<1>. QED BY <1>1, <1>2, OwnRejects, OverrideRejects

LEMMA RouteHasItsCandidates ==
  ASSUME NEW s, Loadable(s)
  PROVE  Parsed(s).lb.lbMode => Candidates(IF s.lb[2] = Null THEN s.lb[1] ELSE s.lb[2]) # <<>>
<1>1. Parsed(s).lb = IF s.lb[2] = Null THEN LBGlobal(s.lb[1]) ELSE LBOverride(s.lb[2], LBGlobal(s.lb[1]))
  BY DEF Parsed, RuleOf
<1>2. s.lb[2] = Null => LBGlobal(s.lb[1]) = LBConfig(s.lb[1])
  BY DEF Loadable, LBGlobal
<1>3. \A raw : LBConfig(raw).lbMode = (Candidates(raw) # <<>>)
  BY DEF LBConfig
<1>4. \A raw, global : LBOverride(raw, global).lbMode = LBConfig(raw).lbMode
  BY DEF LBOverride, LBConfig
<1>. QED BY <1>1, <1>2, <1>3, <1>4

RejectionSound == reply # Null => Rejection(reply.status, reply.body)
Sound == Loadable(scn) /\ Checked /\ RejectionSound

LEMMA SoundInit == Init => Sound
  BY CheckedInit DEF Init, Sound, RejectionSound

LEMMA SoundStep == Sound /\ [Next]_vars => Sound'
<1>. SUFFICES ASSUME Sound, [Next]_vars PROVE Sound'
  OBVIOUS
<1>1. Checked' /\ scn' = scn /\ conf.fin = Parsed(scn).fin
  <2>1. Checked' /\ conf.fin = Parsed(scn).fin
    BY CheckedStep DEF Sound, Checked
  <2>. QED BY <2>1, NothingReconfigured
<1>2. RejectsSoundly(conf.fin)
  BY <1>1, FinisherRejectsSoundly DEF Sound
<1>3. \/ reply' = reply
      \/ reply' = [status |-> 403, body |-> [message |-> "text", code |-> Null]]
      \/ reply' = [status |-> conf.fin.status, body |-> conf.fin.body]
      \/ reply' = [status |-> conf.fin.capStatus, body |-> conf.fin.capBody]
  <2>. USE DEF Answer, Settle
  <2>1. CASE Acl
    BY <2>1 DEF Acl
  <2>2. CASE FinisherRejects
    BY <2>2 DEF FinisherRejects
  <2>3. CASE Reserved \/ ReserveFailsOpen
    BY <2>3 DEF Reserved, ReserveFailsOpen
  <2>4. CASE Exhausted
    BY <2>4 DEF Exhausted
  <2>5. CASE \/ SetHeader \/ RouterHeaders \/ RouterBody \/ Publish \/ Legacy \/ LegacyBody
             \/ AffinityHeaders \/ AffinityBody \/ LeastLoad \/ Decision \/ FinisherSkips
             \/ FinisherBody \/ StreamDone \/ Redirect \/ UNCHANGED vars
    BY <2>5 DEF SetHeader, RouterHeaders, RouterBody, Publish, Legacy, LegacyBody,
         AffinityHeaders, AffinityBody, LeastLoad, Decision, FinisherSkips, FinisherBody,
         StreamDone, Redirect, vars
  <2>. QED BY <2>1, <2>2, <2>3, <2>4, <2>5 DEF Next
<1>4. Says("text")
  BY Zenon DEF Says
<1>5. RejectionSound'
  <2>. DEFINE refusal == [status |-> 403, body |-> [message |-> "text", code |-> Null]]
  <2>1. Rejection(refusal.status, refusal.body)
    BY <1>4 DEF Rejection
  <2>. HIDE DEF refusal
  <2>. QED BY <1>2, <1>3, <2>1 DEF RejectionSound, RejectsSoundly, Sound, refusal
<1>. QED BY <1>1, <1>5 DEF Sound

LEMMA SoundIsInheritanceSound == Sound => InheritanceSound
<1>. SUFFICES ASSUME Sound PROVE InheritanceSound
  OBVIOUS
<1>1. scn \in Scenario /\ Loadable(scn) /\ conf = Parsed(scn)
  BY DEF Sound, Checked
<1>2. reply # Null => /\ reply.status \in 400..599
                      /\ reply.body.code \in {Null, reply.status}
                      /\ reply.body.message # ""
  BY Zenon DEF Sound, RejectionSound, Rejection, Says
<1>3. conf.lb.lbMode => Candidates(IF scn.lb[2] = Null THEN scn.lb[1] ELSE scn.lb[2]) # <<>>
  BY <1>1, RouteHasItsCandidates
<1>4. ASSUME scn.dec[2] # Null, Has(scn.dec[2], "providers")
      PROVE  conf.dec.decision \in {Null} \union ToSet(scn.dec[2]["providers"])
  <2>1. IsList(scn.dec[2]["providers"])
    BY <1>1, <1>4, ScenarioAssumption
  <2>2. PICK global : conf.dec = DecisionConfig(scn.dec[2], global, FALSE)
    BY <1>1, <1>4 DEF Parsed
  <2>. QED BY <1>4, <2>1, <2>2, OwnCatalogueDecides
<1>. QED BY <1>2, <1>3, <1>4, Zenon DEF InheritanceSound

\* A rule inherits what describes the deployment and nothing else: a rejection
\* of a plugin always refuses and says in its body the status it is sent with,
\* whichever halves of the pair the rule sets; a route balances only by its own
\* candidates; and a rule with its own catalogue of decision services never
\* decides by an inherited one.
THEOREM RulesInheritSoundly == Spec => []InheritanceSound
<1>1. Spec => []Sound
  BY SoundInit, SoundStep, PTL DEF Spec
<1>. QED BY <1>1, SoundIsInheritanceSound, PTL

-----------------------------------------------------------------------------
(* The body and the headers on the way.                                      *)

LEMMA FunctionIsList ==
  ASSUME NEW n \in Nat, NEW f, f = [i \in 1..n |-> f[i]]
  PROVE  IsList(f) /\ DOMAIN f = 1..n /\ Len(f) = n
<1>1. f \in [1..n -> ToSet(f)]
  BY DEF ToSet
<1>. QED BY <1>1 DEF IsList

LEMMA ListIsFunction ==
  ASSUME NEW f, IsList(f)
  PROVE  Len(f) \in Nat /\ DOMAIN f = 1..Len(f) /\ f = [i \in 1..Len(f) |-> f[i]]
  BY DEF IsList

Part(p) == DOMAIN p = {"file", "name"} /\ p.file \in BOOLEAN

LEMMA BodyIs ==
  \A b : IsBody(b) <=> /\ DOMAIN b = {"kind", "intact", "parts", "turns"} /\ b.intact \in BOOLEAN
                       /\ IsList(b.parts) /\ \A i \in DOMAIN b.parts : Part(b.parts[i])
  BY DEF IsBody, Part

\* A body with other parts of the same shape.
LEMMA OtherParts ==
  ASSUME NEW b, IsBody(b), NEW n \in Nat, NEW ps, ps = [i \in 1..n |-> ps[i]],
         \A i \in 1..n : Part(ps[i])
  PROVE  /\ IsBody([b EXCEPT !.parts = ps]) /\ [b EXCEPT !.parts = ps].parts = ps
         /\ [b EXCEPT !.parts = ps].kind = b.kind /\ [b EXCEPT !.parts = ps].intact = b.intact
<1>1. IsList(ps) /\ DOMAIN ps = 1..n
  BY FunctionIsList
<1>2. DOMAIN b = {"kind", "intact", "parts", "turns"} /\ b.intact \in BOOLEAN
  BY DEF IsBody
<1>. DEFINE c == [b EXCEPT !.parts = ps]
<1>3. /\ DOMAIN c = {"kind", "intact", "parts", "turns"} /\ c.parts = ps
      /\ c.kind = b.kind /\ c.intact = b.intact
  BY <1>2
<1>. HIDE DEF c
<1>4. IsBody(c)
  BY <1>1, <1>2, <1>3, BodyIs
<1>. QED BY <1>3, <1>4 DEF c

LEMMA FirstFieldIs ==
  ASSUME NEW b, IsBody(b), Fields(b) # {}
  PROVE  FirstField(b) \in Fields(b) /\ FirstField(b) \in 1..Len(b.parts)
<1>1. Fields(b) \in SUBSET (1..Len(b.parts)) /\ Len(b.parts) \in Nat
  BY ListIsFunction DEF IsBody, Fields
<1>2. \E i \in Fields(b) : \A j \in Fields(b) : i <= j
  BY <1>1, LeastNatural
<1>3. FirstField(b) \in Fields(b)
  BY <1>2, Zenon DEF FirstField
<1>. QED BY <1>1, <1>3

\* After a rewrite the body asks for the name, and keeps its shape.
LEMMA AsksFor ==
  ASSUME NEW b, IsBody(b), NEW name
  PROVE  LET c == WithModel(b, name)
         IN  /\ IsBody(c) /\ c.kind = b.kind /\ c.intact = b.intact
             /\ Fields(c) # {} /\ ModelIn(c) = name
<1>. DEFINE c == WithModel(b, name)
            n == Len(b.parts)
<1>1. n \in Nat /\ DOMAIN b.parts = 1..n /\ b.parts = [i \in 1..n |-> b.parts[i]]
  BY ListIsFunction DEF IsBody
<1>2. \A i \in 1..n : Part(b.parts[i])
  BY <1>1, BodyIs
<1>3. CASE Fields(b) = {}
  <2>. DEFINE one == [file |-> FALSE, name |-> name]
              ps == <<one>>
  <2>1. c = [b EXCEPT !.parts = ps]
    BY <1>3 DEF WithModel
  <2>2. one.file = FALSE /\ one.name = name /\ Part(one)
    BY DEF Part
  <2>. HIDE DEF one
  <2>3. ps = [i \in 1..1 |-> ps[i]] /\ ps[1] = one
    OBVIOUS
  <2>. HIDE DEF ps, c
  <2>4. IsBody(c) /\ c.parts = ps /\ c.kind = b.kind /\ c.intact = b.intact
    <3>1. PICK m \in Nat : m = 1
      OBVIOUS
    <3>2. ps = [i \in 1..m |-> ps[i]] /\ \A i \in 1..m : Part(ps[i])
      BY <2>2, <2>3, <3>1
    <3>. QED BY <2>1, <3>2, OtherParts
  <2>5. DOMAIN ps = 1..1
    BY <2>3
  <2>6. Fields(c) = {1}
    BY <2>2, <2>3, <2>4, <2>5 DEF Fields
  <2>7. FirstField(c) = 1
    BY <2>4, <2>6, FirstFieldIs
  <2>. QED BY <2>2, <2>3, <2>4, <2>6, <2>7 DEF ModelIn, c
<1>4. CASE Fields(b) # {}
  <2>. DEFINE k == FirstField(b)
              ps == [i \in 1..n |-> IF i = k THEN [b.parts[k] EXCEPT !.name = name] ELSE b.parts[i]]
  <2>1. k \in Fields(b) /\ k \in 1..n
    BY <1>4, FirstFieldIs
  <2>. HIDE DEF k
  <2>2. c = [b EXCEPT !.parts = ps]
    <3>1. c = [b EXCEPT !.parts[k].name = name]
      BY <1>4, Zenon DEF WithModel, k
    <3>2. [b EXCEPT !.parts[k].name = name] =
            [b EXCEPT !.parts = [b.parts EXCEPT ![k] = [b.parts[k] EXCEPT !.name = name]]]
      OBVIOUS
    <3>3. [b.parts EXCEPT ![k] = [b.parts[k] EXCEPT !.name = name]] = ps
      BY <1>1, <2>1
    <3>. HIDE DEF c, ps
    <3>. QED BY <3>1, <3>2, <3>3
  <2>3. /\ ps[k].name = name /\ ps[k].file = b.parts[k].file /\ Part(ps[k])
        /\ \A i \in 1..n : i # k => ps[i] = b.parts[i]
    <3>1. Part(b.parts[k])
      BY <1>2, <2>1
    <3>. QED BY <2>1, <3>1 DEF Part
  <2>4. DOMAIN ps = 1..n /\ ps = [i \in 1..n |-> ps[i]]
    OBVIOUS
  <2>. HIDE DEF ps, c, n
  <2>5. \A i \in 1..n : Part(ps[i])
    BY <1>2, <2>3
  <2>6. IsBody(c) /\ c.parts = ps /\ c.kind = b.kind /\ c.intact = b.intact
    BY <1>1, <2>2, <2>4, <2>5, OtherParts
  <2>7. Fields(c) = Fields(b)
    <3>1. \A i \in 1..n : ps[i].file = b.parts[i].file
      BY <2>3
    <3>. QED BY <1>1, <2>4, <2>6, <3>1 DEF Fields
  <2>8. FirstField(c) = k
    BY <2>7 DEF FirstField, k
  <2>. QED BY <1>4, <2>3, <2>6, <2>7, <2>8 DEF ModelIn, c
<1>. QED BY <1>3, <1>4

Asks(c, b, wanted) ==
  IF c.intact /\ (c.kind = "json" \/ Fields(c) # {}) THEN ModelIn(c) = wanted ELSE c = b

\* A planned rewrite asks for the name wanted, or leaves the body alone.
LEMMA PlanAsks ==
  ASSUME NEW b, IsBody(b), NEW wanted, wanted # <<>>
  PROVE  LET c == PlanRewrite(b, wanted).body
         IN  IsBody(c) /\ c.kind = b.kind /\ c.intact = b.intact /\ Asks(c, b, wanted)
<1>. DEFINE c == PlanRewrite(b, wanted).body
            inserts == b.kind = "json" \/ Fields(b) # {}
<1>1. c = IF b.intact /\ inserts THEN WithModel(b, wanted) ELSE b
  BY DEF PlanRewrite
<1>. HIDE DEF c
<1>2. ASSUME b.intact /\ inserts
      PROVE  IsBody(c) /\ c.kind = b.kind /\ c.intact = b.intact /\ Asks(c, b, wanted)
  <2>1. c = WithModel(b, wanted)
    BY <1>1, <1>2
  <2>2. IsBody(c) /\ c.kind = b.kind /\ c.intact = b.intact /\ ModelIn(c) = wanted /\ Fields(c) # {}
    BY <2>1, AsksFor
  <2>3. Asks(c, b, wanted)
    BY <1>2, <2>2, Zenon DEF Asks
  <2>. QED BY <2>2, <2>3
<1>3. ASSUME ~(b.intact /\ inserts)
      PROVE  IsBody(c) /\ c.kind = b.kind /\ c.intact = b.intact /\ Asks(c, b, wanted)
  <2>1. c = b
    BY <1>1, <1>3
  <2>2. Asks(b, b, wanted)
    BY <1>3, Zenon DEF Asks
  <2>. QED BY <2>1, <2>2
<1>. QED BY <1>2, <1>3 DEF c

\* What the router does to the headers leaves the two that the finisher reads.
Marked(h) == {"fallback", "target"} \subseteq DOMAIN h
Kept(h, g) == DOMAIN g = DOMAIN h /\ g.fallback = h.fallback /\ g.target = h.target

LEMMA RoutingKeeps ==
  ASSUME NEW router, NEW h, NEW name, Marked(h)
  PROVE  Kept(h, WriteRoutingHeaders(router, h, name))
  BY DEF WriteRoutingHeaders, Kept, Marked

\* The walk over the model fields of a multipart body.
Projects(f, router, h, b, n) ==
  f = [m \in 0..n |->
         IF m = 0 THEN h
         ELSE IF ~b.parts[m].file THEN WriteRoutingHeaders(router, f[m - 1], b.parts[m].name)
         ELSE f[m - 1]]

LEMMA ProjectsExists ==
  ASSUME NEW router, NEW h, NEW b, NEW N \in Nat
  PROVE  \E f : Projects(f, router, h, b, N)
<1>. DEFINE Bd == {n \in 0..N : ~ \E f : Projects(f, router, h, b, n)}
<1>. SUFFICES ASSUME Bd # {} PROVE FALSE
  OBVIOUS
<1>1. PICK n \in Bd : \A m \in Bd : n <= m
  <2>1. Bd \in SUBSET Nat
    OBVIOUS
  <2>. HIDE DEF Bd
  <2>. QED BY <2>1, LeastNatural
<1>2. n # 0
  <2>1. Projects([m \in 0..0 |-> h], router, h, b, 0)
    BY DEF Projects
  <2>. QED BY <2>1
<1>3. n \in 1..N /\ n - 1 \in 0..N
  BY <1>2
<1>4. PICK f : Projects(f, router, h, b, n - 1)
  <2>1. n - 1 \notin Bd
    <3>. HIDE DEF Bd
    <3>. QED BY <1>1, <1>3
  <2>. QED BY <1>3, <2>1
<1>. DEFINE Step(k, m) == IF m = 0 THEN h
                          ELSE IF ~b.parts[m].file
                          THEN WriteRoutingHeaders(router, k[m - 1], b.parts[m].name)
                          ELSE k[m - 1]
            g == [m \in 0..n |-> IF m < n THEN f[m] ELSE Step(f, n)]
<1>5. ASSUME NEW m \in 0..n PROVE g[m] = Step(g, m)
  <2>1. m # 0 => g[m - 1] = f[m - 1]
    BY <1>3
  <2>2. m < n => f[m] = Step(f, m)
    <3>1. m < n => m \in 0..(n - 1)
      BY <1>3
    <3>. QED BY <1>4, <3>1, Zenon DEF Projects
  <2>3. Step(g, m) = Step(f, m)
    <3>. HIDE DEF g
    <3>. QED BY <2>1
  <2>4. g[m] = Step(f, m)
    <3>. HIDE DEF Step
    <3>. QED BY <1>3, <2>2
  <2>. QED BY <2>3, <2>4
<1>6. g = [m \in 0..n |-> Step(g, m)]
  <2>. HIDE DEF Step
  <2>1. g = [m \in 0..n |-> g[m]]
    OBVIOUS
  <2>. HIDE DEF g
  <2>. QED BY <1>5, <2>1
<1>7. Projects(g, router, h, b, n)
  <2>. HIDE DEF g
  <2>. QED BY <1>6, Zenon DEF Projects
<1>. QED BY <1>1, <1>7

LEMMA WalkKeeps ==
  ASSUME NEW router, NEW h, Marked(h), NEW b, NEW N \in Nat, NEW f, Projects(f, router, h, b, N)
  PROVE  Kept(h, f[N])
<1>. DEFINE Bd == {n \in 0..N : ~Kept(h, f[n])}
<1>. SUFFICES ASSUME Bd # {} PROVE FALSE
  OBVIOUS
<1>1. PICK n \in Bd : \A m \in Bd : n <= m
  <2>1. Bd \in SUBSET Nat
    OBVIOUS
  <2>. HIDE DEF Bd
  <2>. QED BY <2>1, LeastNatural
<1>2. f[n] = IF n = 0 THEN h
             ELSE IF ~b.parts[n].file THEN WriteRoutingHeaders(router, f[n - 1], b.parts[n].name)
             ELSE f[n - 1]
  BY <1>1, Zenon DEF Projects
<1>3. n # 0
  <2>1. Kept(h, h)
    BY DEF Kept
  <2>. QED BY <1>1, <1>2, <2>1
<1>4. n - 1 \in 0..N /\ n - 1 \notin Bd
  <2>1. n - 1 \in 0..N /\ ~(n <= n - 1)
    BY <1>3
  <2>. HIDE DEF Bd
  <2>. QED BY <1>1, <2>1
<1>5. Kept(h, f[n - 1])
  BY <1>4
<1>6. Kept(f[n - 1], f[n])
  <2>1. Marked(f[n - 1])
    BY <1>5 DEF Kept, Marked
  <2>2. f[n] = WriteRoutingHeaders(router, f[n - 1], b.parts[n].name) \/ f[n] = f[n - 1]
    BY <1>2, <1>3
  <2>3. Kept(f[n - 1], f[n - 1])
    BY DEF Kept
  <2>. QED BY <2>1, <2>2, <2>3, RoutingKeeps
<1>7. Kept(h, f[n])
  BY <1>5, <1>6 DEF Kept
<1>. QED BY <1>1, <1>7

LEMMA MultipartKeeps ==
  ASSUME NEW router, NEW h, Marked(h), NEW b, IsBody(b)
  PROVE  Kept(h, RouteMultipart(router, h, b).hdr) /\ IsBody(RouteMultipart(router, h, b).body)
<1>. DEFINE n == Len(b.parts)
            Fd(i) == ~b.parts[i].file
            Rw(i) == IF Fd(i) /\ BodyModel(router, b.parts[i].name) # <<>>
                     THEN BodyModel(router, b.parts[i].name) ELSE b.parts[i].name
            ps == [i \in DOMAIN b.parts |-> [b.parts[i] EXCEPT !.name = Rw(i)]]
<1>1. n \in Nat /\ DOMAIN b.parts = 1..n
  BY ListIsFunction DEF IsBody
<1>2. Kept(h, RouteMultipart(router, h, b).hdr)
  <2>1. RouteMultipart(router, h, b).hdr = (CHOOSE f : Projects(f, router, h, b, n))[n]
    BY Zenon DEF RouteMultipart, Projects
  <2>2. PICK f : f = CHOOSE k : Projects(k, router, h, b, n)
    OBVIOUS
  <2>3. Projects(f, router, h, b, n)
    BY <1>1, <2>2, ProjectsExists
  <2>4. RouteMultipart(router, h, b).hdr = f[n]
    BY <2>1, <2>2
  <2>. QED BY <1>1, <2>3, <2>4, WalkKeeps
<1>3. IsBody(RouteMultipart(router, h, b).body)
  <2>1. RouteMultipart(router, h, b).body = IF b.intact THEN [b EXCEPT !.parts = ps] ELSE b
    BY Zenon DEF RouteMultipart
  <2>2. ps = [i \in 1..n |-> ps[i]]
    BY <1>1
  <2>3. ASSUME NEW i \in 1..n PROVE Part(ps[i])
    <3>1. Part(b.parts[i])
      BY <1>1, BodyIs
    <3>2. ps[i] = [b.parts[i] EXCEPT !.name = Rw(i)]
      BY <1>1
    <3>. HIDE DEF Rw, ps
    <3>. QED BY <3>1, <3>2 DEF Part
  <2>. HIDE DEF ps, n
  <2>4. IsBody([b EXCEPT !.parts = ps])
    BY <1>1, <2>2, <2>3, OtherParts
  <2>. QED BY <2>1, <2>4
<1>. QED BY <1>2, <1>3

\* The router keeps the body's shape, and the two headers.
LEMMA RouterKeeps ==
  ASSUME NEW router, NEW h, Marked(h), NEW b, IsBody(b)
  PROVE  Kept(h, RouteBody(router, h, b).hdr) /\ IsBody(RouteBody(router, h, b).body)
<1>1. CASE b.kind = "multipart"
  BY <1>1, MultipartKeeps DEF RouteBody
<1>2. CASE b.kind # "multipart"
  <2>. DEFINE name == RoutedModel(router, b)
  <2>1. RouteBody(router, h, b) =
          IF name = <<>> THEN [hdr |-> h, body |-> b]
          ELSE [hdr |-> WriteRoutingHeaders(router, h, name),
                body |-> WithModel(b, BodyModel(router, name))]
    BY <1>2, Zenon DEF RouteBody, RouteJSON
  <2>. HIDE DEF name
  <2>2. Kept(h, h)
    BY DEF Kept
  <2>. QED BY <2>1, <2>2, RoutingKeeps, AsksFor
<1>. QED BY <1>1, <1>2

LEMMA PlanKeeps ==
  ASSUME NEW b, IsBody(b), NEW wanted
  PROVE  IsBody(PlanRewrite(b, wanted).body)
<1>1. \/ PlanRewrite(b, wanted).body = b
      \/ \E name : PlanRewrite(b, wanted).body = WithModel(b, name)
  BY Zenon DEF PlanRewrite
<1>. QED BY <1>1, AsksFor

-----------------------------------------------------------------------------
(* Where a request goes.  A request that is redirected carries the fallback  *)
(* header, and until its first pass settles it holds nothing.                *)

Formed ==
  /\ passes \in Nat \ {0} /\ Marked(hdr) /\ (hdr.fallback <=> passes > 1)
  /\ IsBody(body) /\ DOMAIN tokens = {"held", "done"}

LEMMA FormedInit == Init => Formed
<1>. SUFFICES ASSUME Init PROVE Formed
  OBVIOUS
<1>1. IsBody(body)
  BY ScenarioAssumption DEF Init
<1>2. passes = 1 /\ DOMAIN tokens = {"held", "done"}
  BY DEF Init
<1>3. Marked(hdr) /\ hdr.fallback = FALSE
  BY DEF Init, Marked
<1>4. passes \in Nat \ {0} /\ ~(passes > 1)
  BY <1>2
<1>5. (hdr.fallback <=> passes > 1)
  BY <1>3, <1>4
<1>. QED BY <1>1, <1>2, <1>3, <1>4, <1>5 DEF Formed

LEMMA FormedStep ==
  ASSUME Formed, [Next]_vars
  PROVE  /\ Formed'
         /\ passes' = passes \/ (Redirect /\ passes' = passes + 1)
<1>. USE DEF Formed, Marked
<1>1. CASE SetHeader
  BY <1>1 DEF SetHeader
<1>2. CASE RouterHeaders
  <2>1. hdr' = hdr \/ \E name : hdr' = WriteRoutingHeaders(conf.router, hdr, name)
    BY <1>2 DEF RouterHeaders
  <2>2. hdr' = hdr \/ Kept(hdr, hdr')
    BY <2>1, RoutingKeeps
  <2>. QED BY <1>2, <2>2 DEF RouterHeaders, Kept
<1>3. CASE RouterBody
  <2>1. Kept(hdr, hdr') /\ IsBody(body')
    BY <1>3, RouterKeeps DEF RouterBody
  <2>. QED BY <1>3, <2>1 DEF RouterBody, Kept
<1>4. CASE Acl
  BY <1>4 DEF Acl
<1>5. CASE Publish
  BY <1>5 DEF Publish
<1>6. CASE Legacy
  BY <1>6 DEF Legacy
<1>7. CASE LegacyBody
  <2>1. PICK plan : /\ plan = PlanRewrite(body, ResolveModel(ModelIn(body)))
                    /\ body' = plan.body
                    /\ hdr' = IF plan.set THEN [hdr EXCEPT !.final = plan.header] ELSE hdr
    BY <1>7 DEF LegacyBody, Rewritten
  <2>2. IsBody(body')
    BY <2>1, PlanKeeps
  <2>. QED BY <1>7, <2>1, <2>2 DEF LegacyBody
<1>8. CASE AffinityHeaders \/ AffinityBody \/ LeastLoad \/ Decision
  BY <1>8 DEF AffinityHeaders, AffinityBody, LeastLoad, Decision
<1>9. CASE FinisherSkips
  BY <1>9 DEF FinisherSkips, NoTarget
<1>10. CASE FinisherRejects
  BY <1>10 DEF FinisherRejects, NoTarget
<1>11. CASE Reserved
  <2>1. PICK i, token : Settle(i, token)
    BY <1>11 DEF Reserved
  <2>. QED BY <1>11, <2>1 DEF Reserved, Settle
<1>12. CASE ReserveFailsOpen
  <2>1. PICK i, token : Settle(i, token)
    BY <1>12 DEF ReserveFailsOpen
  <2>. QED BY <1>12, <2>1 DEF ReserveFailsOpen, Settle
<1>13. CASE Exhausted
  BY <1>13 DEF Exhausted, NoTarget
<1>14. CASE FinisherBody
  <2>1. PICK plan : /\ plan = PlanRewrite(body, chosen.cand.model)
                    /\ body' = plan.body
                    /\ hdr' = IF plan.set THEN [hdr EXCEPT !.final = plan.header] ELSE hdr
    BY <1>14 DEF FinisherBody, Rewritten
  <2>2. IsBody(body')
    BY <2>1, PlanKeeps
  <2>. QED BY <1>14, <2>1, <2>2 DEF FinisherBody
<1>15. CASE StreamDone
  BY <1>15 DEF StreamDone
<1>16. CASE Redirect
  <2>1. passes' = passes + 1 /\ hdr' = [hdr EXCEPT !.fallback = TRUE] /\ UNCHANGED <<body, tokens>>
    BY <1>16 DEF Redirect
  <2>2. Marked(hdr') /\ hdr'.fallback = TRUE
    BY <2>1
  <2>3. passes' \in Nat \ {0} /\ passes' > 1
    BY <2>1
  <2>. QED BY <1>16, <2>1, <2>2, <2>3
<1>17. CASE UNCHANGED vars
  BY <1>17 DEF vars
<1>. QED BY <1>1, <1>2, <1>3, <1>4, <1>5, <1>6, <1>7, <1>8, <1>9, <1>10, <1>11, <1>12,
            <1>13, <1>14, <1>15, <1>16, <1>17 DEF Next

\* A value that stands for a missing one is no record and no list.
NullIsNoFunction == Null # [x \in DOMAIN Null |-> Null[x]]

LEMMA PublishedIsThere ==
  ASSUME NullIsNoFunction, NEW lb, NEW now, NEW name, NEW inflight, NEW health
  PROVE  BuildCandidateSet(lb, now, name, inflight, health) # Null
<1>. DEFINE s == BuildCandidateSet(lb, now, name, inflight, health)
<1>1. s = [i \in DOMAIN s |-> s[i]]
  BY ZenonT(30) DEF BuildCandidateSet
<1>. HIDE DEF s
<1>. QED BY <1>1 DEF NullIsNoFunction, s

Wanted(c) == c.cand.model # <<>> /\ Rewritable(conf.fin.suffixes)
Held(c) == IF c.token = Null THEN {} ELSE {<<<<c.cand.cluster, c.cand.target>>, 1>>}
Unserved == {"setHeader", "router", "routerBody", "acl", "context"}
Published == {"affinity", "affinityBody", "load", "decision", "finisher"}

\* The first pass of a request on a route with candidates.
FirstPass ==
  /\ at \in Unserved \union Published \union {"answered", "ended", "finisherBody", "upstream", "closed"}
  /\ at \in Unserved \union Published => tokens.held = {} /\ reroute
  /\ at \in Published => set # Null
  /\ at \in {"finisherBody", "upstream", "closed"} =>
       chosen # Null /\ reroute /\ hdr.target = chosen.cand.cluster /\ tokens.held = Held(chosen)
  /\ at = "finisherBody" => Wanted(chosen) /\ body = chosen.body
  /\ AtUpstream => IF Wanted(chosen) THEN Asks(body, chosen.body, chosen.cand.model)
                   ELSE body = chosen.body

\* A pass after a redirect.
LaterPass == at # "finisherBody" /\ (AtUpstream => hdr.target = Null)

Routed ==
  /\ Formed
  /\ conf.lb.lbMode => IF passes = 1 THEN FirstPass ELSE LaterPass

LEMMA RoutedInit == Init => Routed
<1>. SUFFICES ASSUME Init PROVE Routed
  OBVIOUS
<1>1. at = "setHeader" /\ tokens.held = {} /\ reroute = TRUE /\ passes = 1
  BY DEF Init
<1>. QED BY <1>1, FormedInit DEF Routed, FirstPass, Unserved, Published, AtUpstream

\* The finisher settles a candidate.
LEMMA SettledFirst ==
  ASSUME Routed, NullIsNoFunction, conf.lb.lbMode, passes = 1, at = "finisher",
         NEW i, NEW token, Settle(i, token),
         UNCHANGED <<scn, conf, body, set, ranks, passes>>, token = 1 \/ token = Null
  PROVE  FirstPass'
<1>. DEFINE c == [cand |-> set[i], key |-> Key(set[i]), token |-> token, body |-> body]
            wants == set[i].model # <<>> /\ Rewritable(conf.fin.suffixes)
<1>1. /\ chosen' = c /\ reroute' = reroute /\ hdr' = [hdr EXCEPT !.target = set[i].cluster]
      /\ tokens' = IF token = Null THEN tokens
                   ELSE [tokens EXCEPT !.held = @ \union {<<Key(set[i]), token>>}]
      /\ at' = IF wants THEN "finisherBody" ELSE "upstream"
  BY DEF Settle, Go
<1>2. c.cand = set[i] /\ c.token = token /\ c.body = body /\ c # Null
  <2>1. c = [x \in DOMAIN c |-> c[x]]
    OBVIOUS
  <2>. QED BY <2>1 DEF NullIsNoFunction
<1>. HIDE DEF c
<1>3. tokens.held = {} /\ reroute /\ DOMAIN tokens = {"held", "done"} /\ Marked(hdr)
  BY DEF Routed, FirstPass, Formed, Published
<1>4. hdr'.target = set[i].cluster
  BY <1>1, <1>3 DEF Marked
<1>5. tokens'.held = IF token = Null THEN {} ELSE {<<<<set[i].cluster, set[i].target>>, 1>>}
  BY <1>1, <1>3 DEF Key
<1>6. (Wanted(chosen))' = wants
  BY <1>1, <1>2 DEF Wanted, Rewritable, OnPath, req
<1>7. (Held(chosen))' = tokens'.held
  BY <1>1, <1>2, <1>5 DEF Held
<1>. HIDE DEF wants
<1>8. /\ at' \in {"finisherBody", "upstream"} /\ reroute' /\ chosen' # Null
      /\ hdr'.target = chosen'.cand.cluster /\ body' = chosen'.body
      /\ at' = "finisherBody" => wants
      /\ at' = "upstream" => ~wants
  BY <1>1, <1>2, <1>3, <1>4
<1>. QED BY <1>6, <1>7, <1>8 DEF FirstPass, AtUpstream, Unserved, Published

LEMMA RoutedStep ==
  ASSUME NullIsNoFunction, Routed, [Next]_vars
  PROVE  Routed'
<1>1. Formed' /\ conf' = conf /\ scn' = scn
  BY FormedStep, NothingReconfigured DEF Routed
<1>. SUFFICES ASSUME conf.lb.lbMode PROVE IF passes' = 1 THEN FirstPass' ELSE LaterPass'
  BY <1>1 DEF Routed
<1>2. /\ passes \in Nat \ {0} /\ (hdr.fallback <=> passes > 1) /\ Marked(hdr) /\ DOMAIN tokens = {"held", "done"}
      /\ passes = 1 => FirstPass
      /\ passes # 1 => LaterPass
  BY DEF Routed, Formed
\* Before the set is published.
<1>3. CASE SetHeader \/ RouterHeaders \/ RouterBody \/ Acl \/ Publish
  <2>1. passes' = passes /\ tokens' = tokens /\ at \in Unserved
    BY <1>3 DEF SetHeader, RouterHeaders, RouterBody, Acl, Publish, Unserved
  <2>2. \/ at' \in (Unserved \ {"setHeader"}) /\ reroute' = reroute
        \/ at' = "answered"
        \/ Publish /\ at' = "affinity" /\ reroute' = reroute
    BY <1>3 DEF SetHeader, RouterHeaders, RouterBody, Acl, Publish, Unserved, Go, Answer
  <2>3. Publish /\ passes = 1 => set' # Null
    BY <1>2, PublishedIsThere DEF Publish
  <2>. QED BY <1>2, <2>1, <2>2, <2>3 DEF FirstPass, LaterPass, AtUpstream, Unserved, Published
<1>4. CASE Legacy
  BY <1>4 DEF Legacy
<1>5. CASE LegacyBody
  BY <1>2, <1>5 DEF LegacyBody, Go, FirstPass, LaterPass, AtUpstream, Unserved, Published
\* While the candidates are ranked.
<1>6. CASE AffinityHeaders \/ AffinityBody \/ LeastLoad \/ Decision
  <2>1. /\ UNCHANGED <<passes, tokens, set, reroute>>
        /\ at \in Published /\ at' \in Published
    BY <1>6 DEF AffinityHeaders, AffinityBody, LeastLoad, Decision, Go, Published
  <2>. QED BY <1>2, <2>1 DEF FirstPass, LaterPass, AtUpstream, Unserved, Published
<1>7. CASE FinisherSkips
  <2>1. passes # 1
    BY <1>2, <1>7 DEF FinisherSkips, FirstPass, Published
  <2>2. hdr' = NoTarget /\ at' = "upstream" /\ passes' = passes
    BY <1>2, <1>7, <2>1 DEF FinisherSkips, Go
  <2>3. hdr'.target = Null
    BY <1>2, <2>2 DEF NoTarget, Marked
  <2>. QED BY <2>1, <2>2, <2>3 DEF LaterPass
<1>8. CASE FinisherRejects \/ Exhausted
  <2>1. at' = "answered" /\ passes' = passes
    BY <1>8 DEF FinisherRejects, Exhausted, Answer, Go
  <2>. QED BY <2>1 DEF FirstPass, LaterPass, AtUpstream, Unserved, Published
<1>9. CASE Reserved
  <2>1. /\ at = "finisher" /\ ~hdr.fallback /\ UNCHANGED <<scn, conf, body, set, ranks, passes>>
    BY <1>9 DEF Reserved, Deciding
  <2>2. passes = 1
    BY <1>2, <2>1
  <2>3. PICK i : Settle(i, passes)
    BY <1>9 DEF Reserved
  <2>. QED BY <2>1, <2>2, <2>3, SettledFirst
<1>10. CASE ReserveFailsOpen
  <2>1. /\ at = "finisher" /\ ~hdr.fallback /\ UNCHANGED <<scn, conf, body, set, ranks, passes>>
    BY <1>10 DEF ReserveFailsOpen, Deciding
  <2>2. passes = 1
    BY <1>2, <2>1
  <2>3. PICK i : Settle(i, Null)
    BY <1>10 DEF ReserveFailsOpen
  <2>. QED BY <2>1, <2>2, <2>3, SettledFirst
<1>11. CASE FinisherBody
  <2>. DEFINE c == PlanRewrite(body, chosen.cand.model).body
  <2>1. /\ at = "finisherBody" /\ at' = "upstream" /\ UNCHANGED <<scn, conf, chosen, reroute, passes, tokens>>
        /\ body' = c /\ (hdr' = hdr \/ \E f : hdr' = [hdr EXCEPT !.final = f])
    BY <1>11 DEF FinisherBody, Rewritten, Go
  <2>2. passes = 1 /\ FirstPass
    BY <1>2, <2>1 DEF LaterPass
  <2>3. Wanted(chosen) /\ body = chosen.body /\ IsBody(body)
    BY <2>1, <2>2 DEF FirstPass, Routed, Formed
  <2>4. body'.kind = body.kind /\ Asks(body', body, chosen.cand.model)
    <3>1. chosen.cand.model # <<>>
      BY <2>3 DEF Wanted
    <3>. HIDE DEF c
    <3>2. c.kind = body.kind /\ Asks(c, body, chosen.cand.model)
      BY <2>3, <3>1, PlanAsks DEF c
    <3>. QED BY <2>1, <3>2
  <2>5. (Wanted(chosen))'
    BY <2>1, <2>3, <2>4 DEF Wanted, Rewritable, OnPath, req
  <2>6. (Asks(body, chosen.body, chosen.cand.model))'
    BY <2>1, <2>3, <2>4 DEF Asks, ModelIn, Fields, FirstField
  <2>7. hdr'.target = hdr.target
    BY <1>2, <2>1 DEF Marked
  <2>8. (Held(chosen))' = Held(chosen)
    BY <2>1 DEF Held
  <2>. HIDE DEF c
  <2>. QED BY <2>1, <2>2, <2>5, <2>6, <2>7, <2>8 DEF FirstPass, AtUpstream, Unserved, Published
<1>12. CASE StreamDone
  <2>1. /\ UNCHANGED <<scn, conf, hdr, body, chosen, reroute, passes>>
        /\ at \in {"upstream", "answered"} /\ at' = IF at = "upstream" THEN "closed" ELSE "ended"
        /\ tokens'.held = tokens.held
    <3>1. tokens' = tokens \/ \E d : tokens' = [tokens EXCEPT !.done = d]
      BY <1>12 DEF StreamDone
    <3>2. tokens'.held = tokens.held
      BY <1>2, <3>1
    <3>3. UNCHANGED <<scn, conf, hdr, body, chosen, reroute, passes>>
      BY <1>12, Zenon DEF StreamDone
    <3>4. at \in {"upstream", "answered"} /\ at' = IF at = "upstream" THEN "closed" ELSE "ended"
      BY <1>12, Zenon DEF StreamDone, Go
    <3>. QED BY <3>2, <3>3, <3>4
  <2>2. (Wanted(chosen))' = Wanted(chosen) /\ (Held(chosen))' = Held(chosen)
        /\ (Asks(body, chosen.body, chosen.cand.model))' = Asks(body, chosen.body, chosen.cand.model)
    BY <2>1 DEF Wanted, Rewritable, OnPath, req, Held, Asks, ModelIn, Fields, FirstField
  <2>. QED BY <1>2, <2>1, <2>2 DEF FirstPass, LaterPass, AtUpstream, Unserved, Published
<1>13. CASE Redirect
  <2>1. passes' # 1 /\ at' = "setHeader"
    BY <1>2, <1>13 DEF Redirect, Go
  <2>. QED BY <2>1 DEF LaterPass, AtUpstream
<1>14. CASE UNCHANGED vars
  <2>1. (Wanted(chosen))' = Wanted(chosen) /\ (Held(chosen))' = Held(chosen)
        /\ (Asks(body, chosen.body, chosen.cand.model))' = Asks(body, chosen.body, chosen.cand.model)
    BY <1>14 DEF vars, Wanted, Rewritable, OnPath, req, Held, Asks, ModelIn, Fields, FirstField
  <2>. QED BY <1>2, <1>14, <2>1 DEF vars, FirstPass, LaterPass, AtUpstream, Unserved, Published
<1>. QED BY <1>3, <1>4, <1>5, <1>6, <1>7, <1>8, <1>9, <1>10, <1>11, <1>12, <1>13, <1>14 DEF Next

LEMMA RoutedIsRoutedAsDecided ==
  ASSUME Routed
  PROVE  RoutedAsDecided
<1>. SUFFICES ASSUME AtUpstream, conf.lb.lbMode PROVE RoutedAsDecided
  BY DEF RoutedAsDecided
<1>1. CASE passes > 1
  BY <1>1 DEF Routed, LaterPass, RoutedAsDecided
<1>2. CASE ~(passes > 1)
  <2>1. passes = 1 /\ FirstPass
    BY <1>2 DEF Routed, Formed
  <2>2. /\ chosen # Null /\ reroute /\ hdr.target = chosen.cand.cluster
        /\ tokens.held = Held(chosen)
        /\ IF Wanted(chosen) THEN Asks(body, chosen.body, chosen.cand.model) ELSE body = chosen.body
    BY <2>1 DEF FirstPass, AtUpstream
  <2>3. {e \in tokens.held : e[2] = passes} =
          IF chosen.token = Null THEN {} ELSE {<<<<chosen.cand.cluster, chosen.cand.target>>, passes>>}
    BY <2>1, <2>2 DEF Held
  <2>. QED BY <1>2, <2>1, <2>2, <2>3, Zenon DEF RoutedAsDecided, Wanted, Asks
<1>. QED BY <1>1, <1>2

\* What leaves the gateway is what the finisher decided: on a route with
\* candidates the target header names the cluster of the candidate reserved,
\* the route is still evaluated again, the body asks for that candidate's model
\* wherever it can be rewritten and is otherwise untouched, and the entry the
\* request holds is that candidate's own; a redirected request is not pinned.
THEOREM DecisionIsCarriedOut == ASSUME NullIsNoFunction PROVE Spec => []RoutedAsDecided
<1>1. Spec => []Routed
  BY RoutedInit, RoutedStep, PTL DEF Spec
<1>. QED BY <1>1, RoutedIsRoutedAsDecided, PTL
=============================================================================
