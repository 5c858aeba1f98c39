--------------------------- MODULE LBShared_proofs ---------------------------
(***************************************************************************)
(* The shared-data store of gpustack-lb: LBSharedInflight, for any number  *)
(* of workers, keys and retries, and LBSharedHealth, for any number of     *)
(* workers, clusters and retries, and any threshold.                       *)
(*                                                                         *)
(* The provers have no induction principle for data: what a recursive      *)
(* function computes is proved with the least number for which it would    *)
(* fail, which the library's well-founded orderings provide.               *)
(***************************************************************************)
EXTENDS LBSharedInflight, LBSharedHealth, FiniteSetTheorems, SequenceTheorems, WellFoundedInduction, TLAPS

LEMMA ConstantTypes ==
  /\ IsFiniteSet(Req) /\ IsFiniteSet(Key) /\ Key # {} /\ NoKey \notin Key
  /\ MaxRun \in [Key -> Nat] /\ MaxAge \in Nat /\ MaxAge > 0
  /\ CasMaxRetries \in Nat /\ CasMaxRetries > 0 /\ MaxTime \in Nat
  /\ Established \subseteq Key /\ Faulty \subseteq Key
BY SharedAssumption

LEMMA LeastNatural ==
  ASSUME NEW T \in SUBSET Nat, T # {}
  PROVE  \E m \in T : \A n \in T : m <= n
<1>1. PICK m \in T : \A n \in T : ~ (<<n, m>> \in OpToRel(<, Nat))
  BY NatLessThanWellFounded, WFMin
<1>2. \A n \in T : ~ (n < m)
  BY <1>1 DEF OpToRel
<1>. QED BY <1>2

-----------------------------------------------------------------------------
(***************************************************************************)
(* Lists of start instants.                                                *)
(***************************************************************************)
Where(l, s) == {i \in DOMAIN l : l[i] = s}

LEMMA WhereFinite ==
  ASSUME NEW l \in Seq(Nat), NEW s
  PROVE  IsFiniteSet(Where(l, s)) /\ Cardinality(Where(l, s)) \in Nat
<1>1. IsFiniteSet(1..Len(l)) /\ Where(l, s) \subseteq 1..Len(l)
  BY FS_Interval DEF Where
<1>. QED BY <1>1, FS_Subset, FS_CardinalityType

LEMMA WhereEmpty == \A s : Cardinality(Where(<<>>, s)) = 0
BY FS_EmptySet DEF Where

LEMMA WhereAppend ==
  ASSUME NEW l \in Seq(Nat), NEW x \in Nat, NEW s
  PROVE  Cardinality(Where(Append(l, x), s)) =
           IF x = s THEN Cardinality(Where(l, s)) + 1 ELSE Cardinality(Where(l, s))
<1>1. Len(l) + 1 \notin Where(l, s)
  BY DEF Where
<1>2. CASE x = s
  <2>1. Where(Append(l, x), s) = Where(l, s) \union {Len(l) + 1}
    BY <1>2 DEF Where
  <2>. QED BY <1>1, <1>2, <2>1, WhereFinite, FS_AddElement
<1>3. CASE x # s
  <2>1. Where(Append(l, x), s) = Where(l, s)
    BY <1>3 DEF Where
  <2>. QED BY <1>3, <2>1
<1>. QED BY <1>2, <1>3

\* The positions up to n of the entries that pruning at t keeps.
KeptTo(l, t, n) == {i \in 1..n : t - l[i] < MaxAge}

LEMMA KeptToStep ==
  ASSUME NEW l \in Seq(Nat), NEW t \in Nat, NEW n \in 1..Len(l)
  PROVE  /\ Cardinality(KeptTo(l, t, n - 1)) \in Nat
         /\ Cardinality(KeptTo(l, t, n)) =
              Cardinality(KeptTo(l, t, n - 1)) + IF t - l[n] < MaxAge THEN 1 ELSE 0
<1>1. IsFiniteSet(KeptTo(l, t, n - 1)) /\ Cardinality(KeptTo(l, t, n - 1)) \in Nat
  <2>1. IsFiniteSet(1..(n - 1))
    BY FS_Interval
  <2>. QED BY <2>1, FS_Subset, FS_CardinalityType DEF KeptTo
<1>2. CASE t - l[n] < MaxAge
  <2>1. KeptTo(l, t, n) = KeptTo(l, t, n - 1) \union {n} /\ n \notin KeptTo(l, t, n - 1)
    BY <1>2, ConstantTypes DEF KeptTo
  <2>. QED BY <1>1, <1>2, <2>1, FS_AddElement
<1>3. CASE ~(t - l[n] < MaxAge)
  <2>1. KeptTo(l, t, n) = KeptTo(l, t, n - 1)
    BY <1>3, ConstantTypes DEF KeptTo
  <2>. QED BY <1>1, <1>3, <2>1
<1>. QED BY <1>1, <1>2, <1>3

\* pruneStarts is its loop: f[i] is what it has kept after i entries.
Prunes(f, l, t, n) ==
  f = [i \in 0..n |-> IF i = 0 THEN <<>>
                      ELSE IF t - l[i] < MaxAge THEN Append(f[i - 1], l[i])
                      ELSE f[i - 1]]

LEMMA PrunesExists ==
  ASSUME NEW l \in Seq(Nat), NEW t \in Nat
  PROVE  \E f : Prunes(f, l, t, Len(l))
<1>. DEFINE Bad == {n \in 0..Len(l) : ~ \E f : Prunes(f, l, t, n)}
<1>1. Bad = {}
  <2>. SUFFICES ASSUME Bad # {} PROVE FALSE
    OBVIOUS
  <2>1. PICK m \in Bad : \A n \in Bad : m <= n
    <3>1. Bad \in SUBSET Nat
      OBVIOUS
    <3>. HIDE DEF Bad
    <3>. QED BY <3>1, LeastNatural
  <2>2. m # 0
    <3>1. Prunes([i \in 0..0 |-> <<>>], l, t, 0)
      BY DEF Prunes
    <3>. QED BY <3>1
  <2>3. m \in 1..Len(l) /\ \E f : Prunes(f, l, t, m - 1)
    <3>1. m - 1 \in 0..Len(l) /\ m - 1 \notin Bad
      BY <2>1, <2>2, SMTT(30)
    <3>. QED BY <3>1, <2>2
  <2>4. PICK f : Prunes(f, l, t, m - 1)
    BY <2>3
  <2>. DEFINE last == IF t - l[m] < MaxAge THEN Append(f[m - 1], l[m]) ELSE f[m - 1]
              g == [i \in 0..m |-> IF i < m THEN f[i] ELSE last]
  <2>5. Prunes(g, l, t, m)
    <3>1. ASSUME NEW i \in 0..m
          PROVE  g[i] = IF i = 0 THEN <<>>
                        ELSE IF t - l[i] < MaxAge THEN Append(g[i - 1], l[i])
                        ELSE g[i - 1]
      <4>1. CASE i = m
        BY <2>3, <4>1
      <4>2. CASE i # m
        <5>1. i \in 0..(m - 1) /\ i < m
          BY <2>3, <4>2
        <5>2. f[i] = IF i = 0 THEN <<>>
                     ELSE IF t - l[i] < MaxAge THEN Append(f[i - 1], l[i]) ELSE f[i - 1]
          BY <2>4, <5>1 DEF Prunes
        <5>3. g[i] = f[i] /\ (i # 0 => g[i - 1] = f[i - 1])
          BY <2>3, <5>1
        <5>. QED BY <5>2, <5>3
      <4>. QED BY <4>1, <4>2
    <3>2. g = [i \in 0..m |-> g[i]]
      OBVIOUS
    <3>. HIDE DEF g
    <3>. QED BY <3>1, <3>2 DEF Prunes
  <2>. QED BY <2>5
<1>2. Len(l) \in 0..Len(l)
  OBVIOUS
<1>. QED BY <1>1, <1>2

\* What pruneStarts returns: the young entries, each as often as before.
LEMMA PruneKeepsYoung ==
  ASSUME NEW l \in Seq(Nat), NEW t \in Nat
  PROVE  /\ Prune(l, t) \in Seq(Nat)
         /\ Len(Prune(l, t)) = Cardinality(KeptTo(l, t, Len(l)))
         /\ Len(Prune(l, t)) <= Len(l)
         /\ \A s \in Nat : Cardinality(Where(Prune(l, t), s)) =
              IF t - s < MaxAge THEN Cardinality(Where(l, s)) ELSE 0
<1>1. PICK f : Prunes(f, l, t, Len(l)) /\ Prune(l, t) = f[Len(l)]
  BY PrunesExists DEF Prunes, Prune
<1>. DEFINE Of(n, s) == {i \in 1..n : l[i] = s}
            Good(n) ==
              /\ f[n] \in Seq(Nat)
              /\ Len(f[n]) = Cardinality(KeptTo(l, t, n)) /\ Len(f[n]) <= n
              /\ \A s \in Nat : Cardinality(Where(f[n], s)) =
                   IF t - s < MaxAge THEN Cardinality(Of(n, s)) ELSE 0
            Bad == {n \in 0..Len(l) : ~Good(n)}
<1>2. Good(0)
  <2>1. f[0] = <<>>
    BY <1>1 DEF Prunes
  <2>2. KeptTo(l, t, 0) = {} /\ \A s : Of(0, s) = {}
    BY DEF KeptTo
  <2>3. Cardinality(KeptTo(l, t, 0)) = 0 /\ \A s : Cardinality(Of(0, s)) = 0
    BY <2>2, FS_EmptySet
  <2>. HIDE DEF Of
  <2>. QED BY <2>1, <2>3, WhereEmpty
<1>3. ASSUME NEW n \in 1..Len(l), Good(n - 1)
      PROVE  Good(n)
  <2>1. f[n] = IF t - l[n] < MaxAge THEN Append(f[n - 1], l[n]) ELSE f[n - 1]
    <3>1. n \in 0..Len(l) /\ n # 0
      BY <1>3
    <3>. QED BY <1>1, <3>1, Zenon DEF Prunes
  <2>2. l[n] \in Nat
    BY <1>3
  <2>3. ASSUME NEW s \in Nat
        PROVE  /\ Cardinality(Of(n - 1, s)) \in Nat
               /\ Cardinality(Of(n, s)) =
                    Cardinality(Of(n - 1, s)) + IF l[n] = s THEN 1 ELSE 0
    <3>1. IsFiniteSet(Of(n - 1, s)) /\ Cardinality(Of(n - 1, s)) \in Nat
      <4>1. IsFiniteSet(1..(n - 1))
        BY FS_Interval
      <4>. QED BY <4>1, FS_Subset, FS_CardinalityType
    <3>2. CASE l[n] = s
      <4>1. Of(n, s) = Of(n - 1, s) \union {n} /\ n \notin Of(n - 1, s)
        BY <1>3, <3>2
      <4>. HIDE DEF Of
      <4>. QED BY <3>1, <3>2, <4>1, FS_AddElement
    <3>3. CASE l[n] # s
      <4>1. Of(n, s) = Of(n - 1, s)
        BY <1>3, <3>3
      <4>. HIDE DEF Of
      <4>. QED BY <3>1, <3>3, <4>1
    <3>. QED BY <3>1, <3>2, <3>3
  <2>4. f[n] \in Seq(Nat)
    BY <1>3, <2>1, <2>2
  <2>5. Len(f[n]) = Cardinality(KeptTo(l, t, n)) /\ Len(f[n]) <= n
    <3>1. Len(f[n]) = Len(f[n - 1]) + IF t - l[n] < MaxAge THEN 1 ELSE 0
      BY <1>3, <2>1, <2>2
    <3>. HIDE DEF Good
    <3>2. Len(f[n - 1]) = Cardinality(KeptTo(l, t, n - 1)) /\ Len(f[n - 1]) <= n - 1
      BY <1>3 DEF Good
    <3>3. /\ Cardinality(KeptTo(l, t, n - 1)) \in Nat
          /\ Cardinality(KeptTo(l, t, n)) =
               Cardinality(KeptTo(l, t, n - 1)) + IF t - l[n] < MaxAge THEN 1 ELSE 0
      BY <1>3, KeptToStep
    <3>. QED BY <1>3, <3>1, <3>2, <3>3
  <2>6. ASSUME NEW s \in Nat
        PROVE  Cardinality(Where(f[n], s)) = IF t - s < MaxAge THEN Cardinality(Of(n, s)) ELSE 0
    <3>1. Cardinality(Where(f[n - 1], s)) =
            IF t - s < MaxAge THEN Cardinality(Of(n - 1, s)) ELSE 0
      BY <1>3
    <3>. HIDE DEF Good
    <3>2. CASE t - l[n] < MaxAge
      <4>1. Cardinality(Where(f[n], s)) = Cardinality(Where(f[n - 1], s)) + IF l[n] = s THEN 1 ELSE 0
        <5>1. f[n - 1] \in Seq(Nat)
          BY <1>3 DEF Good
        <5>. QED BY <2>1, <2>2, <3>2, <5>1, WhereAppend, WhereFinite, SMTT(30)
      <4>. HIDE DEF Of
      <4>2. CASE t - s < MaxAge
        BY <2>3, <3>1, <4>1, <4>2
      <4>3. CASE ~(t - s < MaxAge)
        <5>1. l[n] # s
          BY <3>2, <4>3
        <5>. QED BY <3>1, <4>1, <4>3, <5>1
      <4>. QED BY <4>2, <4>3
    <3>3. CASE ~(t - l[n] < MaxAge)
      <4>1. f[n] = f[n - 1]
        BY <2>1, <3>3
      <4>. HIDE DEF Of
      <4>2. CASE t - s < MaxAge
        <5>1. l[n] # s
          BY <3>3, <4>2
        <5>2. Cardinality(Of(n, s)) = Cardinality(Of(n - 1, s))
          <6>1. /\ Cardinality(Of(n - 1, s)) \in Nat
                /\ Cardinality(Of(n, s)) =
                     Cardinality(Of(n - 1, s)) + IF l[n] = s THEN 1 ELSE 0
            BY <2>3, <2>6
          <6>. QED BY <5>1, <6>1
        <5>. QED BY <3>1, <4>1, <4>2, <5>2
      <4>3. CASE ~(t - s < MaxAge)
        BY <3>1, <4>1, <4>3
      <4>. QED BY <4>2, <4>3
    <3>. QED BY <3>2, <3>3
  <2>. QED BY <2>4, <2>5, <2>6
<1>4. Bad = {}
  <2>. HIDE DEF Good
  <2>. SUFFICES ASSUME Bad # {} PROVE FALSE
    OBVIOUS
  <2>1. PICK m \in Bad : \A n \in Bad : m <= n
    <3>1. Bad \in SUBSET Nat
      OBVIOUS
    <3>. HIDE DEF Bad
    <3>. QED BY <3>1, LeastNatural
  <2>2. m # 0
    BY <1>2
  <2>3. m - 1 \in 0..Len(l) /\ m - 1 \notin Bad
    BY <2>1, <2>2
  <2>. QED BY <1>3, <2>2, <2>3
<1>5. Good(Len(l))
  <2>1. Len(l) \in 0..Len(l)
    OBVIOUS
  <2>. HIDE DEF Good
  <2>. QED BY <1>4, <2>1
<1>6. \A s : Of(Len(l), s) = Where(l, s)
  BY DEF Where
<1>. QED BY <1>1, <1>5, <1>6

\* removeInflight takes one entry of its start away, if there is one.
LEMMA RemoveFirstTakesOne ==
  ASSUME NEW l \in Seq(Nat), NEW s \in Nat
  PROVE  /\ RemoveFirst(l, s) \in Seq(Nat)
         /\ Len(RemoveFirst(l, s)) <= Len(l)
         /\ \A u \in Nat : Cardinality(Where(RemoveFirst(l, s), u)) =
              IF u = s /\ Cardinality(Where(l, s)) > 0
                THEN Cardinality(Where(l, s)) - 1
                ELSE Cardinality(Where(l, u))
<1>1. CASE Where(l, s) = {}
  <2>1. RemoveFirst(l, s) = l
    BY <1>1 DEF RemoveFirst, Where
  <2>. QED BY <1>1, <2>1, FS_EmptySet
<1>2. CASE Where(l, s) # {}
  <2>. DEFINE places == {i \in 1..Len(l) : l[i] = s}
              n      == Min(places)
              m      == SubSeq(l, 1, n - 1) \o SubSeq(l, n + 1, Len(l))
  <2>1. RemoveFirst(l, s) = m
    <3>1. \E i \in 1..Len(l) : l[i] = s
      BY <1>2 DEF Where
    <3>2. RemoveFirst(l, s) = RemoveAt(l, n)
      BY <3>1 DEF RemoveFirst, SelectInSeq
    <3>. QED BY <3>2 DEF RemoveAt
  <2>2. n \in 1..Len(l) /\ l[n] = s
    <3>1. \E x \in places : \A y \in places : x <= y
      <4>1. places \in SUBSET Nat /\ places # {}
        BY <1>2 DEF Where
      <4>. HIDE DEF places
      <4>. QED BY <4>1, LeastNatural
    <3>2. n \in places
      BY <3>1 DEF Min
    <3>. HIDE DEF n
    <3>. QED BY <3>2
  <2>. HIDE DEF n
  <2>3. /\ m \in Seq(Nat) /\ Len(m) = Len(l) - 1
        /\ \A i \in 1..Len(m) : m[i] = IF i < n THEN l[i] ELSE l[i + 1]
    <3>. DEFINE a == SubSeq(l, 1, n - 1)
                b == SubSeq(l, n + 1, Len(l))
    <3>1. /\ a \in Seq(Nat) /\ Len(a) = n - 1
          /\ \A i \in 1..(n - 1) : a[i] = l[i]
      BY <2>2, SubSeqProperties
    <3>2. /\ b \in Seq(Nat) /\ Len(b) = Len(l) - n
          /\ \A i \in 1..(Len(l) - n) : b[i] = l[n + i]
      BY <2>2, SubSeqProperties
    <3>3. /\ a \o b \in Seq(Nat) /\ Len(a \o b) = Len(a) + Len(b)
          /\ \A i \in 1..(Len(a) + Len(b)) :
               (a \o b)[i] = IF i <= Len(a) THEN a[i] ELSE b[i - Len(a)]
      <4>. HIDE DEF a, b
      <4>. QED BY <3>1, <3>2, ConcatProperties
    <3>. HIDE DEF a, b
    <3>4. m = a \o b
      BY DEF a, b
    <3>. HIDE DEF m
    <3>5. m \in Seq(Nat) /\ Len(m) = Len(l) - 1
      <4>1. Len(a) + Len(b) = Len(l) - 1
        BY <2>2, <3>1, <3>2
      <4>. QED BY <3>3, <3>4, <4>1
    <3>6. ASSUME NEW i \in 1..Len(m)
          PROVE  m[i] = IF i < n THEN l[i] ELSE l[i + 1]
      <4>1. m[i] = IF i <= n - 1 THEN a[i] ELSE b[i - (n - 1)]
        BY <2>2, <3>1, <3>2, <3>3, <3>4, <3>5
      <4>2. CASE i < n
        BY <2>2, <3>1, <4>1, <4>2
      <4>3. CASE ~(i < n)
        <5>1. i - (n - 1) \in 1..(Len(l) - n)
          BY <2>2, <3>5, <4>3
        <5>2. b[i - (n - 1)] = l[n + (i - (n - 1))] /\ n + (i - (n - 1)) = i + 1
          BY <2>2, <3>2, <5>1
        <5>. QED BY <2>2, <4>1, <4>3, <5>2
      <4>. QED BY <4>2, <4>3
    <3>. QED BY <3>5, <3>6
  <2>. HIDE DEF m
  <2>4. ASSUME NEW u \in Nat
        PROVE  Cardinality(Where(m, u)) = Cardinality(Where(l, u) \ {n})
    <3>. DEFINE shift == [i \in Where(m, u) |-> IF i < n THEN i ELSE i + 1]
    <3>1. shift \in Bijection(Where(m, u), Where(l, u) \ {n})
      <4>1. shift \in [Where(m, u) -> Where(l, u) \ {n}]
        <5>1. ASSUME NEW i \in Where(m, u)
              PROVE  shift[i] \in Where(l, u) \ {n}
          <6>1. i \in 1..Len(m) /\ m[i] = u
            BY <2>3 DEF Where
          <6>2. CASE i < n
            <7>1. shift[i] = i /\ i \in 1..Len(l) /\ i # n
              BY <2>2, <2>3, <6>1, <6>2
            <7>2. l[i] = u
              BY <2>3, <6>1, <6>2
            <7>. QED BY <7>1, <7>2 DEF Where
          <6>3. CASE ~(i < n)
            <7>1. shift[i] = i + 1 /\ i + 1 \in 1..Len(l) /\ i + 1 # n
              BY <2>2, <2>3, <6>1, <6>3
            <7>2. l[i + 1] = u
              BY <2>3, <6>1, <6>3
            <7>. QED BY <7>1, <7>2 DEF Where
          <6>. QED BY <6>2, <6>3
        <5>. QED BY <5>1
      <4>2. \A i, j \in Where(m, u) : shift[i] = shift[j] => i = j
        BY <2>2, <2>3, SMTT(30) DEF Where
      <4>3. ASSUME NEW j \in Where(l, u) \ {n}
            PROVE  \E i \in Where(m, u) : shift[i] = j
        <5>1. CASE j < n
          <6>1. j \in Where(m, u)
            <7>1. j \in 1..Len(l) /\ l[j] = u
              BY <4>3 DEF Where
            <7>2. j \in 1..Len(m) /\ DOMAIN m = 1..Len(m)
              BY <2>2, <2>3, <5>1, <7>1
            <7>. QED BY <2>3, <5>1, <7>1, <7>2 DEF Where
          <6>. QED BY <5>1, <6>1
        <5>2. CASE j > n
          <6>1. j - 1 \in Where(m, u) /\ ~(j - 1 < n) /\ (j - 1) + 1 = j
            BY <2>2, <2>3, <5>2, SMTT(30) DEF Where
          <6>. QED BY <6>1
        <5>. QED BY <2>2, <5>1, <5>2 DEF Where
      <4>. HIDE DEF shift
      <4>. QED BY <4>1, <4>2, <4>3 DEF Bijection, Injection, IsInjective, Surjection
    <3>2. IsFiniteSet(Where(m, u))
      BY <2>3, WhereFinite
    <3>. QED BY <3>1, <3>2, FS_Bijection DEF ExistsBijection
  <2>5. ASSUME NEW u \in Nat
        PROVE  Cardinality(Where(m, u)) =
                 IF u = s THEN Cardinality(Where(l, s)) - 1 ELSE Cardinality(Where(l, u))
    <3>1. n \in Where(l, u) <=> u = s
      BY <2>2 DEF Where
    <3>. QED BY <2>4, <3>1, WhereFinite, FS_RemoveElement
  <2>6. Cardinality(Where(l, s)) > 0
    BY <1>2, WhereFinite, FS_EmptySet
  <2>. QED BY <2>1, <2>3, <2>5, <2>6
<1>. QED BY <1>1, <1>2

-----------------------------------------------------------------------------
(***************************************************************************)
(* The inductive invariant.  HardCap and FullMeansBusy follow from what is *)
(* inductive about the store: a list never outgrows its cap, and for every *)
(* start instant it has an entry for each young request that reserved      *)
(* then, and none but for a request that did and has not given it back.    *)
(* All need what a worker that is about to write holds: if nobody has      *)
(* written since it read, its list is the pruned one of the store with one *)
(* entry more, and was not full, or with its own entry taken out.          *)
(***************************************************************************)
TypeOK ==
  /\ now \in Nat /\ now > 0
  /\ kv \in [Key -> [cas : Nat, starts : Seq(Nat)]]
  /\ pc \in [Req -> {"idle", "load", "init", "store", "running", "rejected",
                     "doneLoad", "doneStore", "done", "leaked"}]
  /\ order \in [Req -> Seq(Key)]
  /\ at \in [Req -> Nat]
  /\ attempt \in [Req -> Nat]
  /\ seen \in [Req -> [cas : Nat, starts : Seq(Nat)]]
  /\ chosen \in [Req -> Key \union {NoKey}]
  /\ token \in [Req -> Nat]

\* What each place of the two hooks knows.
Phase(r) ==
  /\ pc[r] \in {"idle", "load", "init", "store"} => token[r] = 0
  /\ pc[r] \in {"load", "init", "store"} => order[r] # <<>>
  /\ pc[r] \in {"load", "init", "store", "running", "doneLoad", "doneStore"} => chosen[r] \in Key
  /\ pc[r] \in {"load", "init", "store", "doneLoad", "doneStore"} => 0 < at[r] /\ at[r] <= now
  /\ pc[r] \in {"doneLoad", "doneStore"} => token[r] > 0
  /\ pc[r] = "init" => order[r][1] \notin Established
  /\ token[r] <= now

Appended(r, k) ==
  /\ ~Full(k, Prune(kv[k].starts, at[r]))
  /\ seen[r].starts = Append(Prune(kv[k].starts, at[r]), at[r])

Removed(r, k) == seen[r].starts = RemoveFirst(Prune(kv[k].starts, at[r]), token[r])

\* A pending write is up to date with what its version stands for.
Snapshot(r) ==
  /\ pc[r] = "store" =>
       LET k == order[r][1]
       IN seen[r].cas <= kv[k].cas /\ (seen[r].cas = kv[k].cas => Appended(r, k))
  /\ pc[r] = "doneStore" =>
       LET k == chosen[r]
       IN seen[r].cas <= kv[k].cas /\ (seen[r].cas = kv[k].cas => Removed(r, k))

Owns(r, k, s) ==
  pc[r] \in {"running", "doneLoad", "doneStore"} /\ chosen[r] = k /\ token[r] = s

Owners(k, s) == {r \in Req : Owns(r, k, s)}

\* ... and those that failed to give their entry back.
Owes(r, k, s) == Owns(r, k, s) \/ (pc[r] = "leaked" /\ chosen[r] = k /\ token[r] = s)

Charged(k, s) == {r \in Req : Owes(r, k, s)}

Initialized == \A k \in Established : kv[k].cas > 0

ListsCapped == \A k \in Key : MaxRun[k] > 0 => Len(kv[k].starts) <= MaxRun[k]

OwnersListed ==
  \A k \in Reliable : \A s \in Nat : 0 < s /\ s <= now /\ now - s < MaxAge =>
    Cardinality(Owners(k, s)) <= Cardinality(Where(kv[k].starts, s))

EntriesOwned ==
  \A k \in Key : \A s \in Nat : 0 < s =>
    Cardinality(Where(kv[k].starts, s)) <= Cardinality(Charged(k, s))

\* 0 is a reservation that failed open: it is never written.
NoneAtZero == \A k \in Key : Cardinality(Where(kv[k].starts, 0)) = 0

IInv ==
  /\ TypeOK /\ (\A r \in Req : Phase(r) /\ Snapshot(r))
  /\ Initialized /\ ListsCapped /\ OwnersListed /\ EntriesOwned /\ NoneAtZero

LEMMA InitIInv == Init => IInv
<1>. SUFFICES ASSUME Init PROVE IInv
  OBVIOUS
<1>. USE ConstantTypes DEF Init, Nothing
<1>1. \A k \in Key : /\ kv[k].starts = <<>> /\ kv[k].cas \in Nat
                     /\ k \in Established => kv[k].cas = 1
                     /\ kv[k] \in [cas : Nat, starts : Seq(Nat)]
  <2>. SUFFICES ASSUME NEW k \in Key
                PROVE  /\ kv[k].starts = <<>> /\ kv[k].cas \in Nat
                       /\ k \in Established => kv[k].cas = 1
                       /\ kv[k] \in [cas : Nat, starts : Seq(Nat)]
    OBVIOUS
  <2>1. kv[k] = [cas |-> IF k \in Established THEN 1 ELSE 0, starts |-> <<>>]
    OBVIOUS
  <2>2. <<>> \in Seq(Nat) /\ (IF k \in Established THEN 1 ELSE 0) \in Nat
    OBVIOUS
  <2>3. kv[k] \in [cas : Nat, starts : Seq(Nat)]
    BY <2>1, <2>2, Zenon
  <2>. QED BY <2>1, <2>3
<1>2. TypeOK
  <2>1. kv \in [Key -> [cas : Nat, starts : Seq(Nat)]]
    BY <1>1
  <2>2. [cas |-> 0, starts |-> <<>>] \in [cas : Nat, starts : Seq(Nat)]
    OBVIOUS
  <2>. QED BY <2>1, <2>2 DEF TypeOK
<1>3. \A r \in Req : Phase(r) /\ Snapshot(r)
  BY DEF Phase, Snapshot
<1>4. Initialized /\ ListsCapped
  BY <1>1 DEF Initialized, ListsCapped
<1>5. \A k, s : Owners(k, s) = {} /\ Charged(k, s) = {}
  BY DEF Owners, Charged, Owes, Owns
<1>6. OwnersListed /\ EntriesOwned
  <2>1. \A k \in Key : \A s : /\ Cardinality(Where(kv[k].starts, s)) = 0
                              /\ Cardinality(Owners(k, s)) = 0 /\ Cardinality(Charged(k, s)) = 0
    BY <1>1, <1>5, WhereEmpty, FS_EmptySet
  <2>2. Reliable \subseteq Key
    BY DEF Reliable
  <2>3. \A k \in Key : \A s : Cardinality(Owners(k, s)) <= Cardinality(Where(kv[k].starts, s))
                            /\ Cardinality(Where(kv[k].starts, s)) <= Cardinality(Charged(k, s))
    BY <2>1
  <2>. QED BY <2>2, <2>3 DEF OwnersListed, EntriesOwned
<1>7. NoneAtZero
  BY <1>1, WhereEmpty DEF NoneAtZero
<1>. QED BY <1>2, <1>3, <1>4, <1>6, <1>7 DEF IInv

-----------------------------------------------------------------------------
\* A step of r leaves what the other hooks hold alone ...
OthersKept(r) ==
  \A q \in Req \ {r} :
    /\ pc'[q] = pc[q] /\ order'[q] = order[q] /\ at'[q] = at[q] /\ seen'[q] = seen[q]
    /\ chosen'[q] = chosen[q] /\ token'[q] = token[q]

\* ... and writes one key at most.
Wrote(k, l) == kv' = [kv EXCEPT ![k] = [cas |-> kv[k].cas + 1, starts |-> l]]

LEMMA OthersIInv ==
  ASSUME IInv, NEW r \in Req, OthersKept(r), now' = now,
         kv' = kv \/ \E k \in Key, l \in Seq(Nat) : Wrote(k, l),
         NEW q \in Req \ {r}
  PROVE  Phase(q)' /\ Snapshot(q)'
<1>. USE DEF IInv, OthersKept
<1>1. Phase(q)'
  BY DEF Phase
<1>2. \A k \in Key : kv'[k] = kv[k] \/ kv'[k].cas = kv[k].cas + 1
  BY DEF Wrote, TypeOK
<1>3. seen[q].cas \in Nat /\ \A k \in Key : kv[k].cas \in Nat
  BY DEF TypeOK
<1>4. pc[q] = "store" => order[q][1] \in Key
  BY DEF Phase, TypeOK
<1>5. pc[q] = "doneStore" => chosen[q] \in Key
  BY DEF Phase
<1>6. ASSUME NEW k \in Key, seen[q].cas <= kv[k].cas
      PROVE  /\ seen[q].cas <= kv'[k].cas
             /\ seen[q].cas = kv'[k].cas => kv'[k] = kv[k]
  BY <1>2, <1>3, <1>6
<1>7. /\ pc'[q] = pc[q] /\ order'[q] = order[q] /\ at'[q] = at[q] /\ seen'[q] = seen[q]
      /\ chosen'[q] = chosen[q] /\ token'[q] = token[q]
  OBVIOUS
<1>8. ASSUME pc[q] = "store"
      PROVE  /\ seen[q].cas <= kv'[order[q][1]].cas
             /\ seen[q].cas = kv'[order[q][1]].cas => Appended(q, order[q][1])'
  <2>1. /\ seen[q].cas <= kv[order[q][1]].cas
        /\ seen[q].cas = kv[order[q][1]].cas => Appended(q, order[q][1])
    BY <1>8 DEF Snapshot
  <2>2. kv'[order[q][1]] = kv[order[q][1]] =>
          (Appended(q, order[q][1]) => Appended(q, order[q][1])')
    BY <1>7 DEF Appended
  <2>. QED BY <1>4, <1>6, <1>8, <2>1, <2>2
<1>9. ASSUME pc[q] = "doneStore"
      PROVE  /\ seen[q].cas <= kv'[chosen[q]].cas
             /\ seen[q].cas = kv'[chosen[q]].cas => Removed(q, chosen[q])'
  <2>1. /\ seen[q].cas <= kv[chosen[q]].cas
        /\ seen[q].cas = kv[chosen[q]].cas => Removed(q, chosen[q])
    BY <1>9 DEF Snapshot
  <2>2. kv'[chosen[q]] = kv[chosen[q]] => (Removed(q, chosen[q]) => Removed(q, chosen[q])')
    BY <1>7 DEF Removed
  <2>. QED BY <1>5, <1>6, <1>9, <2>1, <2>2
<1>10. Snapshot(q)'
  BY <1>7, <1>8, <1>9 DEF Snapshot
<1>. QED BY <1>1, <1>10

\* How a step of r changes the number of owners and debtors.
LEMMA OwnersStep ==
  ASSUME NEW r \in Req, OthersKept(r), NEW k, NEW s
  PROVE  /\ Cardinality(Owners(k, s)) \in Nat /\ Cardinality(Owners(k, s)') \in Nat
         /\ Cardinality(Owners(k, s)') =
              Cardinality(Owners(k, s)) + (IF Owns(r, k, s)' THEN 1 ELSE 0)
                                        - (IF Owns(r, k, s) THEN 1 ELSE 0)
<1>1. IsFiniteSet(Owners(k, s)) /\ Cardinality(Owners(k, s)) \in Nat
  BY ConstantTypes, FS_Subset, FS_CardinalityType DEF Owners
<1>. DEFINE rest == Owners(k, s) \ {r}
<1>2. Owners(k, s)' = IF Owns(r, k, s)' THEN rest \union {r} ELSE rest
  BY DEF Owners, Owns, OthersKept
<1>3. /\ IsFiniteSet(rest) /\ r \notin rest
      /\ Cardinality(rest) = Cardinality(Owners(k, s)) - (IF Owns(r, k, s) THEN 1 ELSE 0)
  <2>1. r \in Owners(k, s) <=> Owns(r, k, s)
    BY DEF Owners
  <2>. QED BY <1>1, <2>1, FS_RemoveElement
<1>4. Cardinality(rest) \in Nat
  BY <1>3, FS_CardinalityType
<1>5. Cardinality(rest \union {r}) = Cardinality(rest) + 1
  BY <1>3, FS_AddElement
<1>. HIDE DEF rest
<1>. QED BY <1>1, <1>2, <1>3, <1>4, <1>5

LEMMA ChargedStep ==
  ASSUME NEW r \in Req, OthersKept(r), NEW k, NEW s
  PROVE  /\ Cardinality(Charged(k, s)) \in Nat /\ Cardinality(Charged(k, s)') \in Nat
         /\ Cardinality(Charged(k, s)') =
              Cardinality(Charged(k, s)) + (IF Owes(r, k, s)' THEN 1 ELSE 0)
                                         - (IF Owes(r, k, s) THEN 1 ELSE 0)
<1>1. IsFiniteSet(Charged(k, s)) /\ Cardinality(Charged(k, s)) \in Nat
  BY ConstantTypes, FS_Subset, FS_CardinalityType DEF Charged
<1>. DEFINE rest == Charged(k, s) \ {r}
<1>2. Charged(k, s)' = IF Owes(r, k, s)' THEN rest \union {r} ELSE rest
  BY DEF Charged, Owes, Owns, OthersKept
<1>3. /\ IsFiniteSet(rest) /\ r \notin rest
      /\ Cardinality(rest) = Cardinality(Charged(k, s)) - (IF Owes(r, k, s) THEN 1 ELSE 0)
  <2>1. r \in Charged(k, s) <=> Owes(r, k, s)
    BY DEF Charged
  <2>. QED BY <1>1, <2>1, FS_RemoveElement
<1>4. Cardinality(rest) \in Nat
  BY <1>3, FS_CardinalityType
<1>5. Cardinality(rest \union {r}) = Cardinality(rest) + 1
  BY <1>3, FS_AddElement
<1>. HIDE DEF rest
<1>. QED BY <1>1, <1>2, <1>3, <1>4, <1>5

\* A step of r that writes no key: it makes r an owner of nothing that counts,
\* and r stops being charged only where no entry is left.
LEMMA ReadStep ==
  ASSUME IInv, TypeOK', NEW r \in Req, OthersKept(r), UNCHANGED <<now, kv>>,
         Phase(r)', Snapshot(r)',
         \A k \in Reliable : \A s \in Nat : 0 < s /\ Owns(r, k, s)' => Owns(r, k, s),
         \A k \in Key : \A s \in Nat : 0 < s /\ Owes(r, k, s) /\ ~Owes(r, k, s)' =>
           Cardinality(Where(kv[k].starts, s)) = 0
  PROVE  IInv'
<1>. USE DEF IInv
<1>1. \A q \in Req : Phase(q)' /\ Snapshot(q)'
  BY OthersIInv
<1>2. Initialized' /\ ListsCapped' /\ NoneAtZero'
  BY DEF Initialized, ListsCapped, NoneAtZero
<1>3. OwnersListed'
  <2>. SUFFICES ASSUME NEW k \in Reliable, NEW s \in Nat, 0 < s, s <= now, now - s < MaxAge
                PROVE  Cardinality(Owners(k, s)') <= Cardinality(Where(kv[k].starts, s))
    BY DEF OwnersListed
  <2>1. Cardinality(Owners(k, s)) <= Cardinality(Where(kv[k].starts, s))
    BY DEF OwnersListed
  <2>2. Cardinality(Where(kv[k].starts, s)) \in Nat
    BY ConstantTypes, WhereFinite DEF Reliable, TypeOK
  <2>. QED BY <2>1, <2>2, OwnersStep
<1>4. EntriesOwned'
  <2>. SUFFICES ASSUME NEW k \in Key, NEW s \in Nat, 0 < s
                PROVE  Cardinality(Where(kv[k].starts, s)) <= Cardinality(Charged(k, s)')
    BY DEF EntriesOwned
  <2>1. Cardinality(Where(kv[k].starts, s)) <= Cardinality(Charged(k, s))
    BY DEF EntriesOwned
  <2>2. Cardinality(Where(kv[k].starts, s)) \in Nat
    BY WhereFinite DEF TypeOK
  <2>. QED BY <2>1, <2>2, ChargedStep
<1>. QED BY <1>1, <1>2, <1>3, <1>4

\* A step of r that writes the list l under k0.
LEMMA WriteStep ==
  ASSUME IInv, TypeOK', NEW r \in Req, OthersKept(r), UNCHANGED now,
         NEW k0 \in Key, NEW l \in Seq(Nat), Wrote(k0, l), Phase(r)', Snapshot(r)',
         MaxRun[k0] > 0 => Len(l) <= MaxRun[k0],
         k0 \in Reliable => \A s \in Nat : 0 < s /\ s <= now /\ now - s < MaxAge =>
           Cardinality(Owners(k0, s)') <= Cardinality(Where(l, s)),
         \A s \in Nat : 0 < s => Cardinality(Where(l, s)) <= Cardinality(Charged(k0, s)'),
         Cardinality(Where(l, 0)) = 0,
         \A k \in Key \ {k0} : \A s \in Nat : 0 < s =>
           (Owns(r, k, s)' => Owns(r, k, s)) /\ (Owes(r, k, s) => Owes(r, k, s)')
  PROVE  IInv'
<1>. USE DEF IInv
<1>1. \A q \in Req : Phase(q)' /\ Snapshot(q)'
  BY OthersIInv
<1>2. /\ kv'[k0] = [cas |-> kv[k0].cas + 1, starts |-> l]
      /\ \A k \in Key \ {k0} : kv'[k] = kv[k]
      /\ \A k \in Key : kv[k].cas \in Nat /\ kv[k].starts \in Seq(Nat)
  BY DEF Wrote, TypeOK
<1>3. Initialized' /\ ListsCapped'
  <2>1. ASSUME NEW k \in Key
        PROVE  /\ k \in Established => kv'[k].cas > 0
               /\ MaxRun[k] > 0 => Len(kv'[k].starts) <= MaxRun[k]
    <3>1. CASE k = k0
      BY <1>2, <3>1
    <3>2. CASE k # k0
      BY <1>2, <3>2 DEF Initialized, ListsCapped
    <3>. QED BY <3>1, <3>2
  <2>. QED BY <2>1, ConstantTypes DEF Initialized, ListsCapped
<1>4. OwnersListed'
  <2>. SUFFICES ASSUME NEW k \in Reliable, NEW s \in Nat, 0 < s, s <= now, now - s < MaxAge
                PROVE  Cardinality(Owners(k, s)') <= Cardinality(Where(kv'[k].starts, s))
    BY DEF OwnersListed
  <2>1. CASE k = k0
    BY <1>2, <2>1
  <2>2. CASE k # k0
    <3>1. k \in Key \ {k0}
      BY <2>2, ConstantTypes DEF Reliable
    <3>2. /\ Cardinality(Owners(k, s)) <= Cardinality(Where(kv[k].starts, s))
          /\ Cardinality(Where(kv[k].starts, s)) \in Nat /\ kv'[k] = kv[k]
      BY <1>2, <3>1, WhereFinite DEF OwnersListed
    <3>. QED BY <3>1, <3>2, OwnersStep
  <2>. QED BY <2>1, <2>2
<1>5. EntriesOwned'
  <2>. SUFFICES ASSUME NEW k \in Key, NEW s \in Nat, 0 < s
                PROVE  Cardinality(Where(kv'[k].starts, s)) <= Cardinality(Charged(k, s)')
    BY DEF EntriesOwned
  <2>1. CASE k = k0
    BY <1>2, <2>1
  <2>2. CASE k # k0
    <3>1. /\ Cardinality(Where(kv[k].starts, s)) <= Cardinality(Charged(k, s))
          /\ Cardinality(Where(kv[k].starts, s)) \in Nat /\ kv'[k] = kv[k]
      BY <1>2, <2>2, WhereFinite DEF EntriesOwned
    <3>2. Owes(r, k, s) => Owes(r, k, s)'
      BY <2>2
    <3>3. /\ Cardinality(Charged(k, s)) \in Nat /\ Cardinality(Charged(k, s)') \in Nat
          /\ Cardinality(Charged(k, s)') =
               Cardinality(Charged(k, s)) + (IF Owes(r, k, s)' THEN 1 ELSE 0)
                                          - (IF Owes(r, k, s) THEN 1 ELSE 0)
      BY ChargedStep
    <3>4. Cardinality(Charged(k, s)) <= Cardinality(Charged(k, s)')
      BY <3>2, <3>3
    <3>. QED BY <3>1, <3>3, <3>4
  <2>. QED BY <2>1, <2>2
<1>6. NoneAtZero'
  BY <1>2 DEF NoneAtZero
<1>. QED BY <1>1, <1>3, <1>4, <1>5, <1>6

-----------------------------------------------------------------------------
(***************************************************************************)
(* The steps of a hook.                                                    *)
(***************************************************************************)
LEMMA ReserveStep ==
  ASSUME IInv, NEW r \in Req, Reserve(r)
  PROVE  IInv'
<1>. USE DEF IInv
<1>1. PICK o \in SetToSeqs(Key) : /\ order' = [order EXCEPT ![r] = o]
                                  /\ chosen' = [chosen EXCEPT ![r] = o[1]]
  BY DEF Reserve
<1>2. o \in Seq(Key) /\ o # <<>> /\ o[1] \in Key
  <2>1. Cardinality(Key) \in Nat /\ Cardinality(Key) > 0
    BY ConstantTypes, FS_CardinalityType, FS_EmptySet
  <2>2. o \in [1..Cardinality(Key) -> Key]
    BY DEF SetToSeqs
  <2>. QED BY <2>1, <2>2
<1>3. /\ pc[r] = "idle" /\ pc' = [pc EXCEPT ![r] = "load"] /\ at' = [at EXCEPT ![r] = now]
      /\ UNCHANGED <<now, kv, attempt, seen, token>>
  BY DEF Reserve, Goto
<1>4. OthersKept(r)
  BY <1>1, <1>3 DEF OthersKept, TypeOK
<1>5. TypeOK'
  BY <1>1, <1>2, <1>3 DEF TypeOK
<1>6. Phase(r)' /\ Snapshot(r)'
  BY <1>1, <1>2, <1>3 DEF Phase, Snapshot, TypeOK
<1>7. \A k, s : ~Owes(r, k, s)' /\ ~Owes(r, k, s) /\ ~Owns(r, k, s)'
  BY <1>3 DEF Owes, Owns, TypeOK
<1>. QED BY <1>3, <1>4, <1>5, <1>6, <1>7, ReadStep

\* A hook that returns to a place where nothing is pending.
LEMMA ReturnKept ==
  ASSUME TypeOK, NEW r \in Req, NEW label, Return(r, label)
  PROVE  /\ pc' = [pc EXCEPT ![r] = label]
         /\ order' \in [Req -> Seq(Key)] /\ at' \in [Req -> Nat]
         /\ attempt' \in [Req -> Nat] /\ seen' \in [Req -> [cas : Nat, starts : Seq(Nat)]]
         /\ \A q \in Req \ {r} : /\ pc'[q] = pc[q] /\ order'[q] = order[q]
                                 /\ at'[q] = at[q] /\ seen'[q] = seen[q]
<1>1. Nothing \in [cas : Nat, starts : Seq(Nat)] /\ <<>> \in Seq(Key)
  BY DEF Nothing
<1>. QED BY <1>1 DEF Return, Goto, TypeOK

\* ... as FailOpen does,
LEMMA FailOpenStep ==
  ASSUME IInv, NEW r \in Req, pc[r] \in {"load", "init", "store"}, FailOpen(r)
  PROVE  /\ UNCHANGED <<now, kv>> => TypeOK' /\ IInv'
         /\ OthersKept(r) /\ pc'[r] = "running" /\ token'[r] = 0
         /\ TypeOK' <=> now' \in Nat /\ now' > 0 /\ kv' \in [Key -> [cas : Nat, starts : Seq(Nat)]]
         /\ now' = now => Phase(r)' /\ Snapshot(r)'
<1>. USE DEF IInv
<1>1. /\ Return(r, "running") /\ chosen' = [chosen EXCEPT ![r] = chosen[r]]
      /\ token' = [token EXCEPT ![r] = 0]
  BY DEF FailOpen, Routed
<1>2. chosen[r] \in Key
  BY DEF Phase
<1>3. OthersKept(r) /\ pc'[r] = "running" /\ token'[r] = 0 /\ chosen' = chosen
  BY <1>1, ReturnKept DEF OthersKept, TypeOK
<1>4. TypeOK' <=> now' \in Nat /\ now' > 0 /\ kv' \in [Key -> [cas : Nat, starts : Seq(Nat)]]
  BY <1>1, <1>3, ReturnKept, ZenonT(30) DEF TypeOK
<1>5. now' = now => Phase(r)' /\ Snapshot(r)'
  BY <1>2, <1>3 DEF Phase, Snapshot, TypeOK
<1>6. \A k, s : ~Owes(r, k, s)
  BY DEF Owes, Owns
<1>7. \A k : \A s \in Nat : 0 < s => ~Owns(r, k, s)'
  BY <1>3 DEF Owns
<1>8. ASSUME UNCHANGED <<now, kv>>
      PROVE  TypeOK' /\ IInv'
  <2>1. TypeOK'
    BY <1>4, <1>8 DEF TypeOK
  <2>. QED BY <1>3, <1>5, <1>6, <1>7, <1>8, <2>1, ReadStep
<1>. QED BY <1>3, <1>4, <1>5, <1>8

\* ... or one that reads again.
LEMMA AgainKept ==
  ASSUME TypeOK, NEW r \in Req, NEW label, Again(r, label)
  PROVE  /\ pc' = [pc EXCEPT ![r] = label] /\ UNCHANGED <<order, at, chosen, token>>
         /\ attempt' \in [Req -> Nat] /\ seen' \in [Req -> [cas : Nat, starts : Seq(Nat)]]
         /\ OthersKept(r) /\ pc'[r] = label
         /\ /\ now' \in Nat /\ now' > 0 /\ kv' \in [Key -> [cas : Nat, starts : Seq(Nat)]]
            /\ label \in {"load", "doneLoad"}
            => TypeOK'
<1>1. Nothing \in [cas : Nat, starts : Seq(Nat)]
  BY DEF Nothing
<1>2. /\ pc' = [pc EXCEPT ![r] = label] /\ UNCHANGED <<order, at, chosen, token>>
      /\ attempt' \in [Req -> Nat] /\ seen' \in [Req -> [cas : Nat, starts : Seq(Nat)]]
      /\ OthersKept(r) /\ pc'[r] = label
  BY <1>1 DEF Again, Goto, TypeOK, OthersKept
<1>. QED BY <1>2 DEF TypeOK

LEMMA RestOfTheWalk ==
  ASSUME NEW o \in Seq(Key), Len(o) > 1
  PROVE  Tail(o) \in Seq(Key) /\ Tail(o) # <<>>
<1>1. Tail(o) \in Seq(Key) /\ Len(Tail(o)) = Len(o) - 1
  BY HeadTailProperties
<1>. DEFINE t == Tail(o)
<1>. HIDE DEF t
<1>2. t \in Seq(Key) /\ Len(t) = Len(o) - 1 /\ Len(o) \in Nat
  BY <1>1 DEF t
<1>3. t # <<>>
  BY <1>2
<1>. QED BY <1>2, <1>3 DEF t

LEMMA LoadInflightStep ==
  ASSUME IInv, NEW r \in Req, LoadInflight(r)
  PROVE  IInv'
<1>. USE DEF IInv
<1>. SUFFICES ASSUME NEW k \in Key, k = order[r][1]
              PROVE  IInv'
  <2>1. pc[r] = "load"
    BY DEF LoadInflight
  <2>2. order[r] \in Seq(Key) /\ order[r] # <<>>
    BY <2>1 DEF Phase, TypeOK
  <2>. QED BY <2>2
<1>. DEFINE kept == Prune(kv[k].starts, at[r])
<1>1. pc[r] = "load" /\ UNCHANGED <<now, kv, token>>
  BY DEF LoadInflight, Return
<1>2. /\ token[r] = 0 /\ order[r] \in Seq(Key) /\ order[r] # <<>> /\ chosen[r] \in Key
      /\ at[r] \in Nat /\ 0 < at[r] /\ at[r] <= now
      /\ kv[k].cas \in Nat /\ kv[k].starts \in Seq(Nat)
  BY <1>1 DEF Phase, TypeOK
<1>3. kept \in Seq(Nat)
  BY <1>2, PruneKeepsYoung
<1>4. \A c, s : ~Owes(r, c, s)
  BY <1>1 DEF Owes, Owns
<1>5. ASSUME TypeOK', OthersKept(r), Phase(r)', Snapshot(r)', pc'[r] \in {"load", "init", "store", "rejected"}
      PROVE  IInv'
  <2>1. \A c, s : ~Owns(r, c, s)'
    BY <1>5 DEF Owns
  <2>. QED BY <1>1, <1>4, <1>5, <2>1, ReadStep
<1>6. CASE kv[k].cas = 0 /\ Goto(r, "init") /\ UNCHANGED <<order, at, attempt, seen, chosen, token>>
  <2>1. pc' = [pc EXCEPT ![r] = "init"]
    BY <1>6 DEF Goto
  <2>2. k \notin Established
    BY <1>6 DEF Initialized
  <2>. QED BY <1>1, <1>2, <1>5, <1>6, <2>1, <2>2 DEF TypeOK, OthersKept, Phase, Snapshot
<1>7. CASE /\ ~Full(k, kept)
           /\ seen' = [seen EXCEPT ![r] = [cas |-> kv[k].cas, starts |-> Append(kept, at[r])]]
           /\ Goto(r, "store") /\ UNCHANGED <<order, at, attempt, chosen, token>>
  <2>1. pc' = [pc EXCEPT ![r] = "store"]
    BY <1>7 DEF Goto
  <2>2. Append(kept, at[r]) \in Seq(Nat)
    BY <1>2, <1>3
  <2>3. [cas |-> kv[k].cas, starts |-> Append(kept, at[r])] \in [cas : Nat, starts : Seq(Nat)]
    BY <1>2, <2>2
  <2>. HIDE DEF kept
  <2>4. TypeOK' /\ OthersKept(r)
    BY <1>1, <1>7, <2>1, <2>3 DEF TypeOK, OthersKept
  <2>5. /\ pc'[r] = "store" /\ seen'[r] = [cas |-> kv[k].cas, starts |-> Append(kept, at[r])]
        /\ order'[r] = order[r] /\ at'[r] = at[r] /\ token'[r] = token[r] /\ chosen'[r] = chosen[r]
    BY <1>1, <1>7, <2>1 DEF TypeOK
  <2>6. Phase(r)'
    BY <1>1, <1>2, <2>5 DEF Phase
  <2>7. Snapshot(r)'
    <3>1. order'[r][1] = k /\ at'[r] = at[r] /\ kv' = kv
      BY <1>1, <2>5
    <3>2. seen'[r].cas = kv[k].cas /\ seen'[r].starts = Append(kept, at[r])
      BY <2>5
    <3>3. seen'[r].cas <= kv'[k].cas
      BY <1>2, <3>1, <3>2
    <3>4. Appended(r, k)'
      BY <1>7, <3>1, <3>2 DEF Appended, kept
    <3>. QED BY <2>5, <3>1, <3>3, <3>4 DEF Snapshot
  <2>. QED BY <1>5, <2>4, <2>5, <2>6, <2>7
<1>8. CASE /\ Len(order[r]) > 1 /\ order' = [order EXCEPT ![r] = Tail(order[r])]
           /\ attempt' = [attempt EXCEPT ![r] = 0] /\ UNCHANGED <<pc, at, seen, chosen, token>>
  <2>1. Tail(order[r]) \in Seq(Key) /\ Tail(order[r]) # <<>>
    BY <1>2, <1>8, RestOfTheWalk
  <2>2. TypeOK' /\ OthersKept(r)
    BY <1>1, <1>8, <2>1 DEF TypeOK, OthersKept
  <2>3. pc'[r] = "load" /\ order'[r] = Tail(order[r])
    BY <1>1, <1>8 DEF TypeOK
  <2>4. Phase(r)' /\ Snapshot(r)'
    BY <1>1, <1>2, <1>8, <2>1, <2>3 DEF Phase, Snapshot
  <2>. QED BY <1>5, <2>2, <2>3, <2>4
<1>9. CASE Return(r, "rejected") /\ chosen' = [chosen EXCEPT ![r] = NoKey] /\ UNCHANGED token
  <2>1. TypeOK' /\ OthersKept(r) /\ pc'[r] = "rejected"
    <3>1. chosen' \in [Req -> Key \union {NoKey}] /\ \A q \in Req \ {r} : chosen'[q] = chosen[q]
      BY <1>9 DEF TypeOK
    <3>2. /\ pc' = [pc EXCEPT ![r] = "rejected"]
          /\ order' \in [Req -> Seq(Key)] /\ at' \in [Req -> Nat]
          /\ attempt' \in [Req -> Nat] /\ seen' \in [Req -> [cas : Nat, starts : Seq(Nat)]]
          /\ \A q \in Req \ {r} : /\ pc'[q] = pc[q] /\ order'[q] = order[q]
                                  /\ at'[q] = at[q] /\ seen'[q] = seen[q]
      BY <1>9, ReturnKept
    <3>. QED BY <1>1, <1>9, <3>1, <3>2 DEF TypeOK, OthersKept
  <2>2. token'[r] <= now'
    BY <1>1 DEF Phase
  <2>. QED BY <1>5, <2>1, <2>2 DEF Phase, Snapshot
<1>. QED BY <1>6, <1>7, <1>8, <1>9 DEF LoadInflight

\* What is initialized has never been in use by a reservation that counts.
LEMMA InitInflightStep ==
  ASSUME IInv, NEW r \in Req, InitInflight(r)
  PROVE  IInv'
<1>. USE DEF IInv
<1>1. pc[r] = "init" /\ now' = now
  BY DEF InitInflight
<1>. SUFFICES ASSUME NEW k \in Key, k = order[r][1]
              PROVE  IInv'
  <2>1. order[r] \in Seq(Key) /\ order[r] # <<>>
    BY <1>1 DEF Phase, TypeOK
  <2>. QED BY <2>1
<1>2. Wrote(k, <<>>)
  BY DEF InitInflight, Write, Wrote, TypeOK
<1>3. k \notin Reliable
  BY <1>1 DEF Phase, Reliable
<1>4. kv' \in [Key -> [cas : Nat, starts : Seq(Nat)]]
  <2>1. kv[k].cas + 1 \in Nat /\ <<>> \in Seq(Nat)
    BY DEF TypeOK
  <2>. QED BY <1>2, <2>1 DEF Wrote, TypeOK
<1>5. \A c, s : ~Owes(r, c, s)
  BY <1>1 DEF Owes, Owns
<1>6. /\ TypeOK' /\ OthersKept(r) /\ Phase(r)' /\ Snapshot(r)'
      /\ \A c : \A s \in Nat : 0 < s => ~Owns(r, c, s)'
  <2>1. CASE FailOpen(r)
    <3>1. pc'[r] = "running" /\ token'[r] = 0
      BY <1>1, <2>1, FailOpenStep
    <3>2. TypeOK' /\ OthersKept(r) /\ Phase(r)' /\ Snapshot(r)'
      BY <1>1, <1>4, <2>1, FailOpenStep DEF TypeOK
    <3>. QED BY <3>1, <3>2 DEF Owns
  <2>2. CASE Again(r, "load")
    <3>1. pc'[r] = "load" /\ OthersKept(r) /\ UNCHANGED <<order, at, chosen, token>>
      BY <2>2, AgainKept
    <3>2. now' \in Nat /\ now' > 0
      BY <1>1 DEF TypeOK
    <3>3. TypeOK'
      BY <1>4, <2>2, <3>2, AgainKept
    <3>4. Phase(r)' /\ Snapshot(r)'
      BY <1>1, <3>1 DEF Phase, Snapshot
    <3>. QED BY <3>1, <3>3, <3>4 DEF Owns
  <2>. QED BY <2>1, <2>2 DEF InitInflight
<1>7. /\ MaxRun[k] > 0 => Len(<<>>) <= MaxRun[k]
      /\ \A s \in Nat : 0 < s => Cardinality(Where(<<>>, s)) <= Cardinality(Charged(k, s)')
      /\ Cardinality(Where(<<>>, 0)) = 0
  BY <1>6, ConstantTypes, WhereEmpty, ChargedStep
<1>8. <<>> \in Seq(Nat)
  OBVIOUS
<1>9. \A c \in Key \ {k} : \A s \in Nat : 0 < s =>
        (Owns(r, c, s)' => Owns(r, c, s)) /\ (Owes(r, c, s) => Owes(r, c, s)')
  BY <1>5, <1>6
<1>. QED BY <1>1, <1>2, <1>3, <1>6, <1>7, <1>8, <1>9, WriteStep

\* Reserve's compare-and-swap.
LEMMA StoreInflightStep ==
  ASSUME IInv, NEW r \in Req, StoreInflight(r)
  PROVE  IInv'
<1>. USE DEF IInv
<1>1. pc[r] = "store" /\ now' = now
  BY DEF StoreInflight
<1>. SUFFICES ASSUME NEW k \in Key, k = order[r][1]
              PROVE  IInv'
  <2>1. order[r] \in Seq(Key) /\ order[r] # <<>>
    BY <1>1 DEF Phase, TypeOK
  <2>. QED BY <2>1
<1>2. \A c, s : ~Owes(r, c, s) /\ ~Owns(r, c, s)
  BY <1>1 DEF Owes, Owns
<1>3. CASE CasHolds(r, k) /\ Write(k, seen[r].starts) /\ Routed(r, k, at[r])
  <2>. DEFINE l == seen[r].starts
              kept == Prune(kv[k].starts, at[r])
  <2>1. kv[k].starts \in Seq(Nat) /\ at[r] \in Nat /\ 0 < at[r] /\ at[r] <= now /\ now \in Nat
    BY <1>1 DEF Phase, TypeOK
  <2>2. l = Append(kept, at[r]) /\ ~Full(k, kept)
    BY <1>1, <1>3 DEF CasHolds, Snapshot, Appended
  <2>3. /\ kept \in Seq(Nat)
        /\ \A s \in Nat : Cardinality(Where(kept, s)) =
             IF at[r] - s < MaxAge THEN Cardinality(Where(kv[k].starts, s)) ELSE 0
    BY <2>1, PruneKeepsYoung
  <2>. HIDE DEF kept
  <2>4. l \in Seq(Nat) /\ Len(l) = Len(kept) + 1
    BY <2>1, <2>2, <2>3
  <2>5. \A s \in Nat : Cardinality(Where(l, s)) =
          IF at[r] = s THEN Cardinality(Where(kept, s)) + 1 ELSE Cardinality(Where(kept, s))
    BY <2>1, <2>2, <2>3, WhereAppend
  <2>. HIDE DEF l
  <2>6. Wrote(k, l)
    BY <1>3 DEF Write, Wrote, l, TypeOK
  <2>7. /\ pc'[r] = "running" /\ chosen'[r] = k /\ token'[r] = at[r]
        /\ TypeOK' /\ OthersKept(r)
    <3>1. Return(r, "running") /\ chosen' = [chosen EXCEPT ![r] = k] /\ token' = [token EXCEPT ![r] = at[r]]
      BY <1>3 DEF Routed
    <3>2. kv' \in [Key -> [cas : Nat, starts : Seq(Nat)]]
      <4>1. kv[k].cas + 1 \in Nat
        BY DEF TypeOK
      <4>. QED BY <2>4, <2>6, <4>1 DEF Wrote, TypeOK
    <3>3. /\ pc' = [pc EXCEPT ![r] = "running"]
          /\ order' \in [Req -> Seq(Key)] /\ at' \in [Req -> Nat]
          /\ attempt' \in [Req -> Nat] /\ seen' \in [Req -> [cas : Nat, starts : Seq(Nat)]]
          /\ \A q \in Req \ {r} : /\ pc'[q] = pc[q] /\ order'[q] = order[q]
                                  /\ at'[q] = at[q] /\ seen'[q] = seen[q]
      BY <3>1, ReturnKept
    <3>. QED BY <1>1, <2>1, <3>1, <3>2, <3>3 DEF TypeOK, OthersKept
  <2>8. Phase(r)' /\ Snapshot(r)'
    BY <1>1, <2>1, <2>7 DEF Phase, Snapshot
  <2>9. MaxRun[k] > 0 => Len(l) <= MaxRun[k]
    BY <2>2, <2>3, <2>4, ConstantTypes, SMTT(30) DEF Full
  <2>10. \A c, s : Owns(r, c, s)' <=> c = k /\ s = at[r]
    BY <2>7 DEF Owns
  <2>11. ASSUME k \in Reliable, NEW s \in Nat, 0 < s, s <= now, now - s < MaxAge
         PROVE  Cardinality(Owners(k, s)') <= Cardinality(Where(l, s))
    <3>1. /\ Cardinality(Owners(k, s)) <= Cardinality(Where(kv[k].starts, s))
          /\ Cardinality(Where(kv[k].starts, s)) \in Nat
      BY <2>1, <2>11, WhereFinite DEF OwnersListed
    <3>2. at[r] - s < MaxAge
      BY <2>1, <2>11, ConstantTypes
    <3>3. Cardinality(Where(l, s)) =
            IF at[r] = s THEN Cardinality(Where(kv[k].starts, s)) + 1
            ELSE Cardinality(Where(kv[k].starts, s))
      BY <2>3, <2>5, <2>11, <3>2
    <3>4. /\ Cardinality(Owners(k, s)) \in Nat
          /\ Cardinality(Owners(k, s)') =
               Cardinality(Owners(k, s)) + (IF Owns(r, k, s)' THEN 1 ELSE 0)
                                         - (IF Owns(r, k, s) THEN 1 ELSE 0)
      BY <2>7, OwnersStep
    <3>. QED BY <1>2, <2>10, <3>1, <3>3, <3>4
  <2>12. ASSUME NEW s \in Nat, 0 < s
         PROVE  Cardinality(Where(l, s)) <= Cardinality(Charged(k, s)')
    <3>1. /\ Cardinality(Where(kv[k].starts, s)) <= Cardinality(Charged(k, s))
          /\ Cardinality(Where(kv[k].starts, s)) \in Nat
      BY <2>1, <2>12, WhereFinite DEF EntriesOwned
    <3>2. /\ Cardinality(Where(kept, s)) \in Nat
          /\ Cardinality(Where(kept, s)) <= Cardinality(Where(kv[k].starts, s))
      BY <2>3, <2>12, <3>1
    <3>3. Cardinality(Where(l, s)) = Cardinality(Where(kept, s)) + IF at[r] = s THEN 1 ELSE 0
      BY <2>5, <2>12, <3>2
    <3>4. /\ Cardinality(Charged(k, s)) \in Nat
          /\ Cardinality(Charged(k, s)') =
               Cardinality(Charged(k, s)) + (IF Owes(r, k, s)' THEN 1 ELSE 0)
                                          - (IF Owes(r, k, s) THEN 1 ELSE 0)
      BY <2>7, ChargedStep
    <3>5. Owes(r, k, s)' <=> s = at[r]
      BY <2>7, <2>10 DEF Owes
    <3>. QED BY <1>2, <3>1, <3>2, <3>3, <3>4, <3>5
  <2>13. Cardinality(Where(l, 0)) = 0
    <3>1. Cardinality(Where(kept, 0)) = 0
      BY <2>3 DEF NoneAtZero
    <3>. QED BY <2>1, <2>5, <3>1
  <2>. QED BY <1>1, <1>2, <2>4, <2>6, <2>7, <2>8, <2>9, <2>10, <2>11, <2>12, <2>13, WriteStep
<1>4. CASE kv' = kv /\ FailOpen(r)
  BY <1>1, <1>4, FailOpenStep
<1>5. CASE kv' = kv /\ Again(r, "load")
  <2>1. pc'[r] = "load" /\ OthersKept(r) /\ UNCHANGED <<order, at, chosen, token>>
    BY <1>5, AgainKept
  <2>2. TypeOK'
    <3>1. now' \in Nat /\ now' > 0 /\ kv' \in [Key -> [cas : Nat, starts : Seq(Nat)]]
      BY <1>1, <1>5 DEF TypeOK
    <3>. QED BY <1>5, <3>1, AgainKept
  <2>3. Phase(r)' /\ Snapshot(r)'
    BY <1>1, <2>1 DEF Phase, Snapshot
  <2>4. \A c, s : ~Owns(r, c, s)'
    BY <2>1 DEF Owns
  <2>. QED BY <1>1, <1>2, <1>5, <2>1, <2>2, <2>3, <2>4, ReadStep
<1>. QED BY <1>3, <1>4, <1>5 DEF StoreInflight

-----------------------------------------------------------------------------
\* A step of r that returns and writes nothing, and after which r owns nothing.
LEMMA QuitStep ==
  ASSUME IInv, NEW r \in Req, NEW label \in {"done", "leaked"}, Return(r, label),
         UNCHANGED <<now, kv, chosen, token>>,
         \A s \in Nat : \A k \in Key : 0 < s /\ Owes(r, k, s) =>
           label = "leaked" \/ Cardinality(Where(kv[k].starts, s)) = 0
  PROVE  IInv'
<1>. USE DEF IInv
<1>1. TypeOK' /\ OthersKept(r) /\ pc'[r] = label
  <2>1. /\ pc' = [pc EXCEPT ![r] = label]
        /\ order' \in [Req -> Seq(Key)] /\ at' \in [Req -> Nat]
        /\ attempt' \in [Req -> Nat] /\ seen' \in [Req -> [cas : Nat, starts : Seq(Nat)]]
        /\ \A q \in Req \ {r} : /\ pc'[q] = pc[q] /\ order'[q] = order[q]
                                /\ at'[q] = at[q] /\ seen'[q] = seen[q]
    BY ReturnKept
  <2>. QED BY <2>1 DEF TypeOK, OthersKept
<1>2. Phase(r)' /\ Snapshot(r)'
  BY <1>1 DEF Phase, Snapshot
<1>3. \A k, s : ~Owns(r, k, s)'
  BY <1>1 DEF Owns
<1>4. label = "leaked" => \A k, s : Owes(r, k, s) => Owes(r, k, s)'
  BY <1>1 DEF Owes, Owns
<1>. QED BY <1>1, <1>2, <1>3, <1>4, ReadStep

LEMMA StreamDoneStep ==
  ASSUME IInv, NEW r \in Req, StreamDone(r)
  PROVE  IInv'
<1>. USE DEF IInv
<1>1. pc[r] = "running" /\ UNCHANGED <<now, kv, chosen, token>>
  BY DEF StreamDone
<1>2. CASE token[r] = 0 /\ Return(r, "done")
  <2>1. \A s \in Nat : \A k \in Key : 0 < s => ~Owes(r, k, s)
    BY <1>1, <1>2 DEF Owes, Owns
  <2>. QED BY <1>1, <1>2, <2>1, QuitStep
<1>3. CASE /\ token[r] # 0 /\ Goto(r, "doneLoad") /\ at' = [at EXCEPT ![r] = now]
           /\ UNCHANGED <<order, attempt, seen>>
  <2>1. pc' = [pc EXCEPT ![r] = "doneLoad"] /\ pc'[r] = "doneLoad" /\ at'[r] = now
    BY <1>3 DEF Goto, TypeOK
  <2>2. TypeOK' /\ OthersKept(r)
    BY <1>1, <1>3, <2>1 DEF TypeOK, OthersKept
  <2>3. Phase(r)' /\ Snapshot(r)'
    <3>1. token[r] > 0 /\ chosen[r] \in Key
      BY <1>1, <1>3 DEF Phase, TypeOK
    <3>. QED BY <1>1, <2>1, <3>1 DEF Phase, Snapshot, TypeOK
  <2>4. \A k, s : (Owns(r, k, s)' <=> Owns(r, k, s)) /\ (Owes(r, k, s) => Owes(r, k, s)')
    BY <1>1, <2>1 DEF Owns, Owes
  <2>. QED BY <1>1, <2>2, <2>3, <2>4, ReadStep
<1>. QED BY <1>2, <1>3 DEF StreamDone

LEMMA DoneLoadStep ==
  ASSUME IInv, NEW r \in Req, DoneLoad(r)
  PROVE  IInv'
<1>. USE DEF IInv
<1>1. pc[r] = "doneLoad" /\ UNCHANGED <<now, kv, chosen, token>>
  BY DEF DoneLoad
<1>. SUFFICES ASSUME NEW k \in Key, k = chosen[r]
              PROVE  IInv'
  BY <1>1 DEF Phase
<1>. DEFINE pruned == Prune(kv[k].starts, at[r])
            kept   == RemoveFirst(pruned, token[r])
<1>2. /\ kv[k].starts \in Seq(Nat) /\ kv[k].cas \in Nat /\ at[r] \in Nat /\ token[r] \in Nat
      /\ 0 < at[r] /\ at[r] <= now /\ 0 < token[r] /\ chosen[r] \in Key
  BY <1>1 DEF Phase, TypeOK
<1>3. /\ pruned \in Seq(Nat)
      /\ \A s \in Nat : Cardinality(Where(pruned, s)) =
           IF at[r] - s < MaxAge THEN Cardinality(Where(kv[k].starts, s)) ELSE 0
  BY <1>2, PruneKeepsYoung
<1>. HIDE DEF pruned
<1>4. /\ kept \in Seq(Nat)
      /\ Cardinality(Where(kept, token[r])) =
           IF Cardinality(Where(pruned, token[r])) > 0
             THEN Cardinality(Where(pruned, token[r])) - 1
             ELSE Cardinality(Where(pruned, token[r]))
  BY <1>2, <1>3, RemoveFirstTakesOne
<1>5. \A c, s : Owes(r, c, s) => c = k /\ s = token[r]
  BY <1>1 DEF Owes, Owns
<1>6. CASE kept = kv[k].starts /\ Return(r, "done")
  <2>1. Cardinality(Where(kv[k].starts, token[r])) = 0
    <3>1. /\ Cardinality(Where(pruned, token[r])) \in Nat
          /\ Cardinality(Where(kv[k].starts, token[r])) \in Nat
      BY <1>2, <1>3, WhereFinite
    <3>2. \/ Cardinality(Where(pruned, token[r])) = Cardinality(Where(kv[k].starts, token[r]))
          \/ Cardinality(Where(pruned, token[r])) = 0
      BY <1>2, <1>3
    <3>. HIDE DEF kept
    <3>. QED BY <1>4, <1>6, <3>1, <3>2
  <2>. QED BY <1>1, <1>5, <1>6, <2>1, QuitStep
<1>7. CASE /\ seen' = [seen EXCEPT ![r] = [cas |-> kv[k].cas, starts |-> kept]]
           /\ Goto(r, "doneStore") /\ UNCHANGED <<order, at, attempt>>
  <2>1. [cas |-> kv[k].cas, starts |-> kept] \in [cas : Nat, starts : Seq(Nat)]
    BY <1>2, <1>4
  <2>. HIDE DEF kept
  <2>2. pc' = [pc EXCEPT ![r] = "doneStore"]
    BY <1>7 DEF Goto
  <2>3. TypeOK' /\ OthersKept(r)
    BY <1>1, <1>7, <2>1, <2>2 DEF TypeOK, OthersKept
  <2>4. /\ pc'[r] = "doneStore" /\ seen'[r] = [cas |-> kv[k].cas, starts |-> kept]
        /\ at'[r] = at[r] /\ order'[r] = order[r]
    BY <1>7, <2>2 DEF TypeOK
  <2>5. Phase(r)'
    BY <1>1, <1>2, <2>4 DEF Phase
  <2>6. Snapshot(r)'
    BY <1>1, <1>2, <2>4 DEF Snapshot, Removed, kept, pruned
  <2>7. \A c, s : (Owns(r, c, s)' <=> Owns(r, c, s)) /\ (Owes(r, c, s) => Owes(r, c, s)')
    BY <1>1, <2>4 DEF Owns, Owes
  <2>. QED BY <1>1, <2>3, <2>5, <2>6, <2>7, ReadStep
<1>. QED BY <1>6, <1>7 DEF DoneLoad, pruned

\* removeInflight's compare-and-swap.
LEMMA DoneStoreStep ==
  ASSUME IInv, NEW r \in Req, DoneStore(r)
  PROVE  IInv'
<1>. USE DEF IInv
<1>1. pc[r] = "doneStore" /\ now' = now
  BY DEF DoneStore
<1>. SUFFICES ASSUME NEW k \in Key, k = chosen[r]
              PROVE  IInv'
  BY <1>1 DEF Phase
<1>2. /\ kv[k].starts \in Seq(Nat) /\ kv[k].cas \in Nat /\ at[r] \in Nat /\ token[r] \in Nat
      /\ 0 < at[r] /\ at[r] <= now /\ 0 < token[r] /\ chosen[r] \in Key /\ now \in Nat
  BY <1>1 DEF Phase, TypeOK
<1>3. \A c, s : Owns(r, c, s) <=> c = k /\ s = token[r]
  BY <1>1 DEF Owns
<1>4. CASE CasHolds(r, k) /\ Write(k, seen[r].starts) /\ Return(r, "done") /\ UNCHANGED <<chosen, token>>
  <2>. DEFINE l == seen[r].starts
              pruned == Prune(kv[k].starts, at[r])
  <2>1. l = RemoveFirst(pruned, token[r])
    BY <1>1, <1>4 DEF CasHolds, Snapshot, Removed
  <2>2. /\ pruned \in Seq(Nat) /\ Len(pruned) <= Len(kv[k].starts)
        /\ \A s \in Nat : Cardinality(Where(pruned, s)) =
             IF at[r] - s < MaxAge THEN Cardinality(Where(kv[k].starts, s)) ELSE 0
    BY <1>2, PruneKeepsYoung
  <2>. HIDE DEF pruned
  <2>3. /\ l \in Seq(Nat) /\ Len(l) <= Len(pruned)
        /\ \A s \in Nat : Cardinality(Where(l, s)) =
             IF s = token[r] /\ Cardinality(Where(pruned, token[r])) > 0
               THEN Cardinality(Where(pruned, token[r])) - 1
               ELSE Cardinality(Where(pruned, s))
    <3>1. token[r] \in Nat
      BY <1>2
    <3>2. /\ RemoveFirst(pruned, token[r]) \in Seq(Nat)
          /\ Len(RemoveFirst(pruned, token[r])) <= Len(pruned)
          /\ \A s \in Nat : Cardinality(Where(RemoveFirst(pruned, token[r]), s)) =
               IF s = token[r] /\ Cardinality(Where(pruned, token[r])) > 0
                 THEN Cardinality(Where(pruned, token[r])) - 1
                 ELSE Cardinality(Where(pruned, s))
      BY <2>2, <3>1, RemoveFirstTakesOne
    <3>. HIDE DEF l
    <3>. QED BY <2>1, <3>2
  <2>. HIDE DEF l
  <2>4. Wrote(k, l)
    BY <1>4 DEF Write, Wrote, l, TypeOK
  <2>5. pc'[r] = "done" /\ TypeOK' /\ OthersKept(r)
    <3>1. kv' \in [Key -> [cas : Nat, starts : Seq(Nat)]]
      <4>1. kv[k].cas + 1 \in Nat
        BY <1>2
      <4>. QED BY <2>3, <2>4, <4>1 DEF Wrote, TypeOK
    <3>2. /\ pc' = [pc EXCEPT ![r] = "done"]
          /\ order' \in [Req -> Seq(Key)] /\ at' \in [Req -> Nat]
          /\ attempt' \in [Req -> Nat] /\ seen' \in [Req -> [cas : Nat, starts : Seq(Nat)]]
          /\ \A q \in Req \ {r} : /\ pc'[q] = pc[q] /\ order'[q] = order[q]
                                  /\ at'[q] = at[q] /\ seen'[q] = seen[q]
      BY <1>4, ReturnKept
    <3>. QED BY <1>1, <1>4, <3>1, <3>2 DEF TypeOK, OthersKept
  <2>6. Phase(r)' /\ Snapshot(r)'
    <3>1. token'[r] <= now'
      BY <1>1, <1>4 DEF Phase
    <3>. QED BY <2>5, <3>1 DEF Phase, Snapshot
  <2>7. \A c, s : ~Owns(r, c, s)' /\ ~Owes(r, c, s)'
    BY <2>5 DEF Owns, Owes
  <2>8. \A c, s : Owes(r, c, s) <=> c = k /\ s = token[r]
    BY <1>1, <1>3 DEF Owes
  <2>9. MaxRun[k] > 0 => Len(l) <= MaxRun[k]
    <3>1. Len(l) \in Nat /\ Len(pruned) \in Nat /\ Len(kv[k].starts) \in Nat /\ MaxRun[k] \in Nat
      BY <1>2, <2>2, <2>3, ConstantTypes, LenProperties
    <3>2. MaxRun[k] > 0 => Len(kv[k].starts) <= MaxRun[k]
      BY DEF ListsCapped
    <3>. QED BY <2>2, <2>3, <3>1, <3>2
  <2>10. ASSUME NEW s \in Nat
         PROVE  /\ Cardinality(Where(kv[k].starts, s)) \in Nat
                /\ Cardinality(Where(pruned, s)) \in Nat
                /\ Cardinality(Where(l, s)) =
                     IF s = token[r] /\ Cardinality(Where(pruned, s)) > 0
                       THEN Cardinality(Where(pruned, s)) - 1
                       ELSE Cardinality(Where(pruned, s))
    BY <1>2, <2>2, <2>3, <2>10, WhereFinite
  <2>11. ASSUME k \in Reliable, NEW s \in Nat, 0 < s, s <= now, now - s < MaxAge
         PROVE  Cardinality(Owners(k, s)') <= Cardinality(Where(l, s))
    <3>1. Cardinality(Owners(k, s)) <= Cardinality(Where(kv[k].starts, s))
      BY <2>11 DEF OwnersListed
    <3>2. at[r] - s < MaxAge
      BY <1>2, <2>11, ConstantTypes
    <3>3. Cardinality(Where(pruned, s)) = Cardinality(Where(kv[k].starts, s))
      BY <2>2, <2>11, <3>2
    <3>4. /\ Cardinality(Owners(k, s)) \in Nat /\ Cardinality(Owners(k, s)') \in Nat
          /\ Cardinality(Owners(k, s)') =
               Cardinality(Owners(k, s)) + (IF Owns(r, k, s)' THEN 1 ELSE 0)
                                         - (IF Owns(r, k, s) THEN 1 ELSE 0)
      BY <2>5, OwnersStep
    <3>5. Cardinality(Owners(k, s)') = Cardinality(Owners(k, s)) - (IF s = token[r] THEN 1 ELSE 0)
      BY <1>3, <2>7, <3>4
    <3>. QED BY <2>10, <2>11, <3>1, <3>3, <3>4, <3>5
  <2>12. ASSUME NEW s \in Nat, 0 < s
         PROVE  Cardinality(Where(l, s)) <= Cardinality(Charged(k, s)')
    <3>1. Cardinality(Where(kv[k].starts, s)) <= Cardinality(Charged(k, s))
      BY <2>12 DEF EntriesOwned
    <3>2. Cardinality(Where(pruned, s)) <= Cardinality(Where(kv[k].starts, s))
      <4>1. \/ Cardinality(Where(pruned, s)) = Cardinality(Where(kv[k].starts, s))
            \/ Cardinality(Where(pruned, s)) = 0
        BY <2>2, <2>12
      <4>2. Cardinality(Where(kv[k].starts, s)) \in Nat
        BY <2>10, <2>12
      <4>. QED BY <4>1, <4>2
    <3>3. /\ Cardinality(Charged(k, s)) \in Nat /\ Cardinality(Charged(k, s)') \in Nat
          /\ Cardinality(Charged(k, s)') =
               Cardinality(Charged(k, s)) + (IF Owes(r, k, s)' THEN 1 ELSE 0)
                                          - (IF Owes(r, k, s) THEN 1 ELSE 0)
      BY <2>5, ChargedStep
    <3>4. Cardinality(Charged(k, s)') = Cardinality(Charged(k, s)) - (IF s = token[r] THEN 1 ELSE 0)
      BY <2>7, <2>8, <3>3
    <3>. QED BY <2>10, <2>12, <3>1, <3>2, <3>3, <3>4
  <2>13. \A c \in Key \ {k} : \A s \in Nat : 0 < s =>
           (Owns(r, c, s)' => Owns(r, c, s)) /\ (Owes(r, c, s) => Owes(r, c, s)')
    BY <2>7, <2>8
  <2>14. Cardinality(Where(l, 0)) = 0
    <3>1. Cardinality(Where(pruned, 0)) = 0
      BY <2>2 DEF NoneAtZero
    <3>. QED BY <1>2, <2>10, <3>1
  <2>. QED BY <1>1, <2>3, <2>4, <2>5, <2>6, <2>9, <2>11, <2>12, <2>13, <2>14, WriteStep
<1>5. CASE kv' = kv /\ Return(r, "leaked") /\ UNCHANGED <<chosen, token>>
  BY <1>1, <1>5, QuitStep
<1>6. CASE kv' = kv /\ Again(r, "doneLoad")
  <2>1. pc'[r] = "doneLoad" /\ OthersKept(r) /\ UNCHANGED <<order, at, chosen, token>>
    BY <1>6, AgainKept
  <2>2. TypeOK'
    <3>1. now' \in Nat /\ now' > 0 /\ kv' \in [Key -> [cas : Nat, starts : Seq(Nat)]]
      BY <1>1, <1>6 DEF TypeOK
    <3>. QED BY <1>6, <3>1, AgainKept
  <2>3. Phase(r)' /\ Snapshot(r)'
    BY <1>1, <1>2, <2>1 DEF Phase, Snapshot
  <2>4. \A c, s : (Owns(r, c, s)' <=> Owns(r, c, s)) /\ (Owes(r, c, s) => Owes(r, c, s)')
    BY <1>1, <2>1 DEF Owns, Owes
  <2>. QED BY <1>1, <1>6, <2>1, <2>2, <2>3, <2>4, ReadStep
<1>. QED BY <1>4, <1>5, <1>6 DEF DoneStore

\* A refusal concerns keys that nothing is promised about, or charges the request.
LEMMA HostRefusesStep ==
  ASSUME IInv, NEW r \in Req, HostRefuses(r)
  PROVE  IInv'
<1>. USE DEF IInv
<1>. USE DEF StoreRefused, RemovalRefused
<1>1. UNCHANGED <<now, kv>>
  BY DEF HostRefuses
<1>2. CASE pc[r] \in {"load", "init"} /\ FailOpen(r)
  BY <1>1, <1>2, FailOpenStep
<1>3. CASE pc[r] = "store" /\ order[r][1] \in Faulty /\ Routed(r, order[r][1], at[r])
  <2>1. /\ order[r][1] \in Key /\ order[r][1] \notin Reliable
        /\ at[r] \in Nat /\ 0 < at[r] /\ at[r] <= now
    BY <1>3, ConstantTypes DEF Phase, TypeOK, Reliable
  <2>2. /\ Return(r, "running") /\ chosen' = [chosen EXCEPT ![r] = order[r][1]]
        /\ token' = [token EXCEPT ![r] = at[r]]
    BY <1>3 DEF Routed
  <2>3. TypeOK' /\ OthersKept(r) /\ pc'[r] = "running" /\ chosen'[r] = order[r][1]
    <3>1. /\ pc' = [pc EXCEPT ![r] = "running"]
          /\ order' \in [Req -> Seq(Key)] /\ at' \in [Req -> Nat]
          /\ attempt' \in [Req -> Nat] /\ seen' \in [Req -> [cas : Nat, starts : Seq(Nat)]]
          /\ \A q \in Req \ {r} : /\ pc'[q] = pc[q] /\ order'[q] = order[q]
                                  /\ at'[q] = at[q] /\ seen'[q] = seen[q]
      BY <2>2, ReturnKept
    <3>. QED BY <1>1, <2>1, <2>2, <3>1 DEF TypeOK, OthersKept
  <2>4. Phase(r)' /\ Snapshot(r)'
    <3>1. token'[r] = at[r] /\ now' = now
      BY <1>1, <2>2 DEF TypeOK
    <3>. QED BY <2>1, <2>3, <3>1 DEF Phase, Snapshot
  <2>5. \A k \in Reliable : \A s : ~Owns(r, k, s)'
    BY <2>1, <2>3 DEF Owns
  <2>6. \A k, s : ~Owes(r, k, s)
    BY <1>3 DEF Owes, Owns
  <2>. QED BY <1>1, <2>3, <2>4, <2>5, <2>6, ReadStep
<1>4. CASE pc[r] \in {"doneLoad", "doneStore"} /\ Return(r, "leaked") /\ UNCHANGED <<chosen, token>>
  BY <1>1, <1>4, QuitStep
<1>. QED BY <1>2, <1>3, <1>4 DEF HostRefuses

\* An entry may age out, never become young again; nobody reserved at the new instant.
LEMMA TickStep ==
  ASSUME IInv, Tick
  PROVE  IInv'
<1>. USE DEF IInv
<1>1. now' = now + 1 /\ UNCHANGED <<kv, pc, order, at, attempt, seen, chosen, token>>
  BY DEF Tick, local
<1>2. TypeOK'
  BY <1>1 DEF TypeOK
<1>3. \A r \in Req : Phase(r)' /\ Snapshot(r)'
  <2>. SUFFICES ASSUME NEW r \in Req PROVE Phase(r)' /\ Snapshot(r)'
    OBVIOUS
  <2>1. Phase(r)'
    BY <1>1 DEF Phase, TypeOK
  <2>2. Snapshot(r)'
    BY <1>1 DEF Snapshot, Appended, Removed
  <2>. QED BY <2>1, <2>2
<1>4. Initialized' /\ ListsCapped' /\ NoneAtZero'
  BY <1>1 DEF Initialized, ListsCapped, NoneAtZero
<1>5. \A k, s : Owners(k, s)' = Owners(k, s) /\ Charged(k, s)' = Charged(k, s)
  BY <1>1 DEF Owners, Charged, Owes, Owns
<1>6. EntriesOwned'
  BY <1>1, <1>5 DEF EntriesOwned
<1>7. OwnersListed'
  <2>. SUFFICES ASSUME NEW k \in Reliable, NEW s \in Nat, 0 < s, s <= now', now' - s < MaxAge
                PROVE  Cardinality(Owners(k, s)) <= Cardinality(Where(kv[k].starts, s))
    BY <1>1, <1>5 DEF OwnersListed
  <2>1. CASE s <= now
    BY <1>1, <2>1, ConstantTypes DEF OwnersListed, TypeOK
  <2>2. CASE s = now + 1
    <3>1. Owners(k, s) = {}
      BY <2>2 DEF Owners, Owns, Phase, TypeOK
    <3>2. Cardinality(Where(kv[k].starts, s)) \in Nat
      BY WhereFinite, ConstantTypes DEF TypeOK, Reliable
    <3>. QED BY <3>1, <3>2, FS_EmptySet
  <2>. QED BY <1>1, <2>1, <2>2 DEF TypeOK
<1>. QED BY <1>2, <1>3, <1>4, <1>6, <1>7

-----------------------------------------------------------------------------
LEMMA NextIInv == IInv /\ [Next]_vars => IInv'
<1>. SUFFICES ASSUME IInv, [Next]_vars PROVE IInv'
  OBVIOUS
<1>1. ASSUME NEW r \in Req,
             \/ Reserve(r) \/ LoadInflight(r) \/ InitInflight(r) \/ StoreInflight(r)
             \/ StreamDone(r) \/ DoneLoad(r) \/ DoneStore(r) \/ HostRefuses(r)
      PROVE  IInv'
  BY <1>1, ReserveStep, LoadInflightStep, InitInflightStep, StoreInflightStep,
     StreamDoneStep, DoneLoadStep, DoneStoreStep, HostRefusesStep
<1>2. CASE Tick
  BY <1>2, TickStep
<1>3. CASE UNCHANGED vars
  <2>1. UNCHANGED <<now, kv, pc, order, at, attempt, seen, chosen, token>>
    BY <1>3 DEF vars, local
  <2>2. TypeOK'
    BY <2>1 DEF IInv, TypeOK
  <2>3. \A r \in Req : Phase(r)' /\ Snapshot(r)'
    BY <2>1 DEF IInv, Phase, Snapshot, Appended, Removed
  <2>4. Initialized' /\ ListsCapped' /\ NoneAtZero'
    BY <2>1 DEF IInv, Initialized, ListsCapped, NoneAtZero
  <2>5. \A k, s : Owners(k, s)' = Owners(k, s) /\ Charged(k, s)' = Charged(k, s)
    BY <2>1 DEF Owners, Charged, Owes, Owns
  <2>6. OwnersListed' /\ EntriesOwned'
    BY <2>1, <2>5 DEF IInv, OwnersListed, EntriesOwned
  <2>. QED BY <2>2, <2>3, <2>4, <2>6 DEF IInv
<1>. QED BY <1>1, <1>2, <1>3 DEF Next, Stopped

LEMMA AlwaysIInv == Spec => []IInv
BY InitIInv, NextIInv, PTL DEF Spec

\* However the workers' reads and writes interleave, the list of a key is what
\* runs on it: no write loses a young entry of an initialized key, and every
\* entry belongs to a request that has not given it back.
THEOREM ListExact == Spec => []EntriesExact
<1>1. IInv => EntriesExact
  <2>. SUFFICES ASSUME IInv PROVE EntriesExact
    OBVIOUS
  <2>. USE DEF IInv
  <2>1. NoEntryLost
    <3>. SUFFICES ASSUME NEW k \in Reliable, NEW s \in Recent
                  PROVE  Cardinality(Holders(k, s)) <= Entries(k, s)
      BY DEF NoEntryLost
    <3>1. s \in Nat /\ 0 < s /\ s <= now /\ now - s < MaxAge
      BY DEF Recent, TypeOK
    <3>2. Cardinality(Owners(k, s)) <= Entries(k, s)
      BY <3>1 DEF OwnersListed, Entries, Where
    <3>3. /\ IsFiniteSet(Owners(k, s)) /\ Holders(k, s) \subseteq Owners(k, s)
      BY ConstantTypes, FS_Subset DEF Owners, Owns, Holders
    <3>4. /\ Cardinality(Holders(k, s)) <= Cardinality(Owners(k, s))
          /\ Cardinality(Holders(k, s)) \in Nat /\ Cardinality(Owners(k, s)) \in Nat
      BY <3>3, FS_Subset, FS_CardinalityType
    <3>5. Entries(k, s) \in Nat
      <4>1. kv[k].starts \in Seq(Nat)
        BY ConstantTypes DEF Reliable, TypeOK
      <4>2. Entries(k, s) = Cardinality(Where(kv[k].starts, s))
        BY DEF Entries, Where
      <4>. QED BY <4>1, <4>2, WhereFinite
    <3>. QED BY <3>2, <3>4, <3>5
  <2>2. NoEntryLeft
    <3>. SUFFICES ASSUME NEW k \in Key, NEW s \in 1..now
                  PROVE  Entries(k, s) <= Cardinality({r \in Req :
                           /\ pc[r] \in {"running", "doneLoad", "doneStore", "leaked"}
                           /\ chosen[r] = k /\ token[r] = s})
      BY DEF NoEntryLeft
    <3>1. Charged(k, s) = {r \in Req :
                           /\ pc[r] \in {"running", "doneLoad", "doneStore", "leaked"}
                           /\ chosen[r] = k /\ token[r] = s}
      BY DEF Charged, Owes, Owns
    <3>2. Cardinality(Where(kv[k].starts, s)) <= Cardinality(Charged(k, s))
      BY DEF EntriesOwned, TypeOK
    <3>. QED BY <3>1, <3>2 DEF Entries, Where
  <2>. QED BY <2>1, <2>2 DEF EntriesExact
<1>. QED BY <1>1, AlwaysIInv, PTL

-----------------------------------------------------------------------------
\* From the counts per start instant to the count of the key, instant by instant.
LEMMA HoldersWithinList ==
  ASSUME IInv, NoEntryLost, NEW k \in Reliable
  PROVE  Cardinality(YoungHolders(k)) <= Len(kv[k].starts)
<1>. DEFINE l == kv[k].starts
            held(n) == UNION {Holders(k, s) : s \in {u \in Recent : u <= n}}
            listed(n) == {i \in DOMAIN l : l[i] \in Recent /\ l[i] <= n}
            Good(n) == Cardinality(held(n)) <= Cardinality(listed(n))
            Bad == {n \in 0..now : ~Good(n)}
<1>1. now \in Nat /\ l \in Seq(Nat) /\ k \in Key
  BY ConstantTypes DEF IInv, TypeOK, Reliable
<1>2. ASSUME NEW n \in 0..now
      PROVE  /\ IsFiniteSet(held(n)) /\ Cardinality(held(n)) \in Nat
             /\ IsFiniteSet(listed(n)) /\ Cardinality(listed(n)) \in Nat
             /\ Cardinality(listed(n)) <= Len(l)
  <2>1. held(n) \subseteq Req
    BY DEF Holders
  <2>2. listed(n) \subseteq 1..Len(l) /\ IsFiniteSet(1..Len(l)) /\ Cardinality(1..Len(l)) = Len(l)
    BY <1>1, FS_Interval
  <2>. HIDE DEF held, listed
  <2>. QED BY <2>1, <2>2, ConstantTypes, FS_Subset, FS_CardinalityType
<1>3. Good(0)
  <2>1. held(0) = {}
    BY DEF Recent
  <2>2. Cardinality(held(0)) = 0
    BY <2>1, FS_EmptySet
  <2>3. 0 \in 0..now
    BY <1>1
  <2>. HIDE DEF held, listed
  <2>. QED BY <1>2, <2>2, <2>3
<1>4. ASSUME NEW n \in 1..now, Good(n - 1)
      PROVE  Good(n)
  <2>0. n \in 0..now /\ n - 1 \in 0..now
    BY <1>1
  <2>1. CASE n \in Recent
    <3>1. held(n) = held(n - 1) \union Holders(k, n)
      <4>1. {u \in Recent : u <= n} = {u \in Recent : u <= n - 1} \union {n}
        BY <1>1, <2>1 DEF Recent
      <4>. QED BY <4>1
    <3>2. /\ listed(n) = listed(n - 1) \union Where(l, n)
          /\ listed(n - 1) \intersect Where(l, n) = {}
      BY <1>1, <2>1 DEF Where, Recent
    <3>3. IsFiniteSet(Holders(k, n)) /\ Cardinality(Holders(k, n)) \in Nat
      BY ConstantTypes, FS_Subset, FS_CardinalityType DEF Holders
    <3>4. IsFiniteSet(Where(l, n)) /\ Cardinality(Where(l, n)) \in Nat
      BY <1>1, WhereFinite
    <3>5. Cardinality(Holders(k, n)) <= Cardinality(Where(l, n))
      BY <2>1 DEF NoEntryLost, Entries, Where
    <3>. HIDE DEF held, listed
    <3>6. Cardinality(held(n)) <= Cardinality(held(n - 1)) + Cardinality(Holders(k, n))
      <4>1. IsFiniteSet(held(n - 1)) /\ Cardinality(held(n - 1)) \in Nat
        BY <1>2, <2>0
      <4>2. Cardinality(held(n - 1) \intersect Holders(k, n)) \in Nat
        BY <4>1, FS_Intersection, FS_CardinalityType
      <4>. QED BY <3>1, <3>3, <4>1, <4>2, FS_Union
    <3>7. Cardinality(listed(n)) = Cardinality(listed(n - 1)) + Cardinality(Where(l, n))
      <4>1. IsFiniteSet(listed(n - 1)) /\ Cardinality(listed(n - 1)) \in Nat
        BY <1>2, <2>0
      <4>. QED BY <3>2, <3>4, <4>1, FS_Union, FS_EmptySet, SMTT(30)
    <3>8. Cardinality(held(n - 1)) <= Cardinality(listed(n - 1))
      BY <1>4
    <3>9. /\ Cardinality(held(n)) \in Nat /\ Cardinality(held(n - 1)) \in Nat
          /\ Cardinality(listed(n)) \in Nat /\ Cardinality(listed(n - 1)) \in Nat
      BY <1>2, <2>0
    <3>. QED BY <3>3, <3>4, <3>5, <3>6, <3>7, <3>8, <3>9
  <2>2. CASE n \notin Recent
    <3>1. {u \in Recent : u <= n} = {u \in Recent : u <= n - 1}
      BY <1>1, <2>2 DEF Recent
    <3>2. held(n) = held(n - 1)
      BY <3>1
    <3>3. listed(n) = listed(n - 1)
      BY <1>1, <2>2, <3>1 DEF Recent
    <3>. HIDE DEF held, listed
    <3>. QED BY <1>4, <3>2, <3>3
  <2>. QED BY <2>1, <2>2
<1>5. Bad = {}
  <2>. HIDE DEF Good
  <2>. SUFFICES ASSUME Bad # {} PROVE FALSE
    OBVIOUS
  <2>1. PICK m \in Bad : \A n \in Bad : m <= n
    <3>1. Bad \in SUBSET Nat
      BY <1>1
    <3>. HIDE DEF Bad
    <3>. QED BY <3>1, LeastNatural
  <2>2. m # 0
    BY <1>3
  <2>3. m \in 1..now /\ m - 1 \in 0..now /\ m - 1 \notin Bad
    BY <1>1, <2>1, <2>2
  <2>. QED BY <1>4, <2>1, <2>3
<1>6. Good(now) /\ now \in 0..now
  <2>. HIDE DEF Good
  <2>. QED BY <1>1, <1>5
<1>7. held(now) = YoungHolders(k)
  <2>1. {u \in Recent : u <= now} = Recent
    BY <1>1 DEF Recent
  <2>. QED BY <2>1 DEF YoungHolders
<1>8. Len(l) \in Nat
  BY <1>1
<1>. HIDE DEF held, listed, l
<1>. QED BY <1>2, <1>6, <1>7, <1>8 DEF l

\* maxRunningRequests is a hard cap on the requests younger than
\* maxInflightAgeMs that run on a key under a reservation.
THEOREM CapIsHard == Spec => []HardCap
<1>1. IInv /\ EntriesExact => HardCap
  <2>. SUFFICES ASSUME IInv, EntriesExact, NEW k \in Reliable, MaxRun[k] > 0
                PROVE  Cardinality(YoungHolders(k)) <= MaxRun[k]
    BY DEF HardCap
  <2>1. Cardinality(YoungHolders(k)) <= Len(kv[k].starts)
    BY HoldersWithinList DEF EntriesExact
  <2>2. k \in Key /\ Len(kv[k].starts) <= MaxRun[k]
    BY ConstantTypes DEF IInv, ListsCapped, Reliable
  <2>3. Len(kv[k].starts) \in Nat /\ MaxRun[k] \in Nat
    BY <2>2, ConstantTypes DEF IInv, TypeOK
  <2>4. Cardinality(YoungHolders(k)) \in Nat
    <3>1. YoungHolders(k) \subseteq Req
      BY DEF YoungHolders, Holders
    <3>. QED BY <3>1, ConstantTypes, FS_Subset, FS_CardinalityType
  <2>. QED BY <2>1, <2>2, <2>3, <2>4
<1>. QED BY <1>1, AlwaysIInv, ListExact, PTL

\* The same sum the other way: the entries that are young for a clock that says t
\* belong to that many requests.
LEMMA ListWithinHolding ==
  ASSUME IInv, NEW k \in Key, NEW t \in Nat
  PROVE  Cardinality({i \in DOMAIN kv[k].starts : t < kv[k].starts[i] + MaxAge})
           <= Cardinality(Holding(k, t))
<1>. DEFINE l == kv[k].starts
            listed(n) == {i \in DOMAIN l : l[i] <= n /\ t < l[i] + MaxAge}
            held(n) == {q \in Holding(k, t) : token[q] <= n}
            Good(n) == Cardinality(listed(n)) <= Cardinality(held(n))
            Bad == {n \in 0..now : ~Good(n)}
<1>1. /\ now \in Nat /\ l \in Seq(Nat) /\ DOMAIN l = 1..Len(l)
      /\ \A q \in Req : token[q] \in Nat /\ token[q] <= now
  BY DEF IInv, TypeOK, Phase
<1>2. ASSUME NEW n \in 0..now
      PROVE  /\ IsFiniteSet(held(n)) /\ Cardinality(held(n)) \in Nat
             /\ IsFiniteSet(listed(n)) /\ Cardinality(listed(n)) \in Nat
  <2>1. held(n) \subseteq Req
    BY DEF Holding
  <2>2. listed(n) \subseteq 1..Len(l) /\ IsFiniteSet(1..Len(l))
    BY <1>1, FS_Interval
  <2>. HIDE DEF held, listed
  <2>. QED BY <2>1, <2>2, ConstantTypes, FS_Subset, FS_CardinalityType
<1>3. Good(0)
  <2>1. Cardinality(Where(l, 0)) = 0 /\ IsFiniteSet(Where(l, 0))
    BY <1>1, WhereFinite DEF IInv, NoneAtZero
  <2>2. Where(l, 0) = {}
    BY <2>1, FS_EmptySet
  <2>3. listed(0) = {}
    BY <1>1, <2>2, SMTT(30) DEF Where
  <2>4. Cardinality(listed(0)) = 0
    BY <2>3, FS_EmptySet
  <2>5. 0 \in 0..now
    BY <1>1
  <2>. HIDE DEF held, listed
  <2>. QED BY <1>2, <2>4, <2>5
<1>4. ASSUME NEW n \in 1..now, Good(n - 1)
      PROVE  Good(n)
  <2>0. n \in 0..now /\ n - 1 \in 0..now /\ n \in Nat /\ 0 < n
    BY <1>1
  <2>1. CASE t < n + MaxAge
    <3>1. /\ listed(n) = listed(n - 1) \union Where(l, n)
          /\ listed(n - 1) \intersect Where(l, n) = {}
      BY <1>1, <2>0, <2>1, SMTT(30) DEF Where
    <3>2. /\ held(n) = held(n - 1) \union Charged(k, n)
          /\ held(n - 1) \intersect Charged(k, n) = {}
      BY <1>1, <2>0, <2>1, SMTT(30) DEF Holding, Charged, Owes, Owns
    <3>3. IsFiniteSet(Charged(k, n)) /\ Cardinality(Charged(k, n)) \in Nat
      BY ConstantTypes, FS_Subset, FS_CardinalityType DEF Charged
    <3>4. IsFiniteSet(Where(l, n)) /\ Cardinality(Where(l, n)) \in Nat
      BY <1>1, <2>0, WhereFinite
    <3>5. Cardinality(Where(l, n)) <= Cardinality(Charged(k, n))
      BY <2>0 DEF IInv, EntriesOwned
    <3>. HIDE DEF held, listed, l
    <3>6. Cardinality(held(n)) = Cardinality(held(n - 1)) + Cardinality(Charged(k, n))
      <4>1. IsFiniteSet(held(n - 1)) /\ Cardinality(held(n - 1)) \in Nat
        BY <1>2, <2>0
      <4>. QED BY <3>2, <3>3, <4>1, FS_Union, FS_EmptySet, SMTT(30)
    <3>7. Cardinality(listed(n)) = Cardinality(listed(n - 1)) + Cardinality(Where(l, n))
      <4>1. IsFiniteSet(listed(n - 1)) /\ Cardinality(listed(n - 1)) \in Nat
        BY <1>2, <2>0
      <4>. QED BY <3>1, <3>4, <4>1, FS_Union, FS_EmptySet, SMTT(30)
    <3>8. Cardinality(listed(n - 1)) <= Cardinality(held(n - 1))
      BY <1>4
    <3>9. Cardinality(held(n - 1)) \in Nat /\ Cardinality(listed(n - 1)) \in Nat
      BY <1>2, <2>0
    <3>. QED BY <3>3, <3>4, <3>5, <3>6, <3>7, <3>8, <3>9
  <2>2. CASE ~(t < n + MaxAge)
    <3>1. listed(n) = listed(n - 1)
      BY <1>1, <2>0, <2>2, SMTT(30)
    <3>2. held(n) = held(n - 1)
      BY <1>1, <2>0, <2>2, SMTT(30) DEF Holding
    <3>. HIDE DEF held, listed
    <3>. QED BY <1>4, <3>1, <3>2
  <2>. QED BY <2>1, <2>2
<1>5. Bad = {}
  <2>. HIDE DEF Good
  <2>. SUFFICES ASSUME Bad # {} PROVE FALSE
    OBVIOUS
  <2>1. PICK m \in Bad : \A n \in Bad : m <= n
    <3>1. Bad \in SUBSET Nat
      BY <1>1
    <3>. HIDE DEF Bad
    <3>. QED BY <3>1, LeastNatural
  <2>2. m # 0
    BY <1>3
  <2>3. m \in 1..now /\ m - 1 \in 0..now /\ m - 1 \notin Bad
    BY <1>1, <2>1, <2>2
  <2>. QED BY <1>4, <2>1, <2>3
<1>6. Good(now)
  <2>. HIDE DEF Good
  <2>. QED BY <1>1, <1>5
<1>7. held(now) = Holding(k, t)
  BY <1>1 DEF Holding
<1>8. listed(now) = {i \in DOMAIN l : t < l[i] + MaxAge}
  <2>. SUFFICES ASSUME NEW i \in DOMAIN l PROVE l[i] <= now
    OBVIOUS
  <2>1. l[i] \in Nat
    BY <1>1
  <2>2. CASE l[i] > now
    <3>1. Charged(k, l[i]) = {}
      BY <1>1, <2>1, <2>2 DEF Charged, Owes, Owns
    <3>2. Cardinality(Where(l, l[i])) <= 0
      <4>1. 0 < l[i]
        BY <1>1, <2>1, <2>2
      <4>2. Cardinality(Where(l, l[i])) <= Cardinality(Charged(k, l[i]))
        BY <2>1, <4>1 DEF IInv, EntriesOwned
      <4>. QED BY <3>1, <4>2, FS_EmptySet
    <3>3. IsFiniteSet(Where(l, l[i])) /\ Cardinality(Where(l, l[i])) \in Nat
      BY <1>1, <2>1, WhereFinite
    <3>4. i \in Where(l, l[i])
      BY DEF Where
    <3>. HIDE DEF l
    <3>5. Cardinality(Where(l, l[i])) = 0
      BY <3>2, <3>3
    <3>. QED BY <3>3, <3>4, <3>5, FS_EmptySet
  <2>. QED BY <1>1, <2>1, <2>2
<1>. QED BY <1>6, <1>7, <1>8

\* A request passes a key over as full, or is refused, only while maxRun other
\* requests weigh on it, whatever other workers write, forget and leak, on keys
\* of every kind.
THEOREM FullIsBusy == Spec => FullMeansBusy
<1>. DEFINE Justified(r) ==
              pc[r] = "load" /\ order'[r] # order[r] /\ pc'[r] # "running" =>
                LET k == order[r][1]
                IN MaxRun[k] > 0 /\ Cardinality(Holding(k, at[r])) >= MaxRun[k]
<1>1. IInv /\ [Next]_vars => [\A r \in Req : Justified(r)]_vars
  <2>. SUFFICES ASSUME IInv, Next, NEW r \in Req, pc[r] = "load", order'[r] # order[r],
                       pc'[r] # "running"
                PROVE  /\ MaxRun[order[r][1]] > 0
                       /\ Cardinality(Holding(order[r][1], at[r])) >= MaxRun[order[r][1]]
    OBVIOUS
  <2>1. order \in [Req -> Seq(Key)] /\ order[r] # <<>>
    BY DEF IInv, TypeOK, Phase
  <2>2. LoadInflight(r)
    <3>1. PICK q \in Req :
            \/ Reserve(q) \/ LoadInflight(q) \/ InitInflight(q) \/ StoreInflight(q)
            \/ StreamDone(q) \/ DoneLoad(q) \/ DoneStore(q) \/ HostRefuses(q)
      BY DEF Next, Tick, Stopped, vars, local
    <3>2. q = r
      BY <2>1, <3>1 DEF Reserve, LoadInflight, InitInflight, StoreInflight, StreamDone,
                        DoneLoad, DoneStore, HostRefuses, StoreRefused, RemovalRefused,
                        FailOpen, Routed, Return, Again
    <3>3. ~HostRefuses(r)
      <4>. SUFFICES ASSUME HostRefuses(r) PROVE FALSE
        OBVIOUS
      <4>1. Return(r, "running")
        BY DEF HostRefuses, StoreRefused, RemovalRefused, FailOpen, Routed
      <4>. QED BY <4>1 DEF Return, Goto, IInv, TypeOK
    <3>. QED BY <3>1, <3>2, <3>3 DEF Reserve, InitInflight, StoreInflight, StreamDone,
                                     DoneLoad, DoneStore
  <2>. SUFFICES ASSUME NEW k \in Key, k = order[r][1]
                PROVE  MaxRun[k] > 0 /\ Cardinality(Holding(k, at[r])) >= MaxRun[k]
    BY <2>1
  <2>. DEFINE young == {i \in DOMAIN kv[k].starts : at[r] < kv[k].starts[i] + MaxAge}
  <2>3. Full(k, Prune(kv[k].starts, at[r]))
    BY <2>2 DEF LoadInflight
  <2>4. kv[k].starts \in Seq(Nat) /\ at[r] \in Nat
    BY DEF IInv, TypeOK
  <2>5. young = KeptTo(kv[k].starts, at[r], Len(kv[k].starts))
    <3>1. DOMAIN kv[k].starts = 1..Len(kv[k].starts)
          /\ \A i \in 1..Len(kv[k].starts) : kv[k].starts[i] \in Nat
      BY <2>4, SMTT(30)
    <3>2. \A n \in Nat : at[r] < n + MaxAge <=> at[r] - n < MaxAge
      BY <2>4, ConstantTypes
    <3>. QED BY <3>1, <3>2 DEF KeptTo
  <2>6. MaxRun[k] > 0 /\ Cardinality(young) >= MaxRun[k]
    BY <2>3, <2>4, <2>5, PruneKeepsYoung, ConstantTypes DEF Full
  <2>7. Cardinality(young) <= Cardinality(Holding(k, at[r]))
    BY <2>4, ListWithinHolding
  <2>8. Cardinality(young) \in Nat /\ Cardinality(Holding(k, at[r])) \in Nat /\ MaxRun[k] \in Nat
    <3>1. young \subseteq 1..Len(kv[k].starts) /\ IsFiniteSet(1..Len(kv[k].starts))
      <4>1. DOMAIN kv[k].starts = 1..Len(kv[k].starts) /\ Len(kv[k].starts) \in Nat
        BY <2>4
      <4>. QED BY <4>1, FS_Interval
    <3>2. Holding(k, at[r]) \subseteq Req
      BY DEF Holding
    <3>. HIDE DEF young
    <3>. QED BY <3>1, <3>2, ConstantTypes, FS_Subset, FS_CardinalityType
  <2>. HIDE DEF young
  <2>. QED BY <2>6, <2>7, <2>8
<1>2. FullMeansBusy <=> [][\A r \in Req : Justified(r)]_vars
  BY DEF FullMeansBusy
<1>. QED BY <1>1, <1>2, AlwaysIInv, PTL DEF Spec

-----------------------------------------------------------------------------
(***************************************************************************)
(* The health of the clusters.                                             *)
(***************************************************************************)
LEMMA HealthConstants ==
  /\ IsFiniteSet(Req) /\ Threshold \in Nat /\ Threshold > 0
  /\ Cooldown \in Nat /\ Cooldown > 0 /\ Ramp \in Nat
  /\ CasMaxRetries \in Nat /\ MaxTime \in Nat /\ Primed \subseteq Cluster
BY HealthAssumption

(***************************************************************************)
(* The inductive invariant.  What ties the counter to the failures it      *)
(* stands for is what a hook about to write holds: if nobody has written   *)
(* since it read, the state in the store with its own outcome applied.     *)
(***************************************************************************)
Health == [cas : Nat, f : Nat, e : Nat, r : Nat]

Ended == {"load", "store", "done", "gaveUp", "refused"}

HealthTypeOK ==
  /\ clock \in Nat
  /\ health \in [Cluster -> Health] /\ copy \in [Req -> Health]
  /\ hook \in [Req -> {"idle", "running"} \union Ended]
  /\ cluster \in [Req -> Cluster]
  /\ outcome \in [Req -> {"ok", "fail"}]
  /\ strikes \in [Req -> {1, Threshold}]
  /\ endedAt \in [Req -> Nat] /\ tries \in [Req -> Nat]
  /\ tally \in [Cluster -> SUBSET Req] /\ earlier \in [Req -> SUBSET Req]

After(h, r) == IF outcome[r] = "ok" THEN AfterSuccess(h) ELSE AfterFailure(h, r)

\* A pending write is up to date with what its version stands for.
PendingWrite(r) ==
  hook[r] = "store" =>
    /\ outcome[r] = "ok" => copy[r].f = 0
    /\ cluster[r] \in Primed =>
         /\ 0 < copy[r].cas /\ copy[r].cas <= health[cluster[r]].cas
         /\ copy[r].cas = health[cluster[r]].cas => copy[r] = After(health[cluster[r]], r)

\* What a hook found recorded when its stream ended is over and done with; once
\* its success is recorded, none of that counts any more.
Remembers(r) ==
  /\ hook[r] \in Ended => \A q \in earlier[r] : hook[q] = "done"
  /\ hook[r] = "done" /\ outcome[r] = "ok" /\ cluster[r] \in Primed =>
       tally[cluster[r]] \intersect earlier[r] = {}

TalliesDone ==
  \A c \in Cluster : \A r \in tally[c] : hook[r] = "done" /\ outcome[r] = "fail" /\ cluster[r] = c

Counts ==
  \A c \in Primed : /\ health[c].cas > 0
                    /\ health[c].f = Cardinality(tally[c]) /\ health[c].f < Threshold

OnlyFailed(c) == \A r \in Req : cluster[r] = c /\ hook[r] \in Ended => outcome[r] = "fail"

\* As long as a cluster has only failed and is not ejected, every failure counts.
AllCounted ==
  \A c \in Primed : health[c].e = 0 /\ OnlyFailed(c) =>
    \A r \in Req : cluster[r] = c /\ hook[r] = "done" => r \in tally[c]

HealthIInv ==
  /\ HealthTypeOK /\ (\A r \in Req : PendingWrite(r) /\ Remembers(r))
  /\ TalliesDone /\ Counts /\ AllCounted

LEMMA HealthInitIInv == HealthInit => HealthIInv
<1>. SUFFICES ASSUME HealthInit PROVE HealthIInv
  OBVIOUS
<1>. USE HealthConstants DEF HealthInit, Absent
<1>1. \A c \in Cluster : /\ health[c].f = 0 /\ health[c].cas \in Nat
                         /\ c \in Primed => health[c].cas = 1
                         /\ health[c] \in Health
  <2>. SUFFICES ASSUME NEW c \in Cluster
                PROVE  /\ health[c].f = 0 /\ health[c].cas \in Nat
                       /\ c \in Primed => health[c].cas = 1
                       /\ health[c] \in Health
    OBVIOUS
  <2>1. health[c] = [cas |-> IF c \in Primed THEN 1 ELSE 0, f |-> 0, e |-> 0, r |-> 0]
    OBVIOUS
  <2>. QED BY <2>1 DEF Health
<1>2. HealthTypeOK
  <2>1. health \in [Cluster -> Health]
    BY <1>1
  <2>2. copy \in [Req -> Health] /\ endedAt \in [Req -> Nat] /\ tries \in [Req -> Nat] /\ clock \in Nat
    BY DEF Health
  <2>3. hook \in [Req -> {"idle", "running"} \union Ended] /\ outcome \in [Req -> {"ok", "fail"}]
    OBVIOUS
  <2>4. tally \in [Cluster -> SUBSET Req] /\ earlier \in [Req -> SUBSET Req]
    OBVIOUS
  <2>. QED BY <2>1, <2>2, <2>3, <2>4 DEF HealthTypeOK
<1>3. \A r \in Req : PendingWrite(r) /\ Remembers(r)
  BY DEF PendingWrite, Remembers, Ended
<1>4. TalliesDone
  BY DEF TalliesDone
<1>5. Counts
  <2>1. \A c \in Cluster : Cardinality(tally[c]) = 0
    BY FS_EmptySet
  <2>. QED BY <1>1, <2>1 DEF Counts
<1>6. AllCounted
  BY DEF AllCounted
<1>. QED BY <1>2, <1>3, <1>4, <1>5, <1>6 DEF HealthIInv

\* What recording an outcome leaves of a cluster's health.
LEMMA AfterOutcome ==
  ASSUME HealthTypeOK, NEW h \in Health, NEW r \in Req
  PROVE  /\ After(h, r) \in Health /\ After(h, r).cas = h.cas
         /\ h.e > 0 => After(h, r).e > 0
         /\ outcome[r] = "ok" => After(h, r).f = 0 /\ After(h, r).e = h.e
         /\ outcome[r] = "fail" =>
              \/ After(h, r).f = 0 /\ After(h, r).e > 0
              \/ After(h, r).f = h.f + 1 /\ h.f + 1 < Threshold /\ After(h, r).e = h.e
<1>. USE HealthConstants
<1>1. /\ h.cas \in Nat /\ h.f \in Nat /\ h.e \in Nat /\ h.r \in Nat
      /\ DOMAIN h = {"cas", "f", "e", "r"}
  BY DEF Health
<1>2. endedAt[r] + Cooldown \in Nat /\ endedAt[r] + Cooldown > 0 /\ endedAt[r] + Cooldown + Ramp \in Nat
      /\ strikes[r] \in Nat /\ strikes[r] <= Threshold
  BY DEF HealthTypeOK
<1>3. CASE outcome[r] = "ok"
  <2>1. After(h, r) = [h EXCEPT !.f = 0]
    BY <1>3 DEF After, AfterSuccess
  <2>2. After(h, r) \in Health
    BY <2>1 DEF Health
  <2>. QED BY <1>1, <1>3, <2>1, <2>2
<1>4. CASE outcome[r] # "ok"
  <2>1. CASE h.f + 1 >= strikes[r]
    <3>1. After(h, r) = [h EXCEPT !.f = 0, !.e = endedAt[r] + Cooldown, !.r = endedAt[r] + Cooldown + Ramp]
      BY <1>4, <2>1 DEF After, AfterFailure
    <3>2. After(h, r) \in Health
      <4>1. \A u, v \in Nat : [h EXCEPT !.f = 0, !.e = u, !.r = v] \in Health
        BY DEF Health
      <4>. QED BY <1>2, <3>1, <4>1
    <3>3. After(h, r).cas = h.cas /\ After(h, r).f = 0 /\ After(h, r).e = endedAt[r] + Cooldown
      BY <1>1, <3>1
    <3>. QED BY <1>2, <1>4, <3>2, <3>3
  <2>2. CASE ~(h.f + 1 >= strikes[r])
    <3>1. After(h, r) = [h EXCEPT !.f = h.f + 1]
      BY <1>4, <2>2 DEF After, AfterFailure
    <3>2. After(h, r) \in Health
      BY <1>1, <3>1 DEF Health
    <3>3. After(h, r).cas = h.cas /\ After(h, r).f = h.f + 1 /\ After(h, r).e = h.e
      BY <1>1, <3>1
    <3>. QED BY <1>1, <1>2, <1>4, <2>2, <3>2, <3>3
  <2>. QED BY <2>1, <2>2
<1>. QED BY <1>3, <1>4

-----------------------------------------------------------------------------
\* A step of r leaves the other hooks alone.
OtherHooksKept(r) ==
  \A q \in Req \ {r} :
    /\ hook'[q] = hook[q] /\ outcome'[q] = outcome[q] /\ strikes'[q] = strikes[q]
    /\ endedAt'[q] = endedAt[q] /\ copy'[q] = copy[q] /\ earlier'[q] = earlier[q]

\* A step that records nothing.
LEMMA QuietStep ==
  ASSUME HealthIInv, HealthTypeOK', NEW r \in Req, OtherHooksKept(r), UNCHANGED <<health, tally, cluster>>,
         PendingWrite(r)', Remembers(r)', hook[r] \notin {"done"},
         hook[r] \in Ended => hook'[r] \in Ended /\ outcome'[r] = outcome[r],
         hook'[r] = "done" => outcome'[r] = "ok" \/ cluster[r] \notin Primed
  PROVE  HealthIInv'
<1>. USE DEF HealthIInv
<1>1. ASSUME NEW q \in Req
      PROVE  PendingWrite(q)' /\ Remembers(q)'
  <2>1. CASE q = r
    BY <2>1
  <2>2. CASE q # r
    <3>1. /\ hook'[q] = hook[q] /\ outcome'[q] = outcome[q] /\ strikes'[q] = strikes[q]
          /\ endedAt'[q] = endedAt[q] /\ copy'[q] = copy[q] /\ earlier'[q] = earlier[q]
      BY <2>2 DEF OtherHooksKept
    <3>2. PendingWrite(q)'
      BY <3>1, ZenonT(30) DEF PendingWrite, After, AfterSuccess, AfterFailure
    <3>3. earlier[q] \in SUBSET Req /\ \A x \in Req : hook[x] = "done" => hook'[x] = "done"
      BY DEF HealthTypeOK, OtherHooksKept
    <3>4. Remembers(q)'
      BY <3>1, <3>3 DEF Remembers
    <3>. QED BY <3>2, <3>4
  <2>. QED BY <2>1, <2>2
<1>2. TalliesDone'
  <2>1. ASSUME NEW c \in Cluster, NEW q \in tally[c]
        PROVE  hook'[q] = "done" /\ outcome'[q] = "fail" /\ cluster[q] = c
    <3>1. hook[q] = "done" /\ outcome[q] = "fail" /\ cluster[q] = c /\ q \in Req \ {r}
      BY <2>1 DEF TalliesDone, HealthTypeOK
    <3>. QED BY <3>1 DEF OtherHooksKept
  <2>. QED BY <2>1 DEF TalliesDone
<1>3. Counts'
  BY DEF Counts
<1>4. AllCounted'
  <2>. SUFFICES ASSUME NEW c \in Primed, health[c].e = 0, OnlyFailed(c)',
                       NEW q \in Req, cluster[q] = c, hook'[q] = "done"
                PROVE  q \in tally[c]
    BY DEF AllCounted
  <2>1. OnlyFailed(c)
    BY DEF OnlyFailed, OtherHooksKept
  <2>2. q # r
    BY DEF OnlyFailed, Ended
  <2>3. hook[q] = "done"
    BY <2>2 DEF OtherHooksKept
  <2>. QED BY <2>1, <2>3 DEF AllCounted
<1>. QED BY <1>1, <1>2, <1>3, <1>4

LEMMA AdmitStep ==
  ASSUME HealthIInv, NEW r \in Req, Admit(r)
  PROVE  HealthIInv'
<1>. USE DEF HealthIInv
<1>1. /\ hook[r] = "idle" /\ hook' = [hook EXCEPT ![r] = "running"]
      /\ UNCHANGED <<clock, health, cluster, outcome, endedAt, tries, copy, tally, earlier>>
  BY DEF Admit
<1>2. PICK n \in {1, Threshold} : strikes' = [strikes EXCEPT ![r] = n]
  BY DEF Admit
<1>3. HealthTypeOK' /\ OtherHooksKept(r) /\ hook'[r] = "running"
  BY <1>1, <1>2 DEF HealthTypeOK, OtherHooksKept
<1>4. PendingWrite(r)' /\ Remembers(r)'
  BY <1>3 DEF PendingWrite, Remembers, Ended
<1>. QED BY <1>1, <1>3, <1>4, QuietStep DEF Ended

LEMMA StreamEndsStep ==
  ASSUME HealthIInv, NEW r \in Req, StreamEnds(r)
  PROVE  HealthIInv'
<1>. USE DEF HealthIInv
<1>1. /\ hook[r] = "running" /\ hook' = [hook EXCEPT ![r] = "load"] /\ endedAt' = [endedAt EXCEPT ![r] = clock]
      /\ earlier' = [earlier EXCEPT ![r] = tally[cluster[r]]]
      /\ UNCHANGED <<clock, health, cluster, strikes, tries, copy, tally>>
  BY DEF StreamEnds
<1>2. PICK oc \in {"ok", "fail"} : outcome' = [outcome EXCEPT ![r] = oc]
  BY DEF StreamEnds
<1>3. OtherHooksKept(r) /\ hook'[r] = "load" /\ earlier'[r] = tally[cluster[r]] /\ cluster[r] \in Cluster
  BY <1>1, <1>2 DEF HealthTypeOK, OtherHooksKept
<1>4. HealthTypeOK'
  BY <1>1, <1>2, <1>3 DEF HealthTypeOK, Ended
<1>5. PendingWrite(r)'
  BY <1>3 DEF PendingWrite
<1>6. Remembers(r)'
  <2>1. ASSUME NEW q \in tally[cluster[r]] PROVE hook'[q] = "done"
    <3>1. hook[q] = "done" /\ q \in Req \ {r}
      BY <1>1, <1>3, <2>1 DEF TalliesDone, HealthTypeOK
    <3>. QED BY <1>3, <3>1 DEF OtherHooksKept
  <2>. QED BY <1>3, <2>1 DEF Remembers
<1>. QED BY <1>1, <1>3, <1>4, <1>5, <1>6, QuietStep DEF Ended

LEMMA LoadStep ==
  ASSUME HealthIInv, NEW r \in Req, Load(r)
  PROVE  HealthIInv'
<1>. USE DEF HealthIInv
<1>. SUFFICES ASSUME NEW c \in Cluster, c = cluster[r]
              PROVE  HealthIInv'
  BY DEF HealthTypeOK
<1>1. hook[r] = "load" /\ UNCHANGED <<clock, health, locals, tries, tally, earlier>>
  BY DEF Load
<1>2. UNCHANGED <<cluster, outcome, strikes, endedAt>>
  BY <1>1 DEF locals
<1>3. health[c] \in Health
  BY DEF HealthTypeOK
<1>4. CASE outcome[r] = "ok" /\ health[c].f = 0 /\ hook' = [hook EXCEPT ![r] = "done"] /\ UNCHANGED copy
  <2>1. HealthTypeOK' /\ OtherHooksKept(r) /\ hook'[r] = "done"
    BY <1>1, <1>2, <1>4 DEF HealthTypeOK, OtherHooksKept, Ended
  <2>2. PendingWrite(r)'
    BY <2>1 DEF PendingWrite
  <2>3. c \in Primed => tally[c] = {}
    <3>1. IsFiniteSet(tally[c])
      BY HealthConstants, FS_Subset DEF HealthTypeOK
    <3>. QED BY <1>4, <3>1, FS_EmptySet DEF Counts
  <2>4. Remembers(r)'
    <3>1. \A q \in earlier[r] : hook[q] = "done" /\ q \in Req \ {r}
      BY <1>1 DEF Remembers, Ended, HealthTypeOK
    <3>2. \A q \in earlier[r] : hook'[q] = "done"
      BY <2>1, <3>1 DEF OtherHooksKept
    <3>. QED BY <1>1, <1>2, <2>3, <3>2 DEF Remembers
  <2>. QED BY <1>1, <1>2, <1>4, <2>1, <2>2, <2>4, QuietStep DEF Ended
<1>5. CASE copy' = [copy EXCEPT ![r] = After(health[c], r)] /\ hook' = [hook EXCEPT ![r] = "store"]
  <2>1. /\ After(health[c], r) \in Health /\ After(health[c], r).cas = health[c].cas
        /\ outcome[r] = "ok" => After(health[c], r).f = 0
    BY <1>3, AfterOutcome
  <2>2. HealthTypeOK' /\ OtherHooksKept(r) /\ hook'[r] = "store" /\ copy'[r] = After(health[c], r)
    BY <1>1, <1>2, <1>5, <2>1 DEF HealthTypeOK, OtherHooksKept, Ended
  <2>3. After(health[c], r)' = After(health[c], r)
    BY <1>1, <1>2 DEF After, AfterSuccess, AfterFailure
  <2>4. PendingWrite(r)'
    <3>1. c \in Primed => health[c].cas > 0
      BY DEF Counts
    <3>. QED BY <1>1, <1>2, <1>3, <2>1, <2>2, <2>3, <3>1 DEF PendingWrite, Health
  <2>5. Remembers(r)'
    <3>1. \A q \in earlier[r] : hook[q] = "done" /\ q \in Req \ {r}
      BY <1>1 DEF Remembers, Ended, HealthTypeOK
    <3>. QED BY <1>1, <2>2, <3>1 DEF OtherHooksKept, Remembers
  <2>. QED BY <1>1, <1>2, <2>2, <2>4, <2>5, QuietStep DEF Ended
<1>. QED BY <1>4, <1>5 DEF Load, After

\* A call whose outcome is not recorded, because of a lost race or of the host.
LEMMA LostStep ==
  ASSUME HealthIInv, NEW r \in Req, hook[r] \in {"load", "store"},
         NEW label \in {"load", "gaveUp", "refused"}, hook' = [hook EXCEPT ![r] = label],
         tries' = [tries EXCEPT ![r] = @ + 1] \/ UNCHANGED tries, copy' = [copy EXCEPT ![r] = Absent],
         UNCHANGED <<clock, health, locals, tally, earlier>>
  PROVE  HealthIInv'
<1>. USE DEF HealthIInv
<1>1. UNCHANGED <<cluster, outcome, strikes, endedAt>>
  BY DEF locals
<1>2. HealthTypeOK' /\ OtherHooksKept(r) /\ hook'[r] = label
  <2>1. Absent \in Health
    BY DEF Absent, Health
  <2>. QED BY <1>1, <2>1 DEF HealthTypeOK, OtherHooksKept, Ended
<1>3. PendingWrite(r)' /\ Remembers(r)'
  <2>1. \A q \in earlier[r] : hook[q] = "done" /\ q \in Req \ {r}
    BY DEF Remembers, Ended, HealthTypeOK
  <2>. QED BY <1>2, <2>1 DEF PendingWrite, Remembers, OtherHooksKept
<1>. QED BY <1>1, <1>2, <1>3, QuietStep DEF Ended

\* A write goes through.
LEMMA WonStep ==
  ASSUME HealthIInv, NEW r \in Req, NEW c \in Cluster, c = cluster[r], hook[r] = "store", Wins(r, c),
         health' = [health EXCEPT ![c] = [copy[r] EXCEPT !.cas = health[c].cas + 1]],
         tally' = [tally EXCEPT ![c] = IF copy[r].f = 0 THEN {} ELSE tally[c] \union {r}],
         hook' = [hook EXCEPT ![r] = "done"], copy' = [copy EXCEPT ![r] = Absent],
         UNCHANGED <<clock, locals, tries, earlier>>
  PROVE  HealthIInv'
<1>. USE DEF HealthIInv
<1>1. UNCHANGED <<cluster, outcome, strikes, endedAt>>
  BY DEF locals
<1>2. /\ health[c] \in Health /\ copy[r] \in Health /\ health'[c] \in Health
      /\ health'[c].cas = health[c].cas + 1 /\ health'[c].f = copy[r].f /\ health'[c].e = copy[r].e
      /\ \A d \in Cluster \ {c} : health'[d] = health[d]
  <2>1. health[c] \in Health /\ copy[r] \in Health
    BY DEF HealthTypeOK
  <2>2. health'[c] = [copy[r] EXCEPT !.cas = health[c].cas + 1] /\ \A d \in Cluster \ {c} : health'[d] = health[d]
    BY DEF HealthTypeOK
  <2>. QED BY <2>1, <2>2 DEF Health
<1>3. /\ tally'[c] = IF copy[r].f = 0 THEN {} ELSE tally[c] \union {r}
      /\ \A d \in Cluster \ {c} : tally'[d] = tally[d]
      /\ \A d \in Cluster : tally[d] \subseteq Req
  BY DEF HealthTypeOK
<1>4. HealthTypeOK' /\ OtherHooksKept(r) /\ hook'[r] = "done"
  <2>1. Absent \in Health
    BY DEF Absent, Health
  <2>2. health' \in [Cluster -> Health]
    BY <1>2 DEF HealthTypeOK
  <2>3. tally' \in [Cluster -> SUBSET Req]
    BY <1>3 DEF HealthTypeOK
  <2>. QED BY <1>1, <2>1, <2>2, <2>3 DEF HealthTypeOK, OtherHooksKept, Ended
<1>5. outcome[r] = "ok" => copy[r].f = 0
  BY DEF PendingWrite
<1>6. c \in Primed => copy[r] = After(health[c], r) /\ health[c].cas > 0
  BY DEF PendingWrite, Wins, Counts
<1>7. ASSUME NEW q \in Req
      PROVE  PendingWrite(q)'
  <2>1. CASE q = r
    BY <1>4, <2>1 DEF PendingWrite
  <2>2. CASE q # r
    <3>1. /\ hook'[q] = hook[q] /\ outcome'[q] = outcome[q] /\ strikes'[q] = strikes[q]
          /\ endedAt'[q] = endedAt[q] /\ copy'[q] = copy[q] /\ cluster'[q] = cluster[q]
      BY <1>1, <1>4, <2>2 DEF OtherHooksKept
    <3>2. PendingWrite(q) /\ cluster[q] \in Cluster /\ copy[q].cas \in Nat
      BY DEF HealthTypeOK, Health
    <3>3. CASE cluster[q] = c
      <4>1. health'[cluster[q]].cas = health[cluster[q]].cas + 1 /\ health[cluster[q]].cas \in Nat
        BY <1>2, <3>3 DEF Health
      <4>2. hook[q] = "store" /\ cluster[q] \in Primed =>
              0 < copy[q].cas /\ copy[q].cas <= health[cluster[q]].cas
        BY <3>2 DEF PendingWrite
      <4>3. hook[q] = "store" /\ cluster[q] \in Primed =>
              /\ 0 < copy[q].cas /\ copy[q].cas <= health'[cluster[q]].cas
              /\ copy[q].cas # health'[cluster[q]].cas
        BY <3>2, <4>1, <4>2
      <4>. QED BY <3>1, <3>2, <4>3 DEF PendingWrite
    <3>4. CASE cluster[q] # c
      <4>1. health'[cluster[q]] = health[cluster[q]]
        BY <1>2, <3>2, <3>4
      <4>. QED BY <3>1, <3>2, <4>1, ZenonT(30) DEF PendingWrite, After, AfterSuccess, AfterFailure
    <3>. QED BY <3>3, <3>4
  <2>. QED BY <2>1, <2>2
<1>8. ASSUME NEW q \in Req
      PROVE  Remembers(q)'
  <2>1. hook[q] \in Ended => \A x \in earlier[q] : hook[x] = "done" /\ x \in Req \ {r}
    BY DEF Remembers, HealthTypeOK
  <2>2. hook[q] \in Ended => \A x \in earlier[q] : hook'[x] = "done"
    BY <1>4, <2>1 DEF OtherHooksKept
  <2>3. hook'[q] \in Ended => hook[q] \in Ended
    BY <1>4 DEF OtherHooksKept, Ended
  <2>4. ASSUME hook'[q] = "done", outcome[q] = "ok", cluster[q] \in Primed
        PROVE  tally'[cluster[q]] \intersect earlier[q] = {}
    <3>1. CASE q = r
      BY <1>3, <1>5, <2>4, <3>1
    <3>2. CASE q # r
      <4>1. hook[q] = "done" /\ tally[cluster[q]] \intersect earlier[q] = {}
        BY <1>4, <2>4, <3>2 DEF OtherHooksKept, Remembers
      <4>2. tally'[cluster[q]] \subseteq tally[cluster[q]] \union {r}
        BY <1>3 DEF HealthTypeOK
      <4>. QED BY <2>1, <4>1, <4>2 DEF Ended
    <3>. QED BY <3>1, <3>2
  <2>. QED BY <1>1, <2>2, <2>3, <2>4 DEF Remembers
<1>9. TalliesDone'
  <2>1. ASSUME NEW d \in Cluster, NEW q \in tally'[d]
        PROVE  hook'[q] = "done" /\ outcome[q] = "fail" /\ cluster[q] = d
    <3>1. CASE q \in tally[d]
      <4>1. hook[q] = "done" /\ outcome[q] = "fail" /\ cluster[q] = d /\ q \in Req \ {r}
        BY <3>1 DEF TalliesDone, HealthTypeOK
      <4>. QED BY <1>4, <4>1 DEF OtherHooksKept
    <3>2. CASE q \notin tally[d]
      <4>1. d = c /\ q = r /\ copy[r].f # 0
        BY <1>3, <2>1, <3>2
      <4>2. outcome[r] = "fail"
        BY <1>5, <4>1 DEF HealthTypeOK
      <4>. QED BY <1>4, <4>1, <4>2
    <3>. QED BY <3>1, <3>2
  <2>. QED BY <1>1, <2>1 DEF TalliesDone
<1>10. ASSUME c \in Primed
       PROVE  \/ /\ copy[r].f = 0 /\ tally'[c] = {}
                 /\ outcome[r] = "fail" => copy[r].e > 0
              \/ /\ copy[r].f = health[c].f + 1 /\ health[c].f + 1 < Threshold /\ health[c].f + 1 # 0
                 /\ tally'[c] = tally[c] \union {r} /\ outcome[r] = "fail" /\ copy[r].e = health[c].e
  <2>1. outcome[r] \in {"ok", "fail"} /\ health[c].f \in Nat
    BY <1>2 DEF HealthTypeOK, Health
  <2>2. copy[r] = After(health[c], r)
    BY <1>6, <1>10
  <2>3. CASE copy[r].f = 0
    <3>1. outcome[r] = "fail" => copy[r].e > 0
      BY <1>2, <2>1, <2>2, <2>3, AfterOutcome
    <3>. QED BY <1>3, <2>3, <3>1
  <2>4. CASE copy[r].f # 0
    <3>1. outcome[r] = "fail"
      BY <1>5, <2>1, <2>4
    <3>2. copy[r].f = health[c].f + 1 /\ health[c].f + 1 < Threshold /\ copy[r].e = health[c].e
      BY <1>2, <2>2, <2>4, <3>1, AfterOutcome
    <3>. QED BY <1>3, <2>1, <2>4, <3>1, <3>2
  <2>. QED BY <2>3, <2>4
<1>11. Counts'
  <2>1. ASSUME NEW d \in Primed
        PROVE  health'[d].cas > 0 /\ health'[d].f = Cardinality(tally'[d]) /\ health'[d].f < Threshold
    <3>1. CASE d = c
      <4>1. health[c].f = Cardinality(tally[c]) /\ health[c].cas > 0 /\ health[c].cas \in Nat
        BY <1>2, <2>1, <3>1 DEF Counts, Health
      <4>2. IsFiniteSet(tally[c])
        BY <1>3, HealthConstants, FS_Subset
      <4>3. r \notin tally[c]
        BY DEF TalliesDone
      <4>4. Cardinality(tally[c] \union {r}) = Cardinality(tally[c]) + 1
        BY <4>2, <4>3, FS_AddElement
      <4>5. health'[c].f = Cardinality(tally'[c]) /\ health'[c].f < Threshold
        BY <1>2, <1>10, <2>1, <3>1, <4>1, <4>4, FS_EmptySet, HealthConstants
      <4>. QED BY <1>2, <3>1, <4>1, <4>5
    <3>2. CASE d # c
      <4>1. d \in Cluster \ {c}
        BY <3>2, HealthConstants
      <4>. QED BY <1>2, <1>3, <4>1 DEF Counts
    <3>. QED BY <3>1, <3>2
  <2>. QED BY <2>1 DEF Counts
<1>12. AllCounted'
  <2>. SUFFICES ASSUME NEW d \in Primed, health'[d].e = 0, OnlyFailed(d)',
                       NEW q \in Req, cluster[q] = d, hook'[q] = "done"
                PROVE  q \in tally'[d]
    BY <1>1 DEF AllCounted
  <2>1. OnlyFailed(d)
    BY <1>1, <1>4 DEF OnlyFailed, OtherHooksKept, Ended
  <2>2. CASE d = c
    <3>1. outcome[r] = "fail"
      BY <2>1, <2>2 DEF OnlyFailed, Ended
    <3>2. tally'[c] = tally[c] \union {r} /\ health[c].e = 0
      BY <1>2, <1>10, <2>2, <3>1
    <3>3. q # r => q \in tally[d]
      BY <1>4, <2>1, <2>2, <3>2 DEF AllCounted, OtherHooksKept
    <3>. QED BY <2>2, <3>2, <3>3
  <2>3. CASE d # c
    <3>1. health'[d] = health[d] /\ tally'[d] = tally[d] /\ q # r
      BY <1>2, <1>3, <2>3, HealthConstants
    <3>. QED BY <1>4, <2>1, <3>1 DEF AllCounted, OtherHooksKept
  <2>. QED BY <2>2, <2>3
<1>. QED BY <1>4, <1>7, <1>8, <1>9, <1>11, <1>12

LEMMA StoreStep ==
  ASSUME HealthIInv, NEW r \in Req, Store(r)
  PROVE  HealthIInv'
<1>. SUFFICES ASSUME NEW c \in Cluster, c = cluster[r]
              PROVE  HealthIInv'
  BY DEF HealthIInv, HealthTypeOK
<1>1. CASE Wins(r, c)
  BY <1>1, WonStep DEF Store
<1>2. CASE ~Wins(r, c)
  <2>1. PICK label \in {"load", "gaveUp"} : hook' = [hook EXCEPT ![r] = label]
    BY <1>2 DEF Store
  <2>. QED BY <1>2, <2>1, LostStep DEF Store
<1>. QED BY <1>1, <1>2

LEMMA HealthRefusedStep ==
  ASSUME HealthIInv, NEW r \in Req, HealthRefused(r)
  PROVE  HealthIInv'
<1>1. UNCHANGED <<clock, health, locals, tally, earlier>> /\ UNCHANGED tries
  BY DEF HealthRefused
<1>. QED BY <1>1, LostStep DEF HealthRefused

LEMMA HealthNextIInv == HealthIInv /\ [HealthNext]_healthVars => HealthIInv'
<1>. SUFFICES ASSUME HealthIInv, [HealthNext]_healthVars PROVE HealthIInv'
  OBVIOUS
<1>1. ASSUME NEW r \in Req, Admit(r) \/ StreamEnds(r) \/ Load(r) \/ Store(r) \/ HealthRefused(r)
      PROVE  HealthIInv'
  BY <1>1, AdmitStep, StreamEndsStep, LoadStep, StoreStep, HealthRefusedStep
<1>2. CASE ClockTick \/ UNCHANGED healthVars
  <2>1. /\ UNCHANGED <<health, hook, cluster, outcome, strikes, endedAt, tries, copy, tally, earlier>>
        /\ clock' = clock \/ clock' = clock + 1
    BY <1>2 DEF ClockTick, healthVars, locals
  <2>2. HealthTypeOK'
    BY <2>1 DEF HealthIInv, HealthTypeOK
  <2>3. \A r \in Req : PendingWrite(r)' /\ Remembers(r)'
    BY <2>1 DEF HealthIInv, PendingWrite, Remembers, After, AfterSuccess, AfterFailure
  <2>4. TalliesDone' /\ Counts' /\ AllCounted'
    BY <2>1 DEF HealthIInv, TalliesDone, Counts, AllCounted, OnlyFailed
  <2>. QED BY <2>2, <2>3, <2>4 DEF HealthIInv
<1>. QED BY <1>1, <1>2 DEF HealthNext, HooksOver

LEMMA AlwaysHealthIInv == HealthSpec => []HealthIInv
BY HealthInitIInv, HealthNextIInv, PTL DEF HealthSpec

\* However the hooks of the workers interleave, and whichever of their calls the
\* host refuses, a cluster's failure count is that of the failures recorded since
\* its last reset, no recorded success leaves one from before it, and enough
\* recorded failures with nothing else eject.
THEOREM HealthIsExact == HealthSpec => []HealthExact
<1>1. HealthIInv => HealthExact
  <2>. SUFFICES ASSUME HealthIInv PROVE HealthExact
    OBVIOUS
  <2>. USE DEF HealthIInv
  <2>1. TallyExact
    BY DEF TallyExact, Counts, Remembers
  <2>2. EnoughFailuresEject
    <3>. SUFFICES ASSUME NEW c \in Primed, NEW over,
                         over = {r \in Req : /\ cluster[r] = c
                                             /\ hook[r] \in Ended},
                         \A r \in over : outcome[r] = "fail",
                         Cardinality({r \in over : hook[r] = "done"}) >= Threshold,
                         ~(health[c].e > 0)
                  PROVE  FALSE
      BY DEF EnoughFailuresEject, Ended
    <3>1. health[c].e = 0 /\ OnlyFailed(c)
      BY HealthConstants DEF HealthTypeOK, Health, OnlyFailed, Ended
    <3>2. {r \in over : hook[r] = "done"} \subseteq tally[c]
      BY <3>1 DEF AllCounted
    <3>3. IsFiniteSet(tally[c])
      BY HealthConstants, FS_Subset DEF HealthTypeOK
    <3>4. /\ Cardinality({r \in over : hook[r] = "done"}) <= Cardinality(tally[c])
          /\ Cardinality({r \in over : hook[r] = "done"}) \in Nat
      BY <3>2, <3>3, FS_Subset, FS_CardinalityType
    <3>5. Cardinality(tally[c]) \in Nat /\ Cardinality(tally[c]) < Threshold
      BY <3>3, FS_CardinalityType DEF Counts
    <3>. QED BY <3>4, <3>5, HealthConstants
  <2>. QED BY <2>1, <2>2 DEF HealthExact
<1>. QED BY <1>1, AlwaysHealthIInv, PTL

\* No write that did not see an ejection wipes it out.
THEOREM EjectionIsKept == HealthSpec => EjectionKept
<1>1. HealthIInv /\ [HealthNext]_healthVars => [\A c \in Primed : health[c].e > 0 => health'[c].e > 0]_healthVars
  <2>. SUFFICES ASSUME HealthIInv, HealthNext, NEW c \in Primed, health[c].e > 0
                PROVE  health'[c].e > 0
    OBVIOUS
  <2>. USE DEF HealthIInv
  <2>1. CASE UNCHANGED health
    BY <2>1
  <2>2. ASSUME NEW r \in Req, Store(r), cluster[r] = c, Wins(r, c)
        PROVE  health'[c].e > 0
    <3>1. c \in Cluster /\ health[c] \in Health /\ copy[r] \in Health
      BY HealthConstants DEF HealthTypeOK
    <3>2. copy[r] = After(health[c], r)
      BY <2>2 DEF Store, Wins, PendingWrite
    <3>3. health'[c] = [copy[r] EXCEPT !.cas = health[c].cas + 1]
      BY <2>2, <3>1 DEF Store, HealthTypeOK
    <3>4. health'[c].e = copy[r].e
      BY <3>1, <3>3 DEF Health
    <3>. QED BY <3>1, <3>2, <3>4, AfterOutcome
  <2>3. ASSUME NEW r \in Req, Store(r), cluster[r] # c \/ ~Wins(r, cluster[r])
        PROVE  health'[c] = health[c]
    <3>1. c \in Cluster
      BY HealthConstants
    <3>. QED BY <2>3, <3>1 DEF Store, HealthTypeOK
  <2>. QED BY <2>1, <2>2, <2>3 DEF HealthNext, Admit, StreamEnds, Load, HealthRefused, ClockTick, HooksOver,
                                healthVars
<1>2. EjectionKept <=> [][\A c \in Primed : health[c].e > 0 => health'[c].e > 0]_healthVars
  BY DEF EjectionKept
<1>. QED BY <1>1, <1>2, AlwaysHealthIInv, PTL DEF HealthSpec
=============================================================================
