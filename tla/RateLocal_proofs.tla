---------------------------- MODULE RateLocal_proofs ----------------------------
(***************************************************************************)
(* RateLocal, for any workers, callers, configuration and number of        *)
(* attempts.                                                               *)
(*                                                                         *)
(* QuotaHeld is not inductive.  Typed says where a BatchEval stands and    *)
(* what it is about to write; that no record is forgotten (NoCountLost)    *)
(* needs that a list which a worker is about to store is the present one,  *)
(* pruned and with its record, unless the key has been written since       *)
(* (Copies), and that no later prune keeps what an earlier one drops       *)
(* (EdgeAdvances).  The number of requests in a window is bounded together *)
(* with those that have passed its check and are still to be charged       *)
(* (Claims): whoever passes a check has counted less than the quota, so    *)
(* all others are hooks that are running, one for each worker.             *)
(*                                                                         *)
(* The check adds counts and the bound is on requests: a sum of positive   *)
(* counts is at least their number (TotalCounts), and no smaller than that *)
(* of any part (TotalGrows), by inductions on the size of the set.         *)
(***************************************************************************)
EXTENDS RateLocal, FiniteSetTheorems, WellFoundedInduction, TLAPS

LEMMA LeastNatural ==
  ASSUME NEW T \in SUBSET Nat, T # {}
  PROVE  \E m \in T : \A n \in T : m <= n
<1>1. PICK m \in T : \A n \in T : ~ (<<n, m>> \in OpToRel(<, Nat))
  BY NatLessThanWellFounded, WFMin
<1>2. \A n \in T : ~ (n < m)
  BY <1>1 DEF OpToRel
<1>. QED BY <1>2

-----------------------------------------------------------------------------
(***************************************************************************)
(* The sum that localWindowTotal forms.                                    *)
(***************************************************************************)
Some(S) == CHOOSE x \in S : TRUE

\* f[T] is the sum over T, for the parts of S and for those of at most n elements.
Adds(f, S) ==
  f = [T \in SUBSET S |-> IF T = {} THEN 0 ELSE Some(T).count + f[T \ {Some(T)}]]

Small(S, n) == {T \in SUBSET S : Cardinality(T) <= n}

AddsUpTo(f, S, n) ==
  f = [T \in Small(S, n) |-> IF T = {} THEN 0 ELSE Some(T).count + f[T \ {Some(T)}]]

LEMMA SomeLess ==
  ASSUME NEW S, IsFiniteSet(S), NEW T \in SUBSET S, T # {}
  PROVE  /\ IsFiniteSet(T) /\ Some(T) \in T /\ T \ {Some(T)} \in SUBSET S
         /\ Cardinality(T) \in Nat /\ Cardinality(T) > 0
         /\ Cardinality(T \ {Some(T)}) = Cardinality(T) - 1
<1>1. IsFiniteSet(T) /\ Some(T) \in T
  BY FS_Subset DEF Some
<1>. QED BY <1>1, FS_RemoveElement, FS_CardinalityType, FS_EmptySet

LEMMA AddsUpToExists ==
  ASSUME NEW S, IsFiniteSet(S), NEW n \in Nat
  PROVE  \E f : AddsUpTo(f, S, n)
<1>. DEFINE Bad == {k \in Nat : ~ \E f : AddsUpTo(f, S, k)}
<1>. SUFFICES ASSUME Bad # {} PROVE FALSE
  OBVIOUS
<1>1. PICK m \in Bad : \A k \in Bad : m <= k
  <2>1. Bad \in SUBSET Nat
    OBVIOUS
  <2>. HIDE DEF Bad
  <2>. QED BY <2>1, LeastNatural
<1>2. m # 0
  <2>1. Small(S, 0) = {{}}
    <3>1. ASSUME NEW T \in SUBSET S, T # {} PROVE ~(Cardinality(T) <= 0)
      <4>1. Cardinality(T) \in Nat /\ Cardinality(T) > 0
        BY <3>1, SomeLess, Zenon
      <4>. QED BY <4>1
    <3>. QED BY <3>1, FS_EmptySet DEF Small
  <2>2. AddsUpTo([T \in Small(S, 0) |-> 0], S, 0)
    BY <2>1 DEF AddsUpTo
  <2>. QED BY <2>2
<1>3. PICK f : AddsUpTo(f, S, m - 1)
  <2>1. m - 1 \in Nat /\ m - 1 \notin Bad
    BY <1>1, <1>2
  <2>. QED BY <2>1
<1>. DEFINE g == [T \in Small(S, m) |-> IF T = {} THEN 0 ELSE Some(T).count + f[T \ {Some(T)}]]
<1>4. ASSUME NEW T \in Small(S, m - 1)
      PROVE  T \in Small(S, m) /\ g[T] = f[T]
  <2>1. T \in Small(S, m)
    <3>1. Cardinality(T) \in Nat /\ m \in Nat /\ Cardinality(T) <= m - 1
      BY FS_Subset, FS_CardinalityType DEF Small
    <3>. QED BY <3>1 DEF Small
  <2>2. f[T] = IF T = {} THEN 0 ELSE Some(T).count + f[T \ {Some(T)}]
    BY <1>3, Zenon DEF AddsUpTo
  <2>. QED BY <2>1, <2>2
<1>5. ASSUME NEW T \in Small(S, m), T # {}
      PROVE  T \ {Some(T)} \in Small(S, m - 1)
  <2>1. T \in SUBSET S /\ Cardinality(T) <= m /\ m \in Nat
    BY DEF Small
  <2>2. Cardinality(T) \in Nat /\ Cardinality(T \ {Some(T)}) = Cardinality(T) - 1
    BY <1>5, <2>1, SomeLess
  <2>. QED BY <2>1, <2>2 DEF Small
<1>6. AddsUpTo(g, S, m)
  <2>1. ASSUME NEW T \in Small(S, m)
        PROVE  g[T] = IF T = {} THEN 0 ELSE Some(T).count + g[T \ {Some(T)}]
    <3>1. CASE T = {}
      BY <3>1
    <3>2. CASE T # {}
      <4>1. g[T \ {Some(T)}] = f[T \ {Some(T)}]
        BY <1>4, <1>5, <3>2
      <4>. QED BY <3>2, <4>1
    <3>. QED BY <3>1, <3>2
  <2>2. g = [T \in Small(S, m) |-> g[T]]
    OBVIOUS
  <2>. HIDE DEF g
  <2>. QED BY <2>1, <2>2 DEF AddsUpTo
<1>. QED BY <1>6

LEMMA TotalAdds ==
  ASSUME NEW S, IsFiniteSet(S)
  PROVE  \E f : Adds(f, S) /\ Total(S) = f[S]
<1>1. Small(S, Cardinality(S)) = SUBSET S
  BY FS_Subset DEF Small
<1>2. \E f : f = [T \in SUBSET S |-> IF T = {} THEN 0 ELSE Some(T).count + f[T \ {Some(T)}]]
  <2>1. \E f : AddsUpTo(f, S, Cardinality(S))
    BY AddsUpToExists, FS_CardinalityType
  <2>. QED BY <1>1, <2>1, Zenon DEF AddsUpTo
<1>. QED BY <1>2 DEF Total, MapThenSumSet, MapThenFoldSet, Some, Adds

LEMMA AddsAgree ==
  ASSUME NEW S, IsFiniteSet(S), NEW T \in SUBSET S, NEW f, Adds(f, S), NEW g, Adds(g, T)
  PROVE  f[T] = g[T]
<1>. DEFINE Bad == {k \in Nat : \E U \in SUBSET T : Cardinality(U) = k /\ f[U] # g[U]}
<1>1. Bad = {}
  <2>. SUFFICES ASSUME Bad # {} PROVE FALSE
    OBVIOUS
  <2>1. PICK m \in Bad : \A k \in Bad : m <= k
    <3>1. Bad \in SUBSET Nat
      OBVIOUS
    <3>. HIDE DEF Bad
    <3>. QED BY <3>1, LeastNatural
  <2>2. PICK U \in SUBSET T : Cardinality(U) = m /\ f[U] # g[U]
    BY <2>1
  <2>3. U \in SUBSET S
    OBVIOUS
  <2>4. /\ f[U] = IF U = {} THEN 0 ELSE Some(U).count + f[U \ {Some(U)}]
        /\ g[U] = IF U = {} THEN 0 ELSE Some(U).count + g[U \ {Some(U)}]
    BY <2>3, Zenon DEF Adds
  <2>. DEFINE V == U \ {Some(U)}
  <2>5. U # {} /\ f[V] # g[V]
    BY <2>2, <2>4
  <2>6. m \in Nat /\ m > 0 /\ Cardinality(V) = m - 1 /\ V \in SUBSET T
    BY <2>2, <2>3, <2>5, SomeLess
  <2>7. m - 1 \in Nat /\ m - 1 \notin Bad
    BY <2>1, <2>6
  <2>. HIDE DEF V
  <2>. QED BY <2>5, <2>6, <2>7
<1>2. IsFiniteSet(T) /\ Cardinality(T) \in Nat
  BY FS_Subset, FS_CardinalityType
<1>. QED BY <1>1, <1>2

LEMMA TotalUnfolds ==
  ASSUME NEW S, IsFiniteSet(S)
  PROVE  Total(S) = IF S = {} THEN 0 ELSE Some(S).count + Total(S \ {Some(S)})
<1>. DEFINE T == S \ {Some(S)}
<1>1. T \in SUBSET S /\ IsFiniteSet(T)
  BY FS_Subset
<1>. HIDE DEF T
<1>2. PICK f : Adds(f, S) /\ Total(S) = f[S]
  BY TotalAdds
<1>3. PICK g : Adds(g, T) /\ Total(T) = g[T]
  BY <1>1, TotalAdds
<1>4. f[T] = Total(T)
  BY <1>1, <1>2, <1>3, AddsAgree
<1>5. f[S] = IF S = {} THEN 0 ELSE Some(S).count + f[S \ {Some(S)}]
  <2>1. S \in SUBSET S
    OBVIOUS
  <2>. QED BY <1>2, <2>1, Zenon DEF Adds
<1>. QED BY <1>2, <1>4, <1>5 DEF T

Positive(S) == IsFiniteSet(S) /\ \A e \in S : e.count \in Nat /\ e.count > 0

\* Every element counts for one at least.
LEMMA TotalCounts ==
  ASSUME NEW S, Positive(S)
  PROVE  Total(S) \in Nat /\ Cardinality(S) \in Nat /\ Cardinality(S) <= Total(S)
<1>. USE DEF Positive
<1>. DEFINE Bad == {k \in Nat : \E T \in SUBSET S :
                     Cardinality(T) = k /\ ~(Total(T) \in Nat /\ k <= Total(T))}
<1>1. Bad = {}
  <2>. SUFFICES ASSUME Bad # {} PROVE FALSE
    OBVIOUS
  <2>1. PICK m \in Bad : \A k \in Bad : m <= k
    <3>1. Bad \in SUBSET Nat
      OBVIOUS
    <3>. HIDE DEF Bad
    <3>. QED BY <3>1, LeastNatural
  <2>2. PICK T \in SUBSET S : Cardinality(T) = m /\ ~(Total(T) \in Nat /\ m <= Total(T))
    BY <2>1
  <2>3. Total(T) = IF T = {} THEN 0 ELSE Some(T).count + Total(T \ {Some(T)})
    BY FS_Subset, TotalUnfolds
  <2>4. CASE T = {}
    BY <2>2, <2>3, <2>4, FS_EmptySet
  <2>5. CASE T # {}
    <3>. DEFINE U == T \ {Some(T)}
    <3>1. Some(T) \in T /\ U \in SUBSET S /\ m > 0 /\ Cardinality(U) = m - 1
      BY <2>2, <2>5, SomeLess
    <3>2. m \in Nat /\ m - 1 \in Nat /\ m - 1 \notin Bad
      BY <2>1, <3>1
    <3>3. Total(U) \in Nat /\ m - 1 <= Total(U)
      BY <3>1, <3>2
    <3>4. Some(T).count \in Nat /\ Some(T).count > 0
      BY <3>1
    <3>5. Total(T) = Some(T).count + Total(U)
      BY <2>3, <2>5
    <3>. HIDE DEF U, Bad
    <3>. QED BY <2>2, <3>2, <3>3, <3>4, <3>5
  <2>. QED BY <2>4, <2>5
<1>2. Cardinality(S) \in Nat
  BY FS_CardinalityType
<1>. QED BY <1>1, <1>2

\* Whichever element is added last.
LEMMA TotalSplits ==
  ASSUME NEW S, Positive(S)
  PROVE  \A x \in S : Total(S) = x.count + Total(S \ {x})
<1>. USE DEF Positive
<1>. DEFINE Bad == {k \in Nat : \E T \in SUBSET S :
                     Cardinality(T) = k /\ \E x \in T : Total(T) # x.count + Total(T \ {x})}
<1>1. Bad = {}
  <2>. SUFFICES ASSUME Bad # {} PROVE FALSE
    OBVIOUS
  <2>1. PICK m \in Bad : \A k \in Bad : m <= k
    <3>1. Bad \in SUBSET Nat
      OBVIOUS
    <3>. HIDE DEF Bad
    <3>. QED BY <3>1, LeastNatural
  <2>2. PICK T \in SUBSET S : Cardinality(T) = m /\ \E x \in T : Total(T) # x.count + Total(T \ {x})
    BY <2>1
  <2>3. PICK x \in T : Total(T) # x.count + Total(T \ {x})
    BY <2>2
  <2>. DEFINE y == Some(T)  U == T \ {y}  V == T \ {x}  W == U \ {x}
  <2>4. T # {} /\ y \in T /\ IsFiniteSet(T) /\ m \in Nat /\ m > 0
    BY <2>2, <2>3, SomeLess
  <2>5. Total(T) = y.count + Total(U)
    BY <2>4, TotalUnfolds
  <2>6. x # y
    BY <2>3, <2>5
  <2>7. /\ U \in SUBSET S /\ Cardinality(U) = m - 1 /\ x \in U
        /\ V \in SUBSET S /\ Cardinality(V) = m - 1 /\ y \in V /\ V \ {y} = W
    BY <2>2, <2>4, <2>6, FS_RemoveElement
  <2>8. \A X \in SUBSET S : Cardinality(X) = m - 1 =>
          \A z \in X : Total(X) = z.count + Total(X \ {z})
    <3>1. m - 1 \in Nat /\ m - 1 \notin Bad
      BY <2>1, <2>4
    <3>. QED BY <3>1
  <2>9. Total(U) = x.count + Total(W) /\ Total(V) = y.count + Total(W)
    <3>. HIDE DEF y, U, V
    <3>. QED BY <2>7, <2>8
  <2>10. Positive(W)
    <3>1. W \in SUBSET S
      OBVIOUS
    <3>. QED BY <3>1, FS_Subset
  <2>11. Total(W) \in Nat /\ x.count \in Nat /\ y.count \in Nat
    <3>. HIDE DEF W, y
    <3>. QED BY <2>4, <2>10, TotalCounts
  <2>. HIDE DEF y, U, V, W, Bad
  <2>12. Total(T) = x.count + Total(V)
    BY <2>5, <2>9, <2>11
  <2>. QED BY <2>3, <2>12 DEF V
<1>2. Cardinality(S) \in Nat
  BY FS_CardinalityType
<1>. QED BY <1>1, <1>2

\* The sum of a part is no greater.
LEMMA TotalGrows ==
  ASSUME NEW S, Positive(S), NEW T \in SUBSET S
  PROVE  Total(T) <= Total(S)
<1>. USE DEF Positive
<1>. DEFINE Bad == {k \in Nat : \E U \in SUBSET S :
                     T \subseteq U /\ Cardinality(U) = k /\ ~(Total(T) <= Total(U))}
<1>1. Bad = {}
  <2>. SUFFICES ASSUME Bad # {} PROVE FALSE
    OBVIOUS
  <2>1. PICK m \in Bad : \A k \in Bad : m <= k
    <3>1. Bad \in SUBSET Nat
      OBVIOUS
    <3>. HIDE DEF Bad
    <3>. QED BY <3>1, LeastNatural
  <2>2. PICK U \in SUBSET S : T \subseteq U /\ Cardinality(U) = m /\ ~(Total(T) <= Total(U))
    BY <2>1
  <2>3. Positive(U) /\ Positive(T)
    BY FS_Subset
  <2>4. Total(T) \in Nat /\ Total(U) \in Nat
    BY <2>3, TotalCounts
  <2>5. U # T
    BY <2>2, <2>4
  <2>6. PICK x \in U : x \notin T
    BY <2>2, <2>5
  <2>. DEFINE V == U \ {x}
  <2>7. V \in SUBSET S /\ T \subseteq V /\ Positive(V)
    BY <2>2, <2>6, FS_Subset
  <2>8. Cardinality(V) = m - 1 /\ m \in Nat /\ m - 1 \in Nat
    <3>1. U # {} /\ IsFiniteSet(U) /\ m > 0
      BY <2>2, <2>3, <2>6, SomeLess
    <3>. QED BY <2>1, <2>2, <3>1, FS_RemoveElement
  <2>9. Total(U) = x.count + Total(V)
    BY <2>3, TotalSplits
  <2>. HIDE DEF V
  <2>10. Total(V) \in Nat /\ x.count \in Nat
    BY <2>7, TotalCounts
  <2>11. m - 1 \notin Bad
    BY <2>1, <2>8
  <2>12. Total(T) <= Total(V)
    BY <2>7, <2>8, <2>11
  <2>. HIDE DEF Bad
  <2>. QED BY <2>2, <2>4, <2>9, <2>10, <2>12
<1>2. T \subseteq S /\ Cardinality(S) \in Nat
  BY FS_CardinalityType
<1>. QED BY <1>1, <1>2
-----------------------------------------------------------------------------
(***************************************************************************)
(* Entries and windows.                                                    *)
(***************************************************************************)
Lists == {ChecksOf[c] : c \in Caller} \union {PendingOf[c] : c \in Caller}

LEMMA CheckEntries ==
  ASSUME NEW c \in Caller
  PROVE  /\ ChecksOf[c] \in Lists /\ ChecksOf[c] \in Seq(AllChecks)
         /\ \A n \in DOMAIN ChecksOf[c] :
              ChecksOf[c][n] \in AllChecks /\ ChecksOf[c][n].mode \in Checking
<1>1. ChecksOf[c] \in Lists /\ ChecksOf[c] \in Seq(AllChecks)
  BY LocalEntries DEF Lists
<1>2. ASSUME NEW e \in AllChecks PROVE e.mode \in Checking
  <2>1. e \in [key : Key, limit : {e.limit}, quota : Nat \ {0}, mode : {"check", "check_and_add"}]
    BY LocalEntries
  <2>. QED BY <2>1 DEF Checking
<1>. HIDE DEF ChecksOf, AllChecks
<1>. QED BY <1>1, <1>2

LEMMA PendingEntries ==
  ASSUME NEW c \in Caller
  PROVE  /\ PendingOf[c] \in Lists
         /\ PendingOf[c] # <<>> => DOMAIN PendingOf[c] # {}
         /\ DOMAIN PendingOf[c] \subseteq DOMAIN ChecksOf[c]
         /\ \A n \in DOMAIN PendingOf[c] :
              /\ ChecksOf[c][n].mode = "check" /\ PendingOf[c][n].mode = "add"
              /\ PendingOf[c][n].key = ChecksOf[c][n].key
              /\ PendingOf[c][n].limit = ChecksOf[c][n].limit
<1>. DEFINE D == {i \in DOMAIN ChecksOf[c] : ChecksOf[c][i].mode = "check"}
<1>1. PendingOf[c] = [i \in D |-> [ChecksOf[c][i] EXCEPT !.mode = "add"]]
  BY DEF PendingOf, Pending, ChecksOf
<1>2. PendingOf[c] \in Lists
  BY DEF Lists
<1>3. ASSUME NEW e \in AllChecks
      PROVE  LET p == [e EXCEPT !.mode = "add"]
             IN  p.mode = "add" /\ p.key = e.key /\ p.limit = e.limit
  <2>1. e \in [key : Key, limit : {e.limit}, quota : Nat \ {0}, mode : {"check", "check_and_add"}]
    BY LocalEntries
  <2>. HIDE DEF AllChecks
  <2>. QED BY <2>1
<1>4. \A n \in DOMAIN ChecksOf[c] : ChecksOf[c][n] \in AllChecks
  BY CheckEntries
<1>. HIDE DEF PendingOf, ChecksOf, AllChecks
<1>5. D = {} => PendingOf[c] = <<>>
  BY <1>1
<1>. QED BY <1>1, <1>2, <1>3, <1>4, <1>5

LEMMA KeyOfEntry == \A e \in AllChecks : e.key \in Key
BY DEF AllChecks, ChecksOf, Range, Key, Keys

LEMMA ListEntries ==
  ASSUME NEW es \in Lists
  PROVE  /\ DOMAIN es \in SUBSET (Nat \ {0}) /\ IsFiniteSet(DOMAIN es)
         /\ \A n \in DOMAIN es : es[n].key \in Key
<1>1. PICK c \in Caller : es = ChecksOf[c] \/ es = PendingOf[c]
  BY DEF Lists
<1>2. ChecksOf[c] \in Seq(AllChecks)
  BY CheckEntries
<1>3. DOMAIN ChecksOf[c] = 1..Len(ChecksOf[c]) /\ Len(ChecksOf[c]) \in Nat
  <2>. HIDE DEF ChecksOf, AllChecks
  <2>. QED BY <1>2
<1>4. IsFiniteSet(DOMAIN ChecksOf[c])
  BY <1>3, FS_Interval
<1>5. \A n \in DOMAIN ChecksOf[c] : ChecksOf[c][n].key \in Key
  BY CheckEntries, KeyOfEntry
<1>6. CASE es = ChecksOf[c]
  <2>. HIDE DEF ChecksOf
  <2>. QED BY <1>3, <1>4, <1>5, <1>6
<1>7. CASE es = PendingOf[c]
  <2>1. /\ DOMAIN PendingOf[c] \subseteq DOMAIN ChecksOf[c]
        /\ \A n \in DOMAIN PendingOf[c] : PendingOf[c][n].key = ChecksOf[c][n].key
    BY PendingEntries
  <2>2. IsFiniteSet(DOMAIN PendingOf[c])
    BY <1>4, <2>1, FS_Subset
  <2>. HIDE DEF ChecksOf, PendingOf
  <2>. QED BY <1>3, <1>5, <1>7, <2>1, <2>2
<1>. QED BY <1>1, <1>6, <1>7

\* Whatever is done to a bucket goes by the limit of its checks; what is only
\* written is a bucket of tokens.
LEMMA ListsAgree ==
  ASSUME BucketsAgree, NEW e \in AllChecks, NEW es \in Lists, NEW n \in DOMAIN es,
         es[n].key = e.key
  PROVE  /\ es[n].limit = e.limit
         /\ es[n].mode = "add" => e.mode = "check"
<1>1. PICK c \in Caller : es = ChecksOf[c] \/ es = PendingOf[c]
  BY DEF Lists
<1>2. ASSUME NEW i \in DOMAIN ChecksOf[c], ChecksOf[c][i].key = e.key
      PROVE  ChecksOf[c][i].limit = e.limit /\ ChecksOf[c][i].mode = e.mode
  <2>1. ChecksOf[c][i] \in Range(ChecksOf[c])
    BY DEF Range
  <2>. HIDE DEF ChecksOf, AllChecks
  <2>. QED BY <1>2, <2>1 DEF BucketsAgree
<1>3. CASE es = ChecksOf[c]
  <2>1. es[n].mode \in Checking
    BY <1>3, CheckEntries
  <2>. HIDE DEF ChecksOf
  <2>. QED BY <1>2, <1>3, <2>1 DEF Checking
<1>4. CASE es = PendingOf[c]
  <2>1. /\ n \in DOMAIN ChecksOf[c] /\ ChecksOf[c][n].mode = "check"
        /\ es[n].key = ChecksOf[c][n].key /\ es[n].limit = ChecksOf[c][n].limit
    BY <1>4, PendingEntries
  <2>. HIDE DEF ChecksOf, PendingOf
  <2>. QED BY <1>2, <2>1
<1>. QED BY <1>1, <1>3, <1>4

LEMMA NextInIs ==
  ASSUME NEW es, DOMAIN es \in SUBSET (Nat \ {0}), NEW m \in Nat, NEW modes
  PROVE  LET n == NextIn(es, m, modes)
         IN \/ n = 0 /\ \A i \in DOMAIN es : ~(i >= m /\ es[i].mode \in modes)
            \/ /\ n # 0 /\ n \in DOMAIN es /\ n >= m /\ es[n].mode \in modes
               /\ \A i \in DOMAIN es : i >= m /\ es[i].mode \in modes => n <= i
<1>. DEFINE rest == {n \in DOMAIN es : n >= m /\ es[n].mode \in modes}
<1>1. CASE rest = {}
  BY <1>1 DEF NextIn
<1>2. CASE rest # {}
  <2>1. PICK x \in rest : \A y \in rest : x <= y
    <3>1. rest \in SUBSET Nat
      OBVIOUS
    <3>. HIDE DEF rest
    <3>. QED BY <1>2, <3>1, LeastNatural
  <2>2. Min(rest) \in rest /\ \A y \in rest : Min(rest) <= y
    <3>. HIDE DEF rest
    <3>. QED BY <2>1 DEF Min
  <2>3. NextIn(es, m, modes) = Min(rest)
    BY <1>2 DEF NextIn
  <2>4. \A i \in DOMAIN es : i >= m /\ es[i].mode \in modes => i \in rest
    OBVIOUS
  <2>5. Min(rest) \in DOMAIN es /\ Min(rest) >= m /\ es[Min(rest)].mode \in modes
    BY <2>2
  <2>6. Min(rest) # 0
    BY <2>5
  <2>. HIDE DEF rest
  <2>. QED BY <2>2, <2>3, <2>4, <2>5, <2>6
<1>. QED BY <1>1, <1>2

\* What is younger counts at t.
Edge(limit, t) == t - WindowAt(limit, t)

\* The period of a calendar that t falls into.
LEMMA PeriodAround ==
  ASSUME NEW starts \in SUBSET Int, NEW t \in Nat, \E s \in starts : s <= t
  PROVE  /\ PeriodStart(starts, t) \in starts /\ PeriodStart(starts, t) <= t
         /\ \A s \in starts : s <= t => s <= PeriodStart(starts, t)
<1>1. \E x \in {s \in starts : s <= t} : \A y \in {s \in starts : s <= t} : x >= y
  <2>. DEFINE D == {n \in Nat : t - n \in starts}
  <2>1. D \in SUBSET Nat /\ D # {}
    <3>1. PICK s \in starts : s <= t
      OBVIOUS
    <3>2. t - s \in Nat /\ t - (t - s) = s
      BY <3>1
    <3>. QED BY <3>1, <3>2
  <2>2. PICK m \in D : \A n \in D : m <= n
    <3>. HIDE DEF D
    <3>. QED BY <2>1, LeastNatural
  <2>3. ASSUME NEW y \in starts, y <= t PROVE t - m >= y
    <3>1. t - y \in Nat /\ t - (t - y) = y
      BY <2>3
    <3>2. t - y \in D
      BY <3>1
    <3>3. m \in Nat /\ m <= t - y
      BY <2>2, <3>2
    <3>. QED BY <3>3
  <2>4. t - m \in starts /\ t - m <= t
    BY <2>2
  <2>. QED BY <2>3, <2>4
<1>2. /\ PeriodStart(starts, t) \in {s \in starts : s <= t}
      /\ \A y \in {s \in starts : s <= t} : PeriodStart(starts, t) >= y
  BY <1>1 DEF PeriodStart, Max
<1>. QED BY <1>2

LEMMA WindowOfCalendar ==
  ASSUME NEW limit, limit.starts # {}, NEW t \in Nat, PeriodStart(limit.starts, t) \in Int
  PROVE  LET s == PeriodStart(limit.starts, t)
         IN  WindowAt(limit, t) = IF t - s >= 1 THEN t - s ELSE 1
<1>. DEFINE d == t - PeriodStart(limit.starts, t)
<1>1. Max({1, d}) = IF d >= 1 THEN d ELSE 1
  <2>1. d \in Int
    OBVIOUS
  <2>. HIDE DEF d
  <2>. QED BY <2>1 DEF Max
<1>. QED BY <1>1 DEF WindowAt

\* A later BatchEval counts nothing that an earlier one did not.
LEMMA EdgeAdvances ==
  ASSUME NEW e \in AllChecks, NEW t \in 0..MaxTime, NEW u \in t..MaxTime
  PROVE  /\ Edge(e.limit, t) \in Int /\ Edge(e.limit, u) \in Int
         /\ Edge(e.limit, t) <= Edge(e.limit, u)
<1>1. t \in Nat /\ u \in Nat /\ t <= u /\ t \in 0..MaxTime /\ u \in 0..MaxTime
  BY LocalAssumption
<1>2. CASE e.limit.starts = {}
  BY <1>1, <1>2, LocalEntries DEF Edge, WindowAt
<1>3. CASE e.limit.starts # {}
  <2>. DEFINE s == PeriodStart(e.limit.starts, t)
              v == PeriodStart(e.limit.starts, u)
  <2>1. /\ e.limit.starts \in SUBSET Int
        /\ \A x \in 0..MaxTime : \E y \in e.limit.starts : y <= x
    BY <1>3, LocalEntries
  <2>2. /\ s \in e.limit.starts /\ s <= t
        /\ v \in e.limit.starts /\ v <= u
        /\ \A y \in e.limit.starts : y <= u => y <= v
    BY <1>1, <2>1, PeriodAround
  <2>3. s \in Int /\ v \in Int /\ s <= v
    BY <1>1, <2>1, <2>2
  <2>4. /\ WindowAt(e.limit, t) = IF t - s >= 1 THEN t - s ELSE 1
        /\ WindowAt(e.limit, u) = IF u - v >= 1 THEN u - v ELSE 1
    BY <1>1, <1>3, <2>3, WindowOfCalendar
  <2>. HIDE DEF s, v
  <2>. QED BY <1>1, <2>2, <2>3, <2>4 DEF Edge
<1>. QED BY <1>2, <1>3
-----------------------------------------------------------------------------
(***************************************************************************)
(* Where the workers are.                                                  *)
(***************************************************************************)
Records == [by : Worker \X Nat, pos : Nat, score : 0..MaxTime, count : Nat \ {0}]

Values == [cas : Nat, list : SUBSET Records]

Here(w) == entries[w][pos[w]]

Writing(w) == pc[w] \in {"load", "store"}

Batch ==
  /\ pc \in [Worker -> {"idle", "check", "load", "store"}]
  /\ entries \in [Worker -> Lists \union {<<>>}] /\ pos \in [Worker -> Nat]
  /\ at \in [Worker -> 0..MaxTime] /\ count \in [Worker -> Nat]
  /\ seen \in [Worker -> Values]

Types ==
  /\ Batch /\ now \in 0..MaxTime /\ \A w \in Worker : at[w] <= now
  /\ hook \in [Worker -> Nat] /\ open \in [Worker -> SUBSET [caller : Caller, hook : Nat]]
  /\ kv \in [Key -> Values] /\ charged \in [Key -> SUBSET Records]

\* Where a BatchEval stands.
Stands(w) ==
  /\ pc[w] # "idle" => entries[w] \in Lists /\ pos[w] \in DOMAIN entries[w] /\ count[w] > 0
  /\ pc[w] = "check" => \E c \in Caller : entries[w] = ChecksOf[c]
  /\ Writing(w) => Here(w).mode \in Adding

\* All that pass 2 writes has been charged,
Promised(w) ==
  Writing(w) => \A n \in DOMAIN entries[w] : entries[w][n].mode \in Adding =>
    RecordOf(<<w, hook[w]>>, n, at[w], count[w]) \in charged[entries[w][n].key]

\* and what is charged to a hook that is running is one of its entries.
Owner(k, c) ==
  LET v == c.by[1]
  IN /\ c.by[2] <= hook[v]
     /\ pc[v] = "check" => c.by[2] # hook[v]
     /\ Writing(v) /\ c.by[2] = hook[v] =>
          /\ c = RecordOf(<<v, hook[v]>>, c.pos, at[v], count[v])
          /\ c.pos \in DOMAIN entries[v]
          /\ entries[v][c.pos].key = k /\ entries[v][c.pos].mode \in Adding

\* What a worker is about to store is right unless its key has been written.
Copies(w) ==
  pc[w] = "store" =>
    LET k == Here(w).key
    IN /\ seen[w].list \subseteq charged[k] /\ seen[w].cas <= kv[k].cas
       /\ k \in Established => seen[w].cas > 0
       /\ seen[w].cas = kv[k].cas =>
            seen[w].list = Live(kv[k].list, Here(w).limit, at[w]) \union {Record(w)}

Stored(k) ==
  /\ kv[k].list \subseteq charged[k] /\ IsFiniteSet(charged[k])
  /\ k \in Established => kv[k].cas > 0

Typed ==
  /\ Types
  /\ \A w \in Worker : Stands(w) /\ Promised(w) /\ Copies(w)
  /\ \A k \in Key : Stored(k) /\ \A c \in charged[k] : Owner(k, c)

LEMMA InitTyped == Init => Typed
<1>. SUFFICES ASSUME Init PROVE Typed
  OBVIOUS
<1>1. Types
  <2>1. Nothing \in Values
    BY DEF Nothing, Values
  <2>2. kv \in [Key -> Values]
    BY DEF Init, Nothing, Values
  <2>3. 0 \in 0..MaxTime
    BY LocalAssumption
  <2>. QED BY <2>1, <2>2, <2>3 DEF Init, Types, Batch
<1>2. \A w \in Worker : Stands(w) /\ Promised(w) /\ Copies(w)
  BY DEF Init, Stands, Promised, Copies, Writing
<1>3. \A k \in Key : Stored(k) /\ \A c \in charged[k] : Owner(k, c)
  BY FS_EmptySet DEF Init, Stored, Nothing
<1>. QED BY <1>1, <1>2, <1>3 DEF Typed

\* A step leaves the BatchEval of a worker alone.
Same(v) ==
  /\ pc'[v] = pc[v] /\ entries'[v] = entries[v] /\ at'[v] = at[v]
  /\ count'[v] = count[v] /\ pos'[v] = pos[v] /\ seen'[v] = seen[v]

OnlyMoves(w) == Batch' /\ \A v \in Worker \ {w} : Same(v)

LEMMA ReturnIs ==
  ASSUME Batch, NEW w \in Worker, Return(w)
  PROVE  OnlyMoves(w) /\ pc'[w] = "idle" /\ at'[w] = 0
<1>1. Nothing \in Values /\ 0 \in 0..MaxTime
  BY LocalAssumption DEF Nothing, Values
<1>2. Batch'
  BY <1>1 DEF Return, Batch
<1>. QED BY <1>2 DEF Return, Batch, OnlyMoves, Same

LEMMA GotoIs ==
  ASSUME Batch, NEW w \in Worker, NEW label \in {"check", "load"}, NEW n \in Nat, Goto(w, label, n)
  PROVE  /\ OnlyMoves(w) /\ pc'[w] = label /\ pos'[w] = n
         /\ entries'[w] = entries[w] /\ at'[w] = at[w] /\ count'[w] = count[w]
<1>1. Nothing \in Values
  BY DEF Nothing, Values
<1>2. Batch'
  BY <1>1 DEF Goto, Batch
<1>. QED BY <1>2 DEF Goto, Batch, OnlyMoves, Same

\* Pass 2 goes on behind its (n - 1)-st entry.
GoesOn(w, n) ==
  /\ OnlyMoves(w)
  /\ \/ /\ pc'[w] = "idle" /\ at'[w] = 0
        /\ \A i \in DOMAIN entries[w] : ~(i >= n /\ entries[w][i].mode \in Adding)
     \/ /\ pc'[w] = "load"
        /\ entries'[w] = entries[w] /\ at'[w] = at[w] /\ count'[w] = count[w]
        /\ pos'[w] \in DOMAIN entries[w] /\ pos'[w] >= n
        /\ entries[w][pos'[w]].mode \in Adding
        /\ \A i \in DOMAIN entries[w] :
             i >= n /\ entries[w][i].mode \in Adding => pos'[w] <= i

LEMMA WriteIs ==
  ASSUME Batch, NEW w \in Worker, entries[w] \in Lists, NEW n \in Nat, Write(w, entries[w], n)
  PROVE  GoesOn(w, n)
<1>. DEFINE m == NextIn(entries[w], n, Adding)
<1>1. DOMAIN entries[w] \in SUBSET (Nat \ {0})
  BY ListEntries
<1>2. \/ m = 0 /\ \A i \in DOMAIN entries[w] : ~(i >= n /\ entries[w][i].mode \in Adding)
      \/ /\ m # 0 /\ m \in DOMAIN entries[w] /\ m >= n /\ entries[w][m].mode \in Adding
         /\ \A i \in DOMAIN entries[w] : i >= n /\ entries[w][i].mode \in Adding => m <= i
  BY <1>1, NextInIs
<1>3. IF m = 0 THEN Return(w) ELSE Goto(w, "load", m)
  BY DEF Write
<1>. HIDE DEF m
<1>4. CASE m = 0
  BY <1>2, <1>3, <1>4, ReturnIs DEF GoesOn
<1>5. CASE m # 0
  <2>1. m \in Nat
    BY <1>1, <1>2, <1>5
  <2>2. /\ OnlyMoves(w) /\ pc'[w] = "load" /\ pos'[w] = m
        /\ entries'[w] = entries[w] /\ at'[w] = at[w] /\ count'[w] = count[w]
    BY <1>3, <1>5, <2>1, GotoIs
  <2>. QED BY <1>2, <1>5, <2>2 DEF GoesOn
<1>. QED BY <1>4, <1>5

\* The image of a finite set.
LEMMA ImageFinite ==
  ASSUME NEW S, IsFiniteSet(S), NEW T, NEW f \in [S -> T], \A y \in T : \E x \in S : f[x] = y
  PROVE  IsFiniteSet(T) /\ Cardinality(T) <= Cardinality(S)
<1>1. f \in Surjection(S, T)
  BY DEF Surjection
<1>. QED BY <1>1, FS_Surjection

\* What the hook adds to the history, and nothing else.
Charges(es, by, t, sum) ==
  /\ charged' \in [Key -> SUBSET Records]
  /\ \A k \in Key :
       /\ charged[k] \subseteq charged'[k] /\ IsFiniteSet(charged'[k])
       /\ \A c \in charged'[k] \ charged[k] : \E n \in DOMAIN es :
            /\ es[n].key = k /\ es[n].mode \in Adding
            /\ c = RecordOf(by, n, t, sum)
  /\ \A n \in DOMAIN es : es[n].mode \in Adding => RecordOf(by, n, t, sum) \in charged'[es[n].key]

LEMMA ChargeIs ==
  ASSUME NEW es \in Lists, NEW by \in Worker \X Nat, NEW t \in 0..MaxTime, NEW sum \in Nat \ {0},
         charged \in [Key -> SUBSET Records], \A k \in Key : IsFiniteSet(charged[k]),
         Charge(es, by, t, sum)
  PROVE  Charges(es, by, t, sum)
<1>. DEFINE P(k) == {n \in DOMAIN es : es[n].key = k /\ es[n].mode \in Adding}
            R(k) == {RecordOf(by, n, t, sum) : n \in P(k)}
<1>1. /\ DOMAIN es \in SUBSET (Nat \ {0}) /\ IsFiniteSet(DOMAIN es)
      /\ \A n \in DOMAIN es : es[n].key \in Key
  BY ListEntries
<1>2. charged' = [k \in Key |-> charged[k] \union R(k)]
  BY DEF Charge
<1>3. ASSUME NEW k \in Key
      PROVE  R(k) \in SUBSET Records /\ IsFiniteSet(R(k))
  <2>1. P(k) \in SUBSET Nat /\ IsFiniteSet(P(k))
    BY <1>1, FS_Subset
  <2>2. \A n \in Nat : RecordOf(by, n, t, sum) \in Records
    BY DEF RecordOf, Records
  <2>. DEFINE f == [n \in P(k) |-> RecordOf(by, n, t, sum)]
  <2>3. f \in [P(k) -> R(k)] /\ \A y \in R(k) : \E x \in P(k) : f[x] = y
    OBVIOUS
  <2>4. IsFiniteSet(R(k))
    <3>. HIDE DEF P, R, f
    <3>. QED BY <2>1, <2>3, ImageFinite
  <2>5. R(k) \in SUBSET Records
    BY <2>1, <2>2
  <2>. QED BY <2>4, <2>5
<1>4. \A k \in Key : \A c \in R(k) : \E n \in DOMAIN es :
        es[n].key = k /\ es[n].mode \in Adding /\ c = RecordOf(by, n, t, sum)
  OBVIOUS
<1>5. \A n \in DOMAIN es : es[n].mode \in Adding => RecordOf(by, n, t, sum) \in R(es[n].key)
  OBVIOUS
<1>. HIDE DEF R
<1>6. \A k \in Key : IsFiniteSet(charged'[k])
  BY <1>2, <1>3, FS_Union
<1>7. charged' \in [Key -> SUBSET Records]
  BY <1>2, <1>3
<1>8. \A k \in Key : charged[k] \subseteq charged'[k] /\ \A c \in charged'[k] \ charged[k] : c \in R(k)
  BY <1>2
<1>9. \A n \in DOMAIN es : es[n].mode \in Adding => RecordOf(by, n, t, sum) \in charged'[es[n].key]
  BY <1>1, <1>2, <1>5
<1>. QED BY <1>4, <1>6, <1>7, <1>8, <1>9 DEF Charges

\* What is left to show of a step of one worker.
LEMMA OthersStay ==
  ASSUME Typed, Types', NEW w \in Worker,
         \A v \in Worker \ {w} : Same(v) /\ hook'[v] = hook[v],
         Stands(w)', Promised(w)', Copies(w)',
         \A k \in Key :
           /\ charged[k] \subseteq charged'[k]
           /\ \A c \in charged'[k] \ charged[k] : c.by[1] = w
           /\ \A c \in charged'[k] : c.by[1] = w => Owner(k, c)'
           /\ kv'[k] = kv[k] \/ kv'[k].cas > kv[k].cas
           /\ Stored(k)'
  PROVE  Typed'
<1>1. ASSUME NEW v \in Worker \ {w}
      PROVE  Stands(v)' /\ Promised(v)' /\ Copies(v)'
  <2>1. /\ Stands(v) /\ Promised(v) /\ Copies(v)
        /\ Same(v) /\ hook'[v] = hook[v] /\ Here(v)' = Here(v) /\ Writing(v)' = Writing(v)
    BY DEF Typed, Same, Here, Writing
  <2>2. Stands(v)'
    BY <2>1 DEF Stands, Same
  <2>3. pc[v] # "idle" =>
          /\ pos[v] \in DOMAIN entries[v]
          /\ \A n \in DOMAIN entries[v] : entries[v][n].key \in Key
    BY <2>1, ListEntries DEF Stands
  <2>4. Promised(v)'
    BY <2>1, <2>3 DEF Promised, Same, Writing
  <2>5. Copies(v)'
    <3>. SUFFICES ASSUME pc[v] = "store" PROVE Copies(v)'
      BY <2>1 DEF Copies, Same
    <3>. DEFINE k == Here(v).key
    <3>1. k \in Key
      BY <2>3 DEF Here
    <3>2. /\ charged[k] \subseteq charged'[k] /\ (kv'[k] = kv[k] \/ kv'[k].cas > kv[k].cas)
          /\ kv[k].cas \in Nat /\ kv'[k].cas \in Nat /\ seen[v].cas \in Nat
      BY <3>1 DEF Typed, Types, Batch, Values
    <3>3. /\ seen[v].list \subseteq charged[k] /\ seen[v].cas <= kv[k].cas
          /\ k \in Established => seen[v].cas > 0
          /\ seen[v].cas = kv[k].cas =>
               seen[v].list = Live(kv[k].list, Here(v).limit, at[v]) \union {Record(v)}
      BY <2>1 DEF Copies
    <3>4. Record(v)' = Record(v) /\ Here(v)'.key = k /\ Here(v)'.limit = Here(v).limit
      BY <2>1 DEF Record, Same
    <3>5. /\ seen'[v].list \subseteq charged'[k] /\ seen'[v].cas <= kv'[k].cas
          /\ k \in Established => seen'[v].cas > 0
          /\ seen'[v].cas = kv'[k].cas => kv'[k] = kv[k]
      BY <2>1, <3>2, <3>3 DEF Same
    <3>6. seen'[v].cas = kv'[k].cas =>
            seen'[v].list = Live(kv'[k].list, Here(v).limit, at'[v]) \union {Record(v)'}
      BY <2>1, <3>3, <3>4, <3>5 DEF Same
    <3>. HIDE DEF k
    <3>. QED BY <3>4, <3>5, <3>6 DEF Copies
  <2>. QED BY <2>2, <2>4, <2>5
<1>2. ASSUME NEW k \in Key, NEW c \in charged'[k]
      PROVE  Owner(k, c)'
  <2>1. CASE c.by[1] = w
    BY <2>1
  <2>2. CASE c.by[1] # w
    <3>1. c \in charged[k] /\ Owner(k, c) /\ c.by[1] \in Worker
      BY <2>2 DEF Typed, Types, Records
    <3>2. Same(c.by[1]) /\ hook'[c.by[1]] = hook[c.by[1]]
      BY <2>2, <3>1
    <3>. QED BY <3>1, <3>2 DEF Owner, Same, Writing
  <2>. QED BY <2>1, <2>2
<1>. QED BY <1>1, <1>2 DEF Typed

\* What a running worker is about.
LEMMA Running ==
  ASSUME Typed, NEW w \in Worker, pc[w] # "idle"
  PROVE  /\ Batch /\ entries[w] \in Lists /\ pos[w] \in DOMAIN entries[w] /\ pos[w] \in Nat \ {0}
         /\ Here(w) = entries[w][pos[w]] /\ Here(w).key \in Key
         /\ count[w] \in Nat \ {0} /\ at[w] \in 0..MaxTime /\ at[w] <= now
         /\ <<w, hook[w]>> \in Worker \X Nat /\ Record(w) \in Records
<1>1. /\ entries[w] \in Lists /\ pos[w] \in DOMAIN entries[w]
      /\ count[w] \in Nat \ {0} /\ at[w] \in 0..MaxTime /\ at[w] <= now
      /\ <<w, hook[w]>> \in Worker \X Nat
  BY DEF Typed, Stands, Types, Batch
<1>2. pos[w] \in Nat \ {0} /\ Here(w).key \in Key
  BY <1>1, ListEntries DEF Here
<1>3. Record(w) \in Records
  BY <1>1, <1>2 DEF Record, RecordOf, Records
<1>. QED BY <1>1, <1>2, <1>3 DEF Here, Typed, Types

LEMMA ArriveTyped == ASSUME Typed, NEW w \in Worker, Arrive(w) PROVE Typed'
<1>1. PICK c \in Caller :
        /\ ChecksOf[c] # <<>>
        /\ entries' = [entries EXCEPT ![w] = ChecksOf[c]]
        /\ open' = [open EXCEPT ![w] = @ \union {[caller |-> c, hook |-> hook'[w]]}]
        /\ pos' = [pos EXCEPT ![w] = NextIn(ChecksOf[c], 1, Checking)]
  BY DEF Arrive
<1>2. /\ pc[w] = "idle" /\ hook' = [hook EXCEPT ![w] = @ + 1]
      /\ at' = [at EXCEPT ![w] = now] /\ count' = [count EXCEPT ![w] = 1]
      /\ pc' = [pc EXCEPT ![w] = "check"]
      /\ UNCHANGED <<now, kv, seen, charged>>
  BY DEF Arrive
<1>3. /\ ChecksOf[c] \in Lists /\ ChecksOf[c] \in Seq(AllChecks)
      /\ \A n \in DOMAIN ChecksOf[c] : ChecksOf[c][n].mode \in Checking
  BY CheckEntries
<1>. DEFINE n == NextIn(ChecksOf[c], 1, Checking)
<1>4. n \in DOMAIN ChecksOf[c] /\ n \in Nat
  <2>1. 1 \in DOMAIN ChecksOf[c] /\ DOMAIN ChecksOf[c] \in SUBSET (Nat \ {0})
    <3>. HIDE DEF ChecksOf, AllChecks
    <3>. QED BY <1>1, <1>3
  <2>. HIDE DEF ChecksOf
  <2>. QED BY <1>3, <2>1, NextInIs
<1>. HIDE DEF n, ChecksOf
<1>5. Types'
  <2>1. Batch'
    BY <1>1, <1>2, <1>3, <1>4 DEF Typed, Types, Batch, n
  <2>2. /\ hook' \in [Worker -> Nat] /\ hook'[w] \in Nat
        /\ open' \in [Worker -> SUBSET [caller : Caller, hook : Nat]]
    BY <1>1, <1>2 DEF Typed, Types
  <2>3. \A v \in Worker : at'[v] <= now'
    BY <1>2, LocalAssumption DEF Typed, Types, Batch
  <2>. QED BY <1>2, <2>1, <2>2, <2>3 DEF Typed, Types
<1>6. \A v \in Worker \ {w} : Same(v) /\ hook'[v] = hook[v]
  BY <1>1, <1>2 DEF Same, Typed, Types, Batch
<1>7. pc'[w] = "check" /\ entries'[w] = ChecksOf[c] /\ pos'[w] = n /\ count'[w] = 1
      /\ hook'[w] = hook[w] + 1 /\ hook[w] \in Nat
  BY <1>1, <1>2 DEF Typed, Types, Batch, n
<1>8. Stands(w)' /\ Promised(w)' /\ Copies(w)'
  BY <1>3, <1>4, <1>7 DEF Stands, Promised, Copies, Writing
<1>9. ASSUME NEW k \in Key, NEW d \in charged'[k], d.by[1] = w
      PROVE  Owner(k, d)'
  <2>1. Owner(k, d) /\ d \in Records
    BY <1>2 DEF Typed, Types
  <2>2. d.by[2] \in Nat /\ d.by[2] <= hook[w]
    BY <1>9, <2>1 DEF Owner, Records
  <2>. QED BY <1>7, <1>9, <2>2 DEF Owner, Writing
<1>10. \A k \in Key : Stored(k)'
  BY <1>2 DEF Typed, Stored
<1>. QED BY <1>2, <1>5, <1>6, <1>8, <1>9, <1>10, OthersStay

\* A worker that leaves the two passes, or goes on with the second one.
LEMMA GoesOnTyped ==
  ASSUME Typed, NEW w \in Worker, pc[w] # "idle", NEW n \in Nat, GoesOn(w, n),
         UNCHANGED <<now, hook, charged>>, Writing(w),
         open' \in [Worker -> SUBSET [caller : Caller, hook : Nat]],
         kv' \in [Key -> Values],
         \A k \in Key : (kv'[k] = kv[k] \/ kv'[k].cas > kv[k].cas) /\ Stored(k)'
  PROVE  Typed'
<1>1. /\ OnlyMoves(w)
      /\ \/ pc'[w] = "idle" /\ at'[w] = 0
         \/ /\ pc'[w] = "load"
            /\ entries'[w] = entries[w] /\ at'[w] = at[w] /\ count'[w] = count[w]
            /\ pos'[w] \in DOMAIN entries[w] /\ entries[w][pos'[w]].mode \in Adding
  BY DEF GoesOn
<1>2. Types'
  <2>1. at'[w] <= now'
    BY <1>1, Running, LocalAssumption DEF Typed, Types
  <2>2. \A v \in Worker \ {w} : at'[v] <= now'
    BY <1>1 DEF OnlyMoves, Same, Typed, Types
  <2>. QED BY <1>1, <2>1, <2>2 DEF OnlyMoves, Typed, Types
<1>3. Stands(w)' /\ Copies(w)'
  <2>1. entries[w] \in Lists /\ count[w] \in Nat \ {0}
    BY Running
  <2>. QED BY <1>1, <2>1 DEF Stands, Copies, Writing, Here
<1>4. Promised(w)'
  BY <1>1 DEF Typed, Promised, Writing
<1>5. ASSUME NEW k \in Key, NEW c \in charged'[k], c.by[1] = w
      PROVE  Owner(k, c)'
  <2>1. c \in charged[k] /\ Owner(k, c) /\ hook'[w] = hook[w]
    BY DEF Typed
  <2>2. CASE pc'[w] = "idle"
    BY <1>5, <2>1, <2>2 DEF Owner, Writing
  <2>3. CASE pc'[w] = "load" /\ entries'[w] = entries[w] /\ at'[w] = at[w] /\ count'[w] = count[w]
    BY <1>5, <2>1, <2>3 DEF Owner, Writing
  <2>. QED BY <1>1, <2>2, <2>3
<1>. QED BY <1>1, <1>2, <1>3, <1>4, <1>5, OthersStay DEF OnlyMoves

\* Pass 1 is over: the hook is charged what pass 2 is going to write.
LEMMA ChargedTyped ==
  ASSUME Typed, NEW w \in Worker, OnlyMoves(w), Types', UNCHANGED kv,
         \A v \in Worker \ {w} : hook'[v] = hook[v],
         NEW es \in Lists, NEW t \in 0..MaxTime, NEW sum \in Nat \ {0}, NEW n \in Nat,
         Charges(es, <<w, n>>, t, sum),
         \A i \in DOMAIN es : es[i].mode \in Adding => pc'[w] = "load",
         hook'[w] = n, \A k \in Key : \A c \in charged[k] : c.by[1] = w => c.by[2] < n,
         \/ pc'[w] = "idle"
         \/ /\ pc'[w] = "load" /\ entries'[w] = es /\ at'[w] = t /\ count'[w] = sum
            /\ pos'[w] \in DOMAIN es /\ es[pos'[w]].mode \in Adding
  PROVE  Typed'
<1>1. /\ \A k \in Key :
           /\ charged[k] \subseteq charged'[k] /\ IsFiniteSet(charged'[k])
           /\ \A c \in charged'[k] \ charged[k] : \E i \in DOMAIN es :
                es[i].key = k /\ es[i].mode \in Adding /\ c = RecordOf(<<w, n>>, i, t, sum)
      /\ \A i \in DOMAIN es :
           es[i].mode \in Adding => RecordOf(<<w, n>>, i, t, sum) \in charged'[es[i].key]
  BY DEF Charges
<1>2. Stands(w)' /\ Copies(w)'
  BY DEF Stands, Copies, Writing, Here
<1>3. Promised(w)'
  BY <1>1 DEF Promised, Writing
<1>4. ASSUME NEW k \in Key, NEW c \in charged'[k] \ charged[k]
      PROVE  c.by[1] = w /\ Owner(k, c)'
  <2>1. PICK i \in DOMAIN es : /\ es[i].key = k /\ es[i].mode \in Adding
                               /\ c = RecordOf(<<w, n>>, i, t, sum)
    BY <1>1
  <2>2. c.by[1] = w /\ c.by[2] = n /\ c.pos = i
    BY <2>1 DEF RecordOf
  <2>3. /\ pc'[w] = "load" /\ entries'[w] = es /\ at'[w] = t /\ count'[w] = sum
    BY <2>1
  <2>. QED BY <2>1, <2>2, <2>3 DEF Owner, Writing
<1>5. ASSUME NEW k \in Key, NEW c \in charged[k], c.by[1] = w
      PROVE  Owner(k, c)'
  <2>1. c.by[2] \in Nat /\ c.by[2] < n
    BY <1>5 DEF Typed, Types, Records
  <2>. QED BY <1>5, <2>1 DEF Owner
<1>6. \A k \in Key : Stored(k)'
  BY <1>1 DEF Typed, Stored
<1>7. \A v \in Worker \ {w} : Same(v)
  BY DEF OnlyMoves
<1>. QED BY <1>1, <1>2, <1>3, <1>4, <1>5, <1>6, <1>7, OthersStay

LEMMA StreamDoneTyped == ASSUME Typed, NEW w \in Worker, StreamDone(w) PROVE Typed'
<1>1. PICK q \in open[w], sum \in 1..MaxTokens :
        /\ PendingOf[q.caller] # <<>>
        /\ open' = [open EXCEPT ![w] = @ \ {q}]
        /\ entries' = [entries EXCEPT ![w] = PendingOf[q.caller]]
        /\ count' = [count EXCEPT ![w] = sum]
        /\ Charge(PendingOf[q.caller], <<w, hook[w] + 1>>, now, sum)
  BY DEF StreamDone
<1>2. /\ pc[w] = "idle" /\ hook' = [hook EXCEPT ![w] = @ + 1]
      /\ at' = [at EXCEPT ![w] = now] /\ pos' = [pos EXCEPT ![w] = NextIn(entries'[w], 1, Adding)]
      /\ pc' = [pc EXCEPT ![w] = "load"]
      /\ UNCHANGED <<now, kv, seen>>
  BY DEF StreamDone
<1>. DEFINE es == PendingOf[q.caller]  n == NextIn(es, 1, Adding)
<1>3. q.caller \in Caller /\ now \in 0..MaxTime /\ sum \in Nat \ {0} /\ hook[w] \in Nat
  BY DEF Typed, Types
<1>4. /\ es \in Lists /\ DOMAIN es # {} /\ DOMAIN es \in SUBSET (Nat \ {0})
      /\ \A i \in DOMAIN es : es[i].mode \in Adding
  <2>1. /\ es \in Lists /\ DOMAIN es # {}
        /\ \A i \in DOMAIN es : es[i].mode = "add"
    BY <1>1, <1>3, PendingEntries
  <2>. HIDE DEF es
  <2>. QED BY <2>1, ListEntries DEF Adding
<1>. HIDE DEF es
<1>5. n \in DOMAIN es /\ n \in Nat /\ es[n].mode \in Adding
  BY <1>4, NextInIs
<1>6. Charges(es, <<w, hook[w] + 1>>, now, sum)
  <2>1. <<w, hook[w] + 1>> \in Worker \X Nat
    BY <1>3
  <2>2. charged \in [Key -> SUBSET Records] /\ \A k \in Key : IsFiniteSet(charged[k])
    BY DEF Typed, Types, Stored
  <2>3. Charge(es, <<w, hook[w] + 1>>, now, sum)
    BY <1>1 DEF es
  <2>. QED BY <1>3, <1>4, <2>1, <2>2, <2>3, ChargeIs
<1>7. /\ entries' = [entries EXCEPT ![w] = es] /\ entries'[w] = es
      /\ pos' = [pos EXCEPT ![w] = n]
  BY <1>1, <1>2 DEF Typed, Types, Batch, es, n
<1>. HIDE DEF n
<1>8. OnlyMoves(w)
  <2>1. Batch'
    BY <1>1, <1>2, <1>3, <1>4, <1>5, <1>7 DEF Typed, Types, Batch
  <2>. QED BY <1>1, <1>2, <1>7, <2>1 DEF OnlyMoves, Same, Typed, Types, Batch
<1>9. Types'
  <2>1. hook' \in [Worker -> Nat] /\ open' \in [Worker -> SUBSET [caller : Caller, hook : Nat]]
    BY <1>1, <1>2 DEF Typed, Types
  <2>2. \A v \in Worker : at'[v] <= now'
    BY <1>2, <1>3, LocalAssumption DEF Typed, Types, Batch
  <2>. QED BY <1>2, <1>6, <1>8, <2>1, <2>2 DEF Typed, Types, OnlyMoves, Charges
<1>10. /\ hook'[w] = hook[w] + 1 /\ pc'[w] = "load" /\ at'[w] = now /\ count'[w] = sum /\ pos'[w] = n
       /\ \A v \in Worker \ {w} : hook'[v] = hook[v]
  BY <1>1, <1>2, <1>7 DEF Typed, Types, Batch
<1>11. \A k \in Key : \A c \in charged[k] : c.by[1] = w => c.by[2] < hook[w] + 1
  <2>1. ASSUME NEW k \in Key, NEW c \in charged[k], c.by[1] = w PROVE c.by[2] < hook[w] + 1
    <3>1. Owner(k, c) /\ c.by[2] \in Nat
      BY DEF Typed, Types, Records
    <3>. QED BY <1>3, <2>1, <3>1 DEF Owner
  <2>. QED BY <2>1
<1>12. hook[w] + 1 \in Nat
  BY <1>3
<1>. QED BY <1>2, <1>3, <1>4, <1>5, <1>6, <1>7, <1>8, <1>9, <1>10, <1>11, <1>12, ChargedTyped

\* A check that passes: the next one, or pass 2.
LEMMA AdmittedIs ==
  ASSUME Typed, NEW w \in Worker, pc[w] = "check", Admitted(w)
  PROVE  \/ /\ OnlyMoves(w) /\ pc'[w] = "check" /\ entries'[w] = entries[w]
            /\ at'[w] = at[w] /\ count'[w] = count[w] /\ UNCHANGED charged
            /\ pos'[w] \in DOMAIN entries[w] /\ pos'[w] > pos[w]
            /\ \A i \in DOMAIN entries[w] :
                 i > pos[w] /\ entries[w][i].mode \in Checking => pos'[w] <= i
         \/ /\ GoesOn(w, 1) /\ Charges(entries[w], <<w, hook[w]>>, at[w], count[w])
            /\ \A i \in DOMAIN entries[w] : ~(i > pos[w] /\ entries[w][i].mode \in Checking)
<1>. DEFINE es == entries[w]  n == NextIn(es, pos[w] + 1, Checking)
<1>1. /\ Batch /\ es \in Lists /\ pos[w] \in Nat \ {0} /\ count[w] \in Nat \ {0}
      /\ at[w] \in 0..MaxTime /\ <<w, hook[w]>> \in Worker \X Nat
  BY Running
<1>2. DOMAIN es \in SUBSET (Nat \ {0}) /\ pos[w] + 1 \in Nat
  BY <1>1, ListEntries
<1>3. \/ n = 0 /\ \A i \in DOMAIN es : ~(i >= pos[w] + 1 /\ es[i].mode \in Checking)
      \/ /\ n # 0 /\ n \in DOMAIN es /\ n >= pos[w] + 1
         /\ \A i \in DOMAIN es : i >= pos[w] + 1 /\ es[i].mode \in Checking => n <= i
  BY <1>2, NextInIs
<1>4. \A i \in DOMAIN es : i > pos[w] <=> i >= pos[w] + 1
  BY <1>1, <1>2
<1>5. IF n # 0 THEN Goto(w, "check", n) /\ UNCHANGED charged
               ELSE Write(w, es, 1) /\ Charge(es, <<w, hook[w]>>, at[w], count[w])
  BY DEF Admitted
<1>. HIDE DEF n
<1>6. CASE n # 0
  <2>1. n \in Nat /\ n > pos[w]
    BY <1>1, <1>2, <1>3, <1>6
  <2>2. /\ OnlyMoves(w) /\ pc'[w] = "check" /\ pos'[w] = n
        /\ entries'[w] = entries[w] /\ at'[w] = at[w] /\ count'[w] = count[w]
    BY <1>1, <1>5, <1>6, <2>1, GotoIs
  <2>. QED BY <1>3, <1>4, <1>5, <1>6, <2>1, <2>2
<1>7. CASE n = 0
  <2>1. GoesOn(w, 1)
    BY <1>1, <1>5, <1>7, WriteIs
  <2>2. Charges(es, <<w, hook[w]>>, at[w], count[w])
    <3>1. charged \in [Key -> SUBSET Records] /\ \A k \in Key : IsFiniteSet(charged[k])
      BY DEF Typed, Types, Stored
    <3>. QED BY <1>1, <1>5, <1>7, <3>1, ChargeIs
  <2>. QED BY <1>3, <1>4, <1>7, <2>1, <2>2
<1>. QED BY <1>6, <1>7

LEMMA AdmittedTyped ==
  ASSUME Typed, NEW w \in Worker, pc[w] = "check", Admitted(w), UNCHANGED <<now, kv, hook>>,
         open' \in [Worker -> SUBSET [caller : Caller, hook : Nat]]
  PROVE  Typed'
<1>1. /\ Batch /\ entries[w] \in Lists /\ count[w] \in Nat \ {0}
      /\ at[w] \in 0..MaxTime /\ at[w] <= now /\ hook[w] \in Nat
  BY Running DEF Typed, Types
<1>2. ASSUME OnlyMoves(w), at'[w] \in {0, at[w]}, charged' \in [Key -> SUBSET Records]
      PROVE  Types'
  <2>1. \A v \in Worker : at'[v] <= now'
    BY <1>1, <1>2, LocalAssumption DEF OnlyMoves, Same, Typed, Types
  <2>. QED BY <1>2, <2>1 DEF OnlyMoves, Typed, Types
<1>3. CASE /\ OnlyMoves(w) /\ pc'[w] = "check" /\ entries'[w] = entries[w]
           /\ at'[w] = at[w] /\ count'[w] = count[w] /\ UNCHANGED charged
           /\ pos'[w] \in DOMAIN entries[w]
  <2>1. Types'
    BY <1>2, <1>3 DEF Typed, Types
  <2>2. Stands(w)' /\ Promised(w)' /\ Copies(w)'
    <3>1. \E c \in Caller : entries[w] = ChecksOf[c]
      BY DEF Typed, Stands
    <3>2. Stands(w)'
      BY <1>1, <1>3, <3>1 DEF Stands, Writing
    <3>. QED BY <1>3, <3>2 DEF Promised, Copies, Writing
  <2>3. \A k \in Key : \A c \in charged'[k] : c.by[1] = w => Owner(k, c)'
    BY <1>3 DEF Typed, Owner, Writing
  <2>4. \A k \in Key : Stored(k)'
    BY <1>3 DEF Typed, Stored
  <2>. QED BY <1>3, <2>1, <2>2, <2>3, <2>4, OthersStay DEF OnlyMoves
<1>4. CASE GoesOn(w, 1) /\ Charges(entries[w], <<w, hook[w]>>, at[w], count[w])
  <2>1. /\ OnlyMoves(w)
        /\ \/ /\ pc'[w] = "idle" /\ at'[w] = 0
              /\ \A i \in DOMAIN entries[w] : ~(i >= 1 /\ entries[w][i].mode \in Adding)
           \/ /\ pc'[w] = "load" /\ entries'[w] = entries[w] /\ at'[w] = at[w]
              /\ count'[w] = count[w]
              /\ pos'[w] \in DOMAIN entries[w] /\ entries[w][pos'[w]].mode \in Adding
    BY <1>4 DEF GoesOn
  <2>2. Types'
    BY <1>2, <1>4, <2>1 DEF Charges
  <2>3. \A i \in DOMAIN entries[w] : i >= 1
    BY <1>1, ListEntries
  <2>4. \A k \in Key : \A c \in charged[k] : c.by[1] = w => c.by[2] < hook[w]
    <3>1. ASSUME NEW k \in Key, NEW c \in charged[k], c.by[1] = w PROVE c.by[2] < hook[w]
      <4>1. Owner(k, c) /\ c.by[2] \in Nat
        BY DEF Typed, Types, Records
      <4>. QED BY <1>1, <3>1, <4>1 DEF Owner
    <3>. QED BY <3>1
  <2>. QED BY <1>1, <1>4, <2>1, <2>2, <2>3, <2>4, ChargedTyped
<1>. QED BY <1>3, <1>4, AdmittedIs

LEMMA CheckTyped == ASSUME Typed, NEW w \in Worker, Check(w) PROVE Typed'
<1>1. /\ pc[w] = "check" /\ UNCHANGED <<now, kv, hook>>
      /\ \/ /\ Return(w) /\ UNCHANGED charged
            /\ open' = [open EXCEPT ![w] = {q \in @ : q.hook # hook[w]}]
         \/ Admitted(w) /\ UNCHANGED open
  BY DEF Check, Refuse
<1>2. open' \in [Worker -> SUBSET [caller : Caller, hook : Nat]]
  BY <1>1 DEF Typed, Types
<1>3. CASE Admitted(w)
  BY <1>1, <1>2, <1>3, AdmittedTyped
<1>4. CASE Return(w) /\ UNCHANGED charged
  <2>1. OnlyMoves(w) /\ pc'[w] = "idle" /\ at'[w] = 0
    BY <1>4, ReturnIs DEF Typed, Types
  <2>2. Types'
    <3>1. \A v \in Worker : at'[v] <= now'
      BY <1>1, <2>1, LocalAssumption DEF OnlyMoves, Same, Typed, Types
    <3>. QED BY <1>1, <1>2, <1>4, <2>1, <3>1 DEF OnlyMoves, Typed, Types
  <2>3. Stands(w)' /\ Promised(w)' /\ Copies(w)'
    BY <2>1 DEF Stands, Promised, Copies, Writing
  <2>4. \A k \in Key : \A c \in charged'[k] : c.by[1] = w => Owner(k, c)'
    BY <1>1, <1>4, <2>1 DEF Typed, Owner, Writing
  <2>5. \A k \in Key : Stored(k)'
    BY <1>1, <1>4 DEF Typed, Stored
  <2>. QED BY <1>1, <1>4, <2>1, <2>2, <2>3, <2>4, <2>5, OthersStay DEF OnlyMoves
<1>. QED BY <1>1, <1>3, <1>4

LEMMA LoadTyped == ASSUME Typed, NEW w \in Worker, Load(w) PROVE Typed'
<1>. DEFINE k == Here(w).key
            list == Live(kv[k].list, Here(w).limit, at[w]) \union {Record(w)}
<1>1. /\ pc[w] = "load" /\ pc' = [pc EXCEPT ![w] = "store"]
      /\ seen' = [seen EXCEPT ![w] = [cas |-> kv[k].cas, list |-> list]]
      /\ UNCHANGED <<now, kv, entries, at, count, pos, hook, open, charged>>
  BY DEF Load, Here
<1>2. /\ pos[w] \in DOMAIN entries[w] /\ Here(w) = entries[w][pos[w]] /\ k \in Key
      /\ Record(w) \in Records
  BY <1>1, Running
<1>3. list \subseteq charged[k] /\ list \subseteq Records
  <2>1. Here(w).mode \in Adding
    BY <1>1 DEF Typed, Stands, Writing
  <2>2. Record(w) \in charged[k]
    BY <1>1, <1>2, <2>1 DEF Typed, Promised, Writing, Record
  <2>3. kv[k].list \subseteq charged[k] /\ charged[k] \subseteq Records
    BY <1>2 DEF Typed, Types, Stored
  <2>. QED BY <2>2, <2>3 DEF Live
<1>4. kv[k].cas \in Nat /\ (k \in Established => kv[k].cas > 0)
  BY <1>2 DEF Typed, Types, Stored, Values
<1>. HIDE DEF list
<1>5. Types'
  <2>1. [cas |-> kv[k].cas, list |-> list] \in Values
    BY <1>3, <1>4 DEF Values
  <2>. HIDE DEF k
  <2>. QED BY <1>1, <2>1 DEF Typed, Types, Batch
<1>6. \A v \in Worker \ {w} : Same(v) /\ hook'[v] = hook[v]
  BY <1>1 DEF Same, Typed, Types, Batch
<1>7. /\ pc'[w] = "store" /\ seen'[w].cas = kv[k].cas /\ seen'[w].list = list
      /\ entries'[w] = entries[w] /\ pos'[w] = pos[w] /\ at'[w] = at[w] /\ count'[w] = count[w]
      /\ hook'[w] = hook[w]
  BY <1>1 DEF Typed, Types, Batch
<1>8. Stands(w)' /\ Promised(w)'
  BY <1>1, <1>7 DEF Typed, Stands, Promised, Writing, Here
<1>9. Copies(w)'
  <2>1. Here(w)' = Here(w) /\ Record(w)' = Record(w)
    BY <1>7 DEF Here, Record
  <2>2. /\ seen'[w].list \subseteq charged'[k] /\ seen'[w].cas <= kv'[k].cas
        /\ k \in Established => seen'[w].cas > 0
        /\ seen'[w].list = Live(kv'[k].list, Here(w).limit, at'[w]) \union {Record(w)}
    BY <1>1, <1>3, <1>4, <1>7 DEF list
  <2>. HIDE DEF list
  <2>. QED BY <2>1, <2>2 DEF Copies
<1>10. \A l \in Key : \A c \in charged'[l] : c.by[1] = w => Owner(l, c)'
  BY <1>1, <1>7 DEF Typed, Owner, Writing
<1>11. \A l \in Key : Stored(l)'
  BY <1>1 DEF Typed, Stored
<1>. QED BY <1>1, <1>5, <1>6, <1>8, <1>9, <1>10, <1>11, OthersStay

LEMMA GiveUpTyped ==
  ASSUME Typed, NEW w \in Worker, Writing(w), GiveUp(w),
         UNCHANGED <<now, kv, hook, open, charged>>
  PROVE  Typed'
<1>1. /\ pc[w] # "idle" /\ Batch /\ entries[w] \in Lists /\ pos[w] + 1 \in Nat
  <2>1. pc[w] # "idle"
    BY DEF Writing
  <2>2. Batch /\ entries[w] \in Lists /\ pos[w] \in Nat \ {0}
    BY <2>1, Running
  <2>. QED BY <2>1, <2>2
<1>2. GoesOn(w, pos[w] + 1)
  BY <1>1, WriteIs DEF GiveUp
<1>3. /\ open' \in [Worker -> SUBSET [caller : Caller, hook : Nat]] /\ kv' \in [Key -> Values]
      /\ \A k \in Key : kv'[k] = kv[k] /\ Stored(k)'
  BY DEF Typed, Types, Stored
<1>. QED BY <1>1, <1>2, <1>3, GoesOnTyped

\* A write that the store accepts.
Stores(w) ==
  LET k == Here(w).key
  IN /\ CasHolds(w, k)
     /\ kv' = [kv EXCEPT ![k] = [cas |-> @.cas + 1, list |-> seen[w].list]]
     /\ Write(w, entries[w], pos[w] + 1)
     /\ UNCHANGED <<lost, now, hook, open, charged>>

Retried(w) ==
  /\ pc' = [pc EXCEPT ![w] = "load"]
  /\ seen' = [seen EXCEPT ![w] = Nothing]
  /\ UNCHANGED <<kv, entries, at, count, pos, lost, now, hook, open, charged>>

GivenUp(w) == GiveUp(w) /\ UNCHANGED <<kv, now, hook, open, charged>>

LEMMA StoreIs ==
  ASSUME NEW w \in Worker, Store(w)
  PROVE  pc[w] = "store" /\ (Stores(w) \/ Retried(w) \/ GivenUp(w))
BY DEF Store, Here, Stores, Retried, GivenUp

LEMMA StoreTyped == ASSUME Typed, NEW w \in Worker, Store(w) PROVE Typed'
<1>1. pc[w] = "store" /\ (Stores(w) \/ Retried(w) \/ GivenUp(w))
  BY StoreIs
<1>2. /\ Batch /\ entries[w] \in Lists /\ pos[w] + 1 \in Nat /\ Here(w).key \in Key
  <2>1. Batch /\ entries[w] \in Lists /\ pos[w] \in Nat \ {0} /\ Here(w).key \in Key
    BY <1>1, Running
  <2>. QED BY <2>1
<1>3. CASE Stores(w)
  <2>0. PICK k \in Key : k = Here(w).key
    BY <1>2
  <2>1. /\ kv' = [kv EXCEPT ![k] = [cas |-> @.cas + 1, list |-> seen[w].list]]
        /\ Write(w, entries[w], pos[w] + 1)
        /\ UNCHANGED <<now, hook, open, charged>>
    BY <1>3, <2>0 DEF Stores
  <2>2. GoesOn(w, pos[w] + 1)
    BY <1>2, <2>1, WriteIs
  <2>3. seen[w] \in Values /\ seen[w].list \subseteq charged[k] /\ kv \in [Key -> Values]
    BY <1>1, <2>0 DEF Typed, Types, Batch, Copies
  <2>4. k \in Key /\ kv[k].cas \in Nat /\ kv[k].cas + 1 > 0
    BY <1>2, <2>3 DEF Values
  <2>5. /\ kv' \in [Key -> Values]
        /\ \A l \in Key : (kv'[l] = kv[l] \/ kv'[l].cas > kv[l].cas) /\ Stored(l)'
    <3>1. kv'[k] = [cas |-> kv[k].cas + 1, list |-> seen[w].list] /\ \A l \in Key \ {k} : kv'[l] = kv[l]
      BY <2>1, <2>3, <2>4
    <3>2. kv'[k] \in Values
      BY <2>3, <2>4, <3>1 DEF Values
    <3>3. kv' \in [Key -> Values]
      BY <2>1, <2>3, <2>4, <3>1, <3>2
    <3>4. Stored(k)'
      <4>1. kv'[k].list = seen[w].list /\ kv'[k].cas > 0 /\ charged' = charged
        BY <2>1, <2>4, <3>1
      <4>2. IsFiniteSet(charged[k])
        BY <2>4 DEF Typed, Stored
      <4>. QED BY <2>3, <4>1, <4>2 DEF Stored
    <3>5. \A l \in Key \ {k} : Stored(l)'
      BY <2>1, <3>1 DEF Typed, Stored
    <3>6. kv'[k].cas > kv[k].cas
      BY <2>4, <3>1
    <3>7. \A l \in Key : (kv'[l] = kv[l] \/ kv'[l].cas > kv[l].cas) /\ Stored(l)'
      <4>. SUFFICES ASSUME NEW l \in Key
                    PROVE  (kv'[l] = kv[l] \/ kv'[l].cas > kv[l].cas) /\ Stored(l)'
        OBVIOUS
      <4>1. CASE l = k
        BY <3>4, <3>6, <4>1
      <4>2. CASE l # k
        BY <3>1, <3>5, <4>2
      <4>. QED BY <4>1, <4>2
    <3>. QED BY <3>3, <3>7
  <2>6. open' \in [Worker -> SUBSET [caller : Caller, hook : Nat]]
    BY <2>1 DEF Typed, Types
  <2>7. Writing(w) /\ pc[w] # "idle"
    BY <1>1 DEF Writing
  <2>. QED BY <1>2, <2>1, <2>2, <2>5, <2>6, <2>7, GoesOnTyped
<1>4. CASE Retried(w)
  <2>1. /\ pc'[w] = "load" /\ entries'[w] = entries[w] /\ pos'[w] = pos[w] /\ at'[w] = at[w]
        /\ count'[w] = count[w] /\ hook'[w] = hook[w] /\ UNCHANGED <<kv, charged>>
    BY <1>4 DEF Retried, Typed, Types, Batch
  <2>2. Types'
    <3>1. Nothing \in Values
      BY DEF Nothing, Values
    <3>. QED BY <1>4, <3>1 DEF Retried, Typed, Types, Batch
  <2>3. \A v \in Worker \ {w} : Same(v) /\ hook'[v] = hook[v]
    BY <1>4 DEF Retried, Same, Typed, Types, Batch
  <2>4. Stands(w)' /\ Promised(w)' /\ Copies(w)'
    BY <1>1, <2>1 DEF Typed, Stands, Promised, Copies, Writing, Here
  <2>5. \A k \in Key : \A c \in charged'[k] : c.by[1] = w => Owner(k, c)'
    BY <1>1, <2>1 DEF Typed, Owner, Writing
  <2>6. \A k \in Key : Stored(k)'
    BY <2>1 DEF Typed, Stored
  <2>. QED BY <2>1, <2>2, <2>3, <2>4, <2>5, <2>6, OthersStay
<1>5. CASE GivenUp(w)
  BY <1>1, <1>5, GiveUpTyped DEF GivenUp, Writing
<1>. QED BY <1>1, <1>3, <1>4, <1>5

LEMMA HostRefusesTyped == ASSUME Typed, NEW w \in Worker, HostRefuses(w) PROVE Typed'
<1>1. /\ UNCHANGED <<now, kv, hook, open>>
      /\ \/ pc[w] = "check" /\ Admitted(w)
         \/ Writing(w) /\ GiveUp(w) /\ UNCHANGED charged
  BY DEF HostRefuses, Writing
<1>2. open' \in [Worker -> SUBSET [caller : Caller, hook : Nat]]
  BY <1>1 DEF Typed, Types
<1>. QED BY <1>1, <1>2, AdmittedTyped, GiveUpTyped

LEMMA TickTyped == Typed /\ Tick => Typed'
<1>. SUFFICES ASSUME Typed, Tick PROVE Typed'
  OBVIOUS
<1>1. UNCHANGED <<kv, pc, entries, at, count, pos, seen, hook, open, charged>>
  BY DEF Tick, batch
<1>2. Types'
  <2>1. now' \in 0..MaxTime /\ now' > now /\ now \in Nat
    BY LocalAssumption DEF Tick, Typed, Types
  <2>2. \A w \in Worker : at'[w] <= now'
    BY <1>1, <2>1 DEF Typed, Types, Batch
  <2>. QED BY <1>1, <2>1, <2>2 DEF Typed, Types, Batch
<1>3. \A w \in Worker : Stands(w)' /\ Promised(w)' /\ Copies(w)'
  BY <1>1 DEF Typed, Stands, Promised, Copies, Writing, Here, Record
<1>4. \A k \in Key : Stored(k)' /\ \A c \in charged'[k] : Owner(k, c)'
  BY <1>1 DEF Typed, Stored, Owner, Writing
<1>. QED BY <1>2, <1>3, <1>4 DEF Typed

LEMMA SameTyped == Typed /\ UNCHANGED vars => Typed'
<1>. SUFFICES ASSUME Typed, UNCHANGED vars PROVE Typed'
  OBVIOUS
<1>1. UNCHANGED <<now, kv, pc, entries, at, count, pos, seen, hook, open, charged>>
  BY DEF vars, batch
<1>2. Types'
  BY <1>1 DEF Typed, Types, Batch
<1>3. \A w \in Worker : Stands(w)' /\ Promised(w)' /\ Copies(w)'
  BY <1>1 DEF Typed, Stands, Promised, Copies, Writing, Here, Record
<1>4. \A k \in Key : Stored(k)' /\ \A c \in charged'[k] : Owner(k, c)'
  BY <1>1 DEF Typed, Stored, Owner, Writing
<1>. QED BY <1>2, <1>3, <1>4 DEF Typed

LEMMA StepTyped == Typed /\ [Next]_vars => Typed'
<1>. SUFFICES ASSUME Typed, [Next]_vars PROVE Typed'
  OBVIOUS
<1>1. ASSUME NEW w \in Worker,
             Arrive(w) \/ StreamDone(w) \/ Check(w) \/ Load(w) \/ Store(w) \/ HostRefuses(w)
      PROVE  Typed'
  BY <1>1, ArriveTyped, StreamDoneTyped, CheckTyped, LoadTyped, StoreTyped, HostRefusesTyped
<1>2. CASE Tick
  BY <1>2, TickTyped
<1>3. CASE UNCHANGED vars
  BY <1>3, SameTyped
<1>. QED BY <1>1, <1>2, <1>3 DEF Next, Stopped

LEMMA AlwaysTyped == Spec => []Typed
BY InitTyped, StepTyped, PTL DEF Spec
-----------------------------------------------------------------------------
(***************************************************************************)
(* No record is forgotten.                                                 *)
(***************************************************************************)
KeptIn(e) == \A c \in InWindow(e) \ lost : Counted(e, c)

\* What a hook is still to write is its present record or stays to be written.
LEMMA OutstandingIs ==
  ASSUME Typed, NEW w \in Worker, NEW k \in Key, NEW c \in charged[k], Outstanding(w, c)
  PROVE  /\ Writing(w) /\ c.pos \in Nat /\ c.by = <<w, hook[w]>>
         /\ c.pos \in DOMAIN entries[w] /\ entries[w][c.pos].mode \in Adding
         /\ c.pos = pos[w] => c = Record(w) /\ Here(w).key = k
         /\ c.pos # pos[w] => c.pos >= pos[w] + 1
<1>1. /\ Writing(w) /\ c.by = <<w, hook[w]>> /\ c.pos >= pos[w]
  BY DEF Outstanding, Writing
<1>2. Owner(k, c) /\ c.pos \in Nat
  BY DEF Typed, Types, Records
<1>3. /\ c = RecordOf(<<w, hook[w]>>, c.pos, at[w], count[w])
      /\ c.pos \in DOMAIN entries[w]
      /\ entries[w][c.pos].key = k /\ entries[w][c.pos].mode \in Adding
  <2>1. c.by[1] = w /\ c.by[2] = hook[w]
    BY <1>1
  <2>. QED BY <1>1, <1>2, <2>1 DEF Owner
<1>4. pos[w] \in Nat
  BY DEF Typed, Types, Batch
<1>. QED BY <1>1, <1>2, <1>3, <1>4 DEF Record, Here

LEMMA OutstandingGoesOn ==
  ASSUME Typed, NEW w \in Worker, NEW k \in Key, NEW c \in charged[k], Outstanding(w, c),
         GoesOn(w, pos[w] + 1), UNCHANGED hook
  PROVE  (c = Record(w) /\ Here(w).key = k) \/ Outstanding(w, c)'
<1>1. /\ c.pos \in Nat /\ c.by = <<w, hook[w]>>
      /\ c.pos \in DOMAIN entries[w] /\ entries[w][c.pos].mode \in Adding
      /\ c.pos = pos[w] => c = Record(w) /\ Here(w).key = k
      /\ c.pos # pos[w] => c.pos >= pos[w] + 1
  BY OutstandingIs
<1>2. CASE c.pos >= pos[w] + 1
  <2>1. pc'[w] = "load" /\ pos'[w] <= c.pos
    BY <1>1, <1>2 DEF GoesOn
  <2>2. pos'[w] \in Nat
    BY DEF GoesOn, OnlyMoves, Batch
  <2>. QED BY <1>1, <2>1, <2>2 DEF Outstanding
<1>. QED BY <1>1, <1>2

LEMMA KeptStays ==
  ASSUME NEW e \in AllChecks, KeptIn(e), NEW w \in Worker,
         \A v \in Worker \ {w} : Same(v) /\ hook'[v] = hook[v],
         UNCHANGED now, lost \subseteq lost',
         \A c \in charged'[e.key] \ charged[e.key] : Outstanding(w, c)',
         \A c \in InWindow(e) : c \in kv[e.key].list => c \in kv'[e.key].list,
         \A c \in charged[e.key] : Outstanding(w, c) =>
           Outstanding(w, c)' \/ c \in lost' \/ c \in kv'[e.key].list
  PROVE  KeptIn(e)'
<1>. SUFFICES ASSUME NEW c \in InWindow(e)', c \notin lost' PROVE Counted(e, c)'
  BY DEF KeptIn
<1>1. c \in charged'[e.key] /\ (c \in charged[e.key] => c \in InWindow(e))
  BY DEF InWindow
<1>2. CASE c \notin charged[e.key]
  BY <1>1, <1>2 DEF Counted
<1>3. CASE c \in charged[e.key]
  <2>1. c \in InWindow(e) \ lost /\ Counted(e, c)
    BY <1>1, <1>3 DEF KeptIn
  <2>2. CASE c \in kv[e.key].list
    BY <2>1, <2>2 DEF Counted
  <2>3. ASSUME NEW v \in Worker, Outstanding(v, c)
        PROVE  Counted(e, c)'
    <3>1. CASE v = w
      BY <1>3, <2>3, <3>1 DEF Counted
    <3>2. CASE v # w
      <4>1. Same(v) /\ hook'[v] = hook[v]
        BY <3>2
      <4>2. Outstanding(v, c)'
        BY <2>3, <4>1 DEF Outstanding, Same
      <4>. QED BY <4>2 DEF Counted
    <3>. QED BY <3>1, <3>2
  <2>. QED BY <2>1, <2>2, <2>3 DEF Counted
<1>. QED BY <1>2, <1>3

\* The limit of a bucket that a worker writes.
LEMMA LimitHere ==
  ASSUME BucketsAgree, Typed, NEW w \in Worker, pc[w] # "idle", NEW e \in AllChecks,
         Here(w).key = e.key
  PROVE  Here(w).limit = e.limit
<1>1. entries[w] \in Lists /\ pos[w] \in DOMAIN entries[w] /\ Here(w) = entries[w][pos[w]]
  BY Running
<1>. QED BY <1>1, ListsAgree

\* What a check reads, and a write keeps, holds all that counts now.
LEMMA WindowKept ==
  ASSUME Typed, NEW w \in Worker, pc[w] # "idle", NEW e \in AllChecks, NEW c \in InWindow(e),
         c \in kv[e.key].list
  PROVE  c \in Live(kv[e.key].list, e.limit, at[w])
<1>1. at[w] \in 0..MaxTime /\ now \in at[w]..MaxTime /\ e.key \in Key
  <2>1. at[w] \in 0..MaxTime /\ at[w] <= now /\ now \in 0..MaxTime
    BY Running DEF Typed, Types
  <2>. QED BY <2>1, KeyOfEntry, LocalAssumption
<1>2. /\ Edge(e.limit, at[w]) \in Int /\ Edge(e.limit, now) \in Int
      /\ Edge(e.limit, at[w]) <= Edge(e.limit, now)
  BY <1>1, EdgeAdvances
<1>3. c.score > Edge(e.limit, now) /\ c.score \in Int
  BY <1>1, LocalAssumption DEF InWindow, Edge, Typed, Types, Records
<1>4. c.score > Edge(e.limit, at[w])
  BY <1>2, <1>3
<1>. QED BY <1>4 DEF Live, Edge

\* A worker moves without a write.
LEMMA MovesKept ==
  ASSUME Typed, NEW e \in AllChecks, KeptIn(e), NEW w \in Worker,
         \A v \in Worker \ {w} : Same(v) /\ hook'[v] = hook[v],
         UNCHANGED <<now, kv>>, lost \subseteq lost',
         \A c \in charged'[e.key] \ charged[e.key] : Outstanding(w, c)',
         \/ ~Writing(w)
         \/ Writing(w)' /\ pos'[w] = pos[w] /\ hook'[w] = hook[w]
  PROVE  KeptIn(e)'
<1>1. \A c \in charged[e.key] : Outstanding(w, c) => Outstanding(w, c)'
  BY DEF Outstanding, Writing
<1>2. \A c \in InWindow(e) : c \in kv[e.key].list => c \in kv'[e.key].list
  OBVIOUS
<1>. QED BY <1>1, <1>2, KeptStays

LEMMA AdmittedKept ==
  ASSUME Typed, NEW e \in AllChecks, KeptIn(e), NEW w \in Worker, pc[w] = "check", Admitted(w),
         UNCHANGED <<now, kv, hook, lost>>
  PROVE  KeptIn(e)'
<1>1. OnlyMoves(w)
  BY AdmittedIs DEF GoesOn
<1>2. \A c \in charged'[e.key] \ charged[e.key] : Outstanding(w, c)'
  <2>. SUFFICES ASSUME NEW c \in charged'[e.key] \ charged[e.key] PROVE Outstanding(w, c)'
    OBVIOUS
  <2>1. GoesOn(w, 1) /\ Charges(entries[w], <<w, hook[w]>>, at[w], count[w])
    BY AdmittedIs
  <2>2. PICK i \in DOMAIN entries[w] :
          entries[w][i].mode \in Adding /\ c = RecordOf(<<w, hook[w]>>, i, at[w], count[w])
    BY <2>1, KeyOfEntry DEF Charges
  <2>3. i \in Nat /\ i >= 1
    <3>1. entries[w] \in Lists
      BY Running
    <3>2. DOMAIN entries[w] \in SUBSET (Nat \ {0})
      BY <3>1, ListEntries
    <3>. QED BY <3>2
  <2>4. pc'[w] = "load" /\ pos'[w] <= i /\ pos'[w] \in Nat
    BY <2>1, <2>2, <2>3 DEF GoesOn, OnlyMoves, Batch
  <2>. QED BY <2>2, <2>3, <2>4 DEF Outstanding, RecordOf
<1>3. ~Writing(w)
  BY DEF Writing
<1>. QED BY <1>1, <1>2, <1>3, MovesKept DEF OnlyMoves

LEMMA GiveUpKept ==
  ASSUME Typed, NEW e \in AllChecks, KeptIn(e), NEW w \in Worker, Writing(w), GiveUp(w),
         UNCHANGED <<now, kv, hook, charged>>
  PROVE  KeptIn(e)'
<1>1. GoesOn(w, pos[w] + 1) /\ lost' = lost \union {Record(w)}
  <2>1. pc[w] # "idle"
    BY DEF Writing
  <2>2. Batch /\ entries[w] \in Lists /\ pos[w] \in Nat \ {0}
    BY <2>1, Running
  <2>3. Batch /\ entries[w] \in Lists /\ pos[w] + 1 \in Nat
    BY <2>2
  <2>. QED BY <2>3, WriteIs DEF GiveUp
<1>2. e.key \in Key
  BY KeyOfEntry
<1>3. \A c \in charged[e.key] : Outstanding(w, c) => Outstanding(w, c)' \/ c \in lost'
  BY <1>1, <1>2, OutstandingGoesOn
<1>. QED BY <1>1, <1>3, KeptStays DEF GoesOn, OnlyMoves

LEMMA StoresKept ==
  ASSUME BucketsAgree, Typed, NEW e \in AllChecks, e.key \in Established, KeptIn(e),
         NEW w \in Worker, pc[w] = "store", Stores(w)
  PROVE  KeptIn(e)'
<1>0. PICK k \in Key : k = Here(w).key
  BY Running
<1>1. /\ CasHolds(w, k)
      /\ kv' = [kv EXCEPT ![k] = [cas |-> @.cas + 1, list |-> seen[w].list]]
      /\ Write(w, entries[w], pos[w] + 1)
      /\ UNCHANGED <<lost, now, hook, open, charged>>
  BY <1>0 DEF Stores
<1>2. GoesOn(w, pos[w] + 1)
  <2>1. Batch /\ entries[w] \in Lists /\ pos[w] \in Nat \ {0}
    BY Running
  <2>2. pos[w] + 1 \in Nat
    BY <2>1
  <2>. QED BY <1>1, <2>1, <2>2, WriteIs
<1>3. e.key \in Key /\ kv \in [Key -> Values]
  BY KeyOfEntry DEF Typed, Types
<1>4. CASE e.key # k
  <2>1. kv'[e.key] = kv[e.key]
    BY <1>1, <1>3, <1>4
  <2>2. \A c \in charged[e.key] : Outstanding(w, c) => Outstanding(w, c)'
    BY <1>0, <1>1, <1>2, <1>3, <1>4, OutstandingGoesOn
  <2>. QED BY <1>1, <1>2, <2>1, <2>2, KeptStays DEF GoesOn, OnlyMoves
<1>5. CASE e.key = k
  <2>1. seen[w].cas \in Nat /\ kv[k].cas \in Nat /\ seen[w].cas > 0
    BY <1>0, <1>3, <1>5 DEF Typed, Types, Batch, Values, Copies
  <2>2. kv[k].cas = seen[w].cas
    BY <1>1, <2>1 DEF CasHolds
  <2>3. seen[w].list = Live(kv[k].list, e.limit, at[w]) \union {Record(w)}
    BY <1>0, <1>5, <2>2, LimitHere DEF Typed, Copies
  <2>4. kv'[k].list = Live(kv[k].list, e.limit, at[w]) \union {Record(w)}
    BY <1>1, <1>3, <2>3
  <2>5. \A c \in InWindow(e) : c \in kv[e.key].list => c \in kv'[e.key].list
    BY <1>5, <2>4, WindowKept
  <2>6. \A c \in charged[e.key] : Outstanding(w, c) => Outstanding(w, c)' \/ c \in kv'[e.key].list
    BY <1>1, <1>2, <1>3, <1>5, <2>4, OutstandingGoesOn
  <2>. QED BY <1>1, <1>2, <2>5, <2>6, KeptStays DEF GoesOn, OnlyMoves
<1>. QED BY <1>4, <1>5

LEMMA StreamDoneWrites ==
  ASSUME Typed, NEW w \in Worker, StreamDone(w), NEW e \in AllChecks,
         NEW c \in charged'[e.key] \ charged[e.key]
  PROVE  Outstanding(w, c)'
<1>1. PICK q \in open[w], sum \in 1..MaxTokens :
        /\ entries' = [entries EXCEPT ![w] = PendingOf[q.caller]]
        /\ Charge(PendingOf[q.caller], <<w, hook[w] + 1>>, now, sum)
  BY DEF StreamDone
<1>. DEFINE es == PendingOf[q.caller]  n == NextIn(es, 1, Adding)
<1>2. e.key \in Key /\ q.caller \in Caller
  BY KeyOfEntry DEF Typed, Types
<1>3. DOMAIN es \in SUBSET (Nat \ {0})
  <2>1. es \in Lists
    BY <1>2 DEF Lists
  <2>. HIDE DEF es
  <2>. QED BY <2>1, ListEntries
<1>4. PICK i \in DOMAIN es : es[i].mode \in Adding /\ c = RecordOf(<<w, hook[w] + 1>>, i, now, sum)
  BY <1>1, <1>2 DEF Charge
<1>5. /\ hook'[w] = hook[w] + 1 /\ pc'[w] = "load" /\ entries'[w] = es /\ pos'[w] = n
  BY <1>1 DEF StreamDone, Typed, Types, Batch
<1>6. i \in Nat /\ i >= 1
  BY <1>3
<1>7. n \in Nat /\ n <= i
  <2>. HIDE DEF es
  <2>. QED BY <1>3, <1>4, <1>6, NextInIs
<1>. HIDE DEF es, n
<1>8. c.by = <<w, hook[w] + 1>> /\ c.pos = i
  BY <1>4 DEF RecordOf
<1>. QED BY <1>5, <1>6, <1>7, <1>8 DEF Outstanding

\* The tokens of a response are charged to no bucket of requests.
LEMMA StreamDoneSpares ==
  ASSUME BucketsAgree, Typed, NEW w \in Worker, StreamDone(w), NEW e \in AllChecks,
         e.mode = "check_and_add"
  PROVE  charged'[e.key] = charged[e.key]
<1>1. PICK q \in open[w], sum \in 1..MaxTokens :
        Charge(PendingOf[q.caller], <<w, hook[w] + 1>>, now, sum)
  BY DEF StreamDone
<1>2. q.caller \in Caller /\ e.key \in Key
  BY KeyOfEntry DEF Typed, Types
<1>. DEFINE es == PendingOf[q.caller]
<1>3. es \in Lists /\ \A n \in DOMAIN es : es[n].mode = "add"
  BY <1>2, PendingEntries
<1>4. \A n \in DOMAIN es : es[n].key # e.key
  <2>. HIDE DEF es
  <2>. QED BY <1>3, ListsAgree
<1>5. charged'[e.key] = charged[e.key] \union
        {RecordOf(<<w, hook[w] + 1>>, n, now, sum) :
           n \in {n \in DOMAIN es : es[n].key = e.key /\ es[n].mode \in Adding}}
  BY <1>1, <1>2 DEF Charge
<1>. QED BY <1>4, <1>5

LEMMA WorkerKept ==
  ASSUME BucketsAgree, Typed, NEW e \in AllChecks, e.key \in Established, KeptIn(e),
         NEW w \in Worker,
         Arrive(w) \/ StreamDone(w) \/ Check(w) \/ Load(w) \/ Store(w) \/ HostRefuses(w)
  PROVE  KeptIn(e)'
<1>1. CASE Arrive(w)
  <2>1. /\ \A v \in Worker \ {w} : Same(v) /\ hook'[v] = hook[v]
        /\ UNCHANGED <<now, kv, lost, charged>> /\ ~Writing(w)
    BY <1>1 DEF Arrive, Same, Writing, Typed, Types, Batch
  <2>. QED BY <2>1, MovesKept
<1>2. CASE StreamDone(w)
  <2>1. /\ \A v \in Worker \ {w} : Same(v) /\ hook'[v] = hook[v]
        /\ UNCHANGED <<now, kv, lost>> /\ ~Writing(w)
    BY <1>2 DEF StreamDone, Same, Writing, Typed, Types, Batch
  <2>2. \A c \in charged'[e.key] \ charged[e.key] : Outstanding(w, c)'
    BY <1>2, StreamDoneWrites
  <2>. QED BY <2>1, <2>2, MovesKept
<1>3. CASE Check(w)
  <2>1. /\ pc[w] = "check" /\ UNCHANGED <<now, kv, hook, lost>>
        /\ (Return(w) /\ UNCHANGED charged) \/ Admitted(w)
    BY <1>3 DEF Check, Refuse
  <2>2. CASE Return(w) /\ UNCHANGED charged
    <3>1. OnlyMoves(w) /\ ~Writing(w)
      BY <2>1, <2>2, ReturnIs DEF Typed, Types, Writing
    <3>. QED BY <2>1, <2>2, <3>1, MovesKept DEF OnlyMoves
  <2>3. CASE Admitted(w)
    BY <2>1, <2>3, AdmittedKept
  <2>. QED BY <2>1, <2>2, <2>3
<1>4. CASE Load(w)
  <2>1. /\ \A v \in Worker \ {w} : Same(v) /\ hook'[v] = hook[v]
        /\ UNCHANGED <<now, kv, lost, charged>>
        /\ Writing(w)' /\ pos'[w] = pos[w] /\ hook'[w] = hook[w]
    BY <1>4 DEF Load, Same, Writing, Typed, Types, Batch
  <2>. QED BY <2>1, MovesKept
<1>5. CASE Store(w)
  <2>1. pc[w] = "store" /\ (Stores(w) \/ Retried(w) \/ GivenUp(w))
    BY <1>5, StoreIs
  <2>2. CASE Retried(w)
    <3>1. /\ \A v \in Worker \ {w} : Same(v) /\ hook'[v] = hook[v]
          /\ UNCHANGED <<now, kv, lost, charged>>
          /\ Writing(w)' /\ pos'[w] = pos[w] /\ hook'[w] = hook[w]
      BY <2>2 DEF Retried, Same, Writing, Typed, Types, Batch
    <3>. QED BY <3>1, MovesKept
  <2>. QED BY <2>1, <2>2, StoresKept, GiveUpKept DEF GivenUp, Writing
<1>6. CASE HostRefuses(w)
  <2>1. /\ UNCHANGED <<now, kv, hook>>
        /\ \/ pc[w] = "check" /\ Admitted(w) /\ UNCHANGED lost
           \/ Writing(w) /\ GiveUp(w) /\ UNCHANGED charged
    BY <1>6 DEF HostRefuses, Writing
  <2>. QED BY <2>1, AdmittedKept, GiveUpKept
<1>. QED BY <1>1, <1>2, <1>3, <1>4, <1>5, <1>6

\* A window only slides forwards.
LEMMA WindowSlides ==
  ASSUME Typed, Tick, NEW e \in AllChecks
  PROVE  InWindow(e)' \subseteq InWindow(e)
<1>1. /\ now \in 0..MaxTime /\ now' \in now..MaxTime /\ UNCHANGED charged /\ e.key \in Key
  BY LocalAssumption, KeyOfEntry DEF Tick, Typed, Types
<1>2. /\ Edge(e.limit, now) \in Int /\ Edge(e.limit, now') \in Int
      /\ Edge(e.limit, now) <= Edge(e.limit, now')
  BY <1>1, EdgeAdvances
<1>. SUFFICES ASSUME NEW c \in charged[e.key], c.score > Edge(e.limit, now')
              PROVE  c.score > Edge(e.limit, now)
  BY <1>1 DEF InWindow, Edge
<1>3. c.score \in Int
  BY <1>1, LocalAssumption DEF Typed, Types, Records
<1>. QED BY <1>2, <1>3

LEMMA TickKept ==
  ASSUME Typed, Tick, NEW e \in AllChecks, KeptIn(e)
  PROVE  KeptIn(e)'
<1>1. InWindow(e)' \subseteq InWindow(e)
  BY WindowSlides
<1>2. UNCHANGED <<kv, pc, pos, hook, lost>>
  BY DEF Tick, batch
<1>. QED BY <1>1, <1>2 DEF KeptIn, Counted, Outstanding
-----------------------------------------------------------------------------
(***************************************************************************)
(* No window holds more requests than it may.                              *)
(***************************************************************************)
\* The workers that have passed the check of the bucket and look at the next.
Passed(e) ==
  {w \in Worker : pc[w] = "check" /\ \E n \in DOMAIN entries[w] : n < pos[w] /\ entries[w][n] = e}

\* The hooks that the window holds, and those that it is going to hold.
Claims(e) == {c.by : c \in InWindow(e) \ lost} \union {<<w, hook[w]>> : w \in Passed(e)}

Bounded(e) == Cardinality(Claims(e)) <= e.quota + Cardinality(Worker) - 1

LEMMA Fewer ==
  ASSUME NEW S, NEW T, S \subseteq T, IsFiniteSet(T)
  PROVE  IsFiniteSet(S) /\ Cardinality(S) \in Nat /\ Cardinality(T) \in Nat
         /\ Cardinality(S) <= Cardinality(T)
BY FS_Subset, FS_CardinalityType

LEMMA HooksFinite ==
  ASSUME NEW S, IsFiniteSet(S)
  PROVE  IsFiniteSet({c.by : c \in S}) /\ Cardinality({c.by : c \in S}) <= Cardinality(S)
<1>. DEFINE T == {c.by : c \in S}  f == [c \in S |-> c.by]
<1>1. f \in [S -> T] /\ \A y \in T : \E x \in S : f[x] = y
  OBVIOUS
<1>. HIDE DEF f, T
<1>2. IsFiniteSet(T) /\ Cardinality(T) <= Cardinality(S)
  BY <1>1, ImageFinite
<1>. QED BY <1>2 DEF T

LEMMA RunningFinite ==
  /\ IsFiniteSet({<<w, hook[w]>> : w \in Worker})
  /\ Cardinality({<<w, hook[w]>> : w \in Worker}) <= Cardinality(Worker)
<1>. DEFINE T == {<<w, hook[w]>> : w \in Worker}  f == [w \in Worker |-> <<w, hook[w]>>]
<1>1. f \in [Worker -> T] /\ \A y \in T : \E x \in Worker : f[x] = y
  OBVIOUS
<1>2. IsFiniteSet(Worker)
  BY LocalAssumption
<1>. HIDE DEF f, T
<1>3. IsFiniteSet(T) /\ Cardinality(T) <= Cardinality(Worker)
  BY <1>1, <1>2, ImageFinite
<1>. QED BY <1>3 DEF T

LEMMA ClaimsFinite ==
  ASSUME Typed, NEW e \in AllChecks
  PROVE  IsFiniteSet(Claims(e))
<1>1. IsFiniteSet(InWindow(e) \ lost)
  <2>1. IsFiniteSet(charged[e.key])
    BY KeyOfEntry DEF Typed, Stored
  <2>2. InWindow(e) \ lost \subseteq charged[e.key]
    BY DEF InWindow
  <2>. QED BY <2>1, <2>2, FS_Subset
<1>2. IsFiniteSet({c.by : c \in InWindow(e) \ lost})
  BY <1>1, HooksFinite
<1>3. IsFiniteSet({<<w, hook[w]>> : w \in Passed(e)})
  <2>1. {<<w, hook[w]>> : w \in Passed(e)} \subseteq {<<w, hook[w]>> : w \in Worker}
    BY DEF Passed
  <2>. QED BY <2>1, RunningFinite, FS_Subset
<1>. QED BY <1>2, <1>3, FS_Union DEF Claims

LEMMA FewerClaims ==
  ASSUME Typed, NEW e \in AllChecks, Bounded(e), Claims(e)' \subseteq Claims(e)
  PROVE  Bounded(e)'
<1>1. IsFiniteSet(Claims(e))
  BY ClaimsFinite
<1>2. /\ Cardinality(Claims(e)') \in Nat /\ Cardinality(Claims(e)) \in Nat
      /\ Cardinality(Claims(e)') <= Cardinality(Claims(e))
  BY <1>1, Fewer
<1>3. e.quota \in Nat /\ Cardinality(Worker) \in Nat
  <2>1. e \in [key : Key, limit : {e.limit}, quota : Nat \ {0}, mode : {"check", "check_and_add"}]
    BY LocalEntries
  <2>2. IsFiniteSet(Worker)
    BY LocalAssumption
  <2>. HIDE DEF AllChecks
  <2>. QED BY <2>1, <2>2, FS_CardinalityType
<1>4. Cardinality(Claims(e))' = Cardinality(Claims(e)')
  OBVIOUS
<1>. QED BY <1>2, <1>3, <1>4 DEF Bounded

LEMMA ClaimsStay ==
  ASSUME NEW e \in AllChecks, NEW w \in Worker,
         \A v \in Worker \ {w} : Same(v) /\ hook'[v] = hook[v],
         UNCHANGED now, lost \subseteq lost',
         \A c \in charged'[e.key] \ charged[e.key] : c.by \in Claims(e),
         w \in Passed(e)' => w \in Passed(e) /\ hook'[w] = hook[w]
  PROVE  Claims(e)' \subseteq Claims(e)
<1>1. ASSUME NEW c \in InWindow(e)', c \notin lost' PROVE c.by \in Claims(e)
  <2>1. c \in charged[e.key] => c \in InWindow(e) \ lost
    BY <1>1 DEF InWindow
  <2>. QED BY <2>1 DEF InWindow, Claims
<1>2. ASSUME NEW v \in Passed(e)' PROVE <<v, hook'[v]>> \in Claims(e)
  <2>1. v \in Worker
    BY DEF Passed
  <2>2. v \in Passed(e) /\ hook'[v] = hook[v]
    <3>1. CASE v = w
      BY <1>2, <3>1
    <3>2. CASE v # w
      BY <1>2, <2>1, <3>2 DEF Passed, Same
    <3>. QED BY <3>1, <3>2
  <2>. QED BY <2>2 DEF Claims
<1>. QED BY <1>1, <1>2 DEF Claims

\* A check that passes at another bucket, or unread.
LEMMA AdmittedClaims ==
  ASSUME BucketsAgree, Typed, NEW e \in AllChecks, e.mode = "check_and_add",
         NEW w \in Worker, pc[w] = "check", Admitted(w), Here(w) # e,
         UNCHANGED <<now, kv, hook, lost>>
  PROVE  Claims(e)' \subseteq Claims(e)
<1>1. /\ pos[w] \in DOMAIN entries[w] /\ pos[w] \in Nat /\ Here(w) = entries[w][pos[w]]
      /\ entries[w] \in Lists
  BY Running
<1>2. DOMAIN entries[w] \in SUBSET (Nat \ {0})
  BY <1>1, ListEntries
<1>3. PICK d \in Caller : entries[w] = ChecksOf[d]
  BY DEF Typed, Stands
<1>4. \A n \in DOMAIN entries[w] : entries[w][n].mode \in Checking
  <2>1. \A n \in DOMAIN ChecksOf[d] : ChecksOf[d][n].mode \in Checking
    BY CheckEntries
  <2>. HIDE DEF ChecksOf
  <2>. QED BY <1>3, <2>1
<1>5. ASSUME OnlyMoves(w), pc'[w] = "check", entries'[w] = entries[w], UNCHANGED charged,
             \A i \in DOMAIN entries[w] : i > pos[w] => pos'[w] <= i
      PROVE  Claims(e)' \subseteq Claims(e)
  <2>1. ASSUME NEW n \in DOMAIN entries[w], n < pos'[w], entries[w][n] = e PROVE w \in Passed(e)
    <3>1. n \in Nat /\ pos'[w] \in Nat
      BY <1>2, <1>5 DEF OnlyMoves, Batch
    <3>2. n # pos[w]
      BY <1>1, <2>1
    <3>3. n < pos[w]
      BY <1>1, <1>5, <2>1, <3>1, <3>2
    <3>. QED BY <2>1, <3>3 DEF Passed
  <2>2. w \in Passed(e)' => w \in Passed(e)
    BY <1>5, <2>1 DEF Passed
  <2>. QED BY <1>5, <2>2, ClaimsStay DEF OnlyMoves
<1>6. ASSUME GoesOn(w, 1), Charges(entries[w], <<w, hook[w]>>, at[w], count[w]),
             \A i \in DOMAIN entries[w] : ~(i > pos[w])
      PROVE  Claims(e)' \subseteq Claims(e)
  <2>1. ASSUME NEW c \in charged'[e.key] \ charged[e.key] PROVE c.by \in Claims(e)
    <3>1. PICK i \in DOMAIN entries[w] :
            entries[w][i].key = e.key /\ c = RecordOf(<<w, hook[w]>>, i, at[w], count[w])
      BY <1>6, KeyOfEntry DEF Charges
    <3>2. PICK n \in DOMAIN entries[w] : entries[w][n] = e
      <4>1. i \in DOMAIN ChecksOf[d] /\ ChecksOf[d][i] \in Range(ChecksOf[d]) /\ ChecksOf[d][i].key = e.key
        BY <1>3, <3>1 DEF Range
      <4>2. e \in Range(ChecksOf[d])
        <5>. HIDE DEF ChecksOf, AllChecks
        <5>. QED BY <4>1 DEF BucketsAgree
      <4>3. \E n \in DOMAIN ChecksOf[d] : ChecksOf[d][n] = e
        <5>. HIDE DEF ChecksOf
        <5>. QED BY <4>2 DEF Range
      <4>. HIDE DEF ChecksOf
      <4>. QED BY <1>3, <4>3
    <3>3. n < pos[w]
      BY <1>1, <1>2, <1>6, <3>2
    <3>4. w \in Passed(e)
      BY <3>2, <3>3 DEF Passed
    <3>5. c.by = <<w, hook[w]>>
      BY <3>1 DEF RecordOf
    <3>. QED BY <3>4, <3>5 DEF Claims
  <2>2. OnlyMoves(w) /\ w \notin Passed(e)'
    BY <1>6 DEF GoesOn, Passed
  <2>. QED BY <2>1, <2>2, ClaimsStay DEF OnlyMoves
<1>. QED BY <1>4, <1>5, <1>6, AdmittedIs

\* The check of the bucket passes: it has counted less than the quota.
LEMMA PassBounded ==
  ASSUME BucketsAgree, Typed, NEW e \in AllChecks, e.mode = "check_and_add", KeptIn(e),
         NEW w \in Worker, pc[w] = "check", Here(w) = e, Admitted(w),
         ~Over(Total(Live(kv[e.key].list, e.limit, at[w])), e.quota),
         UNCHANGED <<now, kv, hook, lost>>
  PROVE  Bounded(e)'
<1>. DEFINE L == Live(kv[e.key].list, e.limit, at[w])
            R == {<<v, hook[v]>> : v \in Worker}
<1>0. e.key \in Key
  BY KeyOfEntry
<1>1. Positive(L)
  <2>1. L \subseteq charged[e.key] /\ IsFiniteSet(charged[e.key]) /\ charged[e.key] \subseteq Records
    BY <1>0 DEF Typed, Types, Stored, Live
  <2>2. IsFiniteSet(L)
    BY <2>1, FS_Subset
  <2>. HIDE DEF L
  <2>. QED BY <2>1, <2>2 DEF Positive, Records
<1>2. /\ e.quota \in Nat /\ Cardinality(L) \in Nat /\ Cardinality(L) < e.quota
  <2>1. e \in [key : Key, limit : {e.limit}, quota : Nat \ {0}, mode : {"check", "check_and_add"}]
    BY LocalEntries
  <2>2. e.quota \in Nat
    <3>. HIDE DEF AllChecks
    <3>. QED BY <2>1
  <2>3. ~(Total(L) >= e.quota)
    BY DEF Over
  <2>. HIDE DEF L
  <2>. QED BY <1>1, <2>2, <2>3, TotalCounts
<1>. HIDE DEF L
<1>3. Claims(e)' \subseteq {c.by : c \in L} \union R
  <2>1. \A v \in Worker : <<v, hook'[v]>> \in R
    OBVIOUS
  <2>2. ASSUME NEW c \in InWindow(e)', c \notin lost' PROVE c.by \in {d.by : d \in L} \union R
    <3>1. c \in charged'[e.key]
      BY <2>2 DEF InWindow
    <3>2. CASE c \notin charged[e.key]
      <4>1. Charges(entries[w], <<w, hook[w]>>, at[w], count[w])
        BY <3>1, <3>2, AdmittedIs
      <4>2. c.by = <<w, hook[w]>>
        BY <1>0, <3>1, <3>2, <4>1 DEF Charges, RecordOf
      <4>. QED BY <4>2
    <3>3. CASE c \in charged[e.key]
      <4>1. c \in InWindow(e) \ lost
        BY <2>2, <3>3 DEF InWindow
      <4>2. CASE c \in kv[e.key].list
        BY <4>1, <4>2, WindowKept DEF L
      <4>3. ASSUME NEW v \in Worker, Outstanding(v, c) PROVE c.by \in R
        BY <4>3 DEF Outstanding
      <4>. QED BY <4>1, <4>2, <4>3 DEF KeptIn, Counted
    <3>. QED BY <3>2, <3>3
  <2>3. Passed(e)' \subseteq Worker
    BY DEF Passed
  <2>. HIDE DEF R
  <2>. QED BY <2>1, <2>2, <2>3 DEF Claims
<1>4. IsFiniteSet({c.by : c \in L}) /\ Cardinality({c.by : c \in L}) <= Cardinality(L)
  BY <1>1, HooksFinite DEF Positive
<1>5. IsFiniteSet(R) /\ Cardinality(R) <= Cardinality(Worker)
  BY RunningFinite
<1>. HIDE DEF R
<1>. DEFINE A == {c.by : c \in L}
<1>. HIDE DEF A
<1>6. /\ IsFiniteSet(A \union R) /\ Cardinality(A \union R) <= Cardinality(A) + Cardinality(R)
  <2>1. /\ IsFiniteSet(A \union R)
        /\ Cardinality(A \union R) = Cardinality(A) + Cardinality(R) - Cardinality(A \cap R)
    BY <1>4, <1>5, FS_Union DEF A
  <2>2. Cardinality(A) \in Nat /\ Cardinality(R) \in Nat /\ Cardinality(A \cap R) \in Nat
    BY <1>4, <1>5, FS_Subset, FS_CardinalityType DEF A
  <2>. QED BY <2>1, <2>2
<1>7. Cardinality(Claims(e)') <= Cardinality(A \union R) /\ Cardinality(Claims(e)') \in Nat
      /\ Cardinality(A \union R) \in Nat
  BY <1>3, <1>6, Fewer DEF A
<1>8. Cardinality(A) \in Nat /\ Cardinality(R) \in Nat /\ Cardinality(Worker) \in Nat
  BY <1>4, <1>5, FS_CardinalityType, LocalAssumption DEF A
<1>9. Cardinality(A) <= Cardinality(L)
  BY <1>4 DEF A
<1>10. Cardinality(Claims(e)') <= e.quota + Cardinality(Worker) - 1
  BY <1>2, <1>5, <1>6, <1>7, <1>8, <1>9
<1>. QED BY <1>10 DEF Bounded

LEMMA WorkerBounded ==
  ASSUME BucketsAgree, Typed, NEW e \in AllChecks, e.key \in Established \ Faulty,
         e.mode = "check_and_add", KeptIn(e), Bounded(e), NEW w \in Worker,
         Arrive(w) \/ StreamDone(w) \/ Check(w) \/ Load(w) \/ Store(w) \/ HostRefuses(w)
  PROVE  Bounded(e)'
<1>. SUFFICES ASSUME ~ (Claims(e)' \subseteq Claims(e)) PROVE Bounded(e)'
  BY FewerClaims
<1>1. CASE Arrive(w)
  <2>1. PICK c \in Caller :
          /\ entries' = [entries EXCEPT ![w] = ChecksOf[c]]
          /\ pos' = [pos EXCEPT ![w] = NextIn(ChecksOf[c], 1, Checking)]
    BY <1>1 DEF Arrive
  <2>2. /\ \A v \in Worker \ {w} : Same(v) /\ hook'[v] = hook[v]
        /\ UNCHANGED <<now, lost, charged>>
    BY <1>1 DEF Arrive, Same, Typed, Types, Batch
  <2>3. entries'[w] = ChecksOf[c] /\ pos'[w] = NextIn(ChecksOf[c], 1, Checking)
    BY <2>1 DEF Typed, Types, Batch
  <2>4. /\ DOMAIN ChecksOf[c] \in SUBSET (Nat \ {0})
        /\ \A n \in DOMAIN ChecksOf[c] : ChecksOf[c][n].mode \in Checking
    <3>1. /\ ChecksOf[c] \in Lists
          /\ \A n \in DOMAIN ChecksOf[c] : ChecksOf[c][n].mode \in Checking
      BY CheckEntries
    <3>. HIDE DEF ChecksOf
    <3>. QED BY <3>1, ListEntries
  <2>5. \A n \in DOMAIN ChecksOf[c] : ~(n < NextIn(ChecksOf[c], 1, Checking))
    <3>. HIDE DEF ChecksOf
    <3>1. \A n \in DOMAIN ChecksOf[c] : n \in Nat /\ n >= 1
      BY <2>4
    <3>2. LET m == NextIn(ChecksOf[c], 1, Checking)
          IN  m \in Nat /\ \A n \in DOMAIN ChecksOf[c] : m = 0 \/ m <= n
      BY <2>4, <3>1, NextInIs
    <3>. QED BY <3>1, <3>2
  <2>6. w \notin Passed(e)'
    <3>. HIDE DEF ChecksOf
    <3>. QED BY <2>3, <2>5 DEF Passed
  <2>. QED BY <2>2, <2>6, ClaimsStay
<1>2. CASE StreamDone(w)
  <2>1. /\ \A v \in Worker \ {w} : Same(v) /\ hook'[v] = hook[v]
        /\ UNCHANGED <<now, lost>> /\ pc'[w] = "load"
    BY <1>2 DEF StreamDone, Same, Typed, Types, Batch
  <2>2. charged'[e.key] = charged[e.key]
    BY <1>2, StreamDoneSpares
  <2>. QED BY <2>1, <2>2, ClaimsStay DEF Passed
<1>3. ASSUME OnlyMoves(w), UNCHANGED <<now, hook, charged>>, lost \subseteq lost', pc'[w] # "check"
      PROVE  Bounded(e)'
  BY <1>3, ClaimsStay DEF OnlyMoves, Passed
<1>4. ASSUME pc[w] = "check", Admitted(w), UNCHANGED <<now, kv, hook, lost>>,
             Here(w) = e => ~Over(Total(Live(kv[e.key].list, e.limit, at[w])), e.quota)
      PROVE  Bounded(e)'
  BY <1>4, AdmittedClaims, PassBounded
<1>5. ASSUME Writing(w), GiveUp(w), UNCHANGED <<now, hook, charged>>
      PROVE  Bounded(e)'
  <2>1. GoesOn(w, pos[w] + 1)
    <3>1. pc[w] # "idle"
      BY <1>5 DEF Writing
    <3>2. Batch /\ entries[w] \in Lists /\ pos[w] \in Nat \ {0}
      BY <3>1, Running
    <3>3. Batch /\ entries[w] \in Lists /\ pos[w] + 1 \in Nat
      BY <3>2
    <3>. QED BY <1>5, <3>3, WriteIs DEF GiveUp
  <2>2. OnlyMoves(w) /\ pc'[w] # "check"
    BY <2>1 DEF GoesOn
  <2>3. lost \subseteq lost'
    BY <1>5 DEF GiveUp
  <2>. QED BY <1>3, <1>5, <2>2, <2>3
<1>6. CASE Check(w)
  <2>1. /\ pc[w] = "check" /\ UNCHANGED <<now, kv, hook, lost>>
        /\ \/ Return(w) /\ UNCHANGED charged
           \/ Admitted(w) /\ ~Over(Total(Live(kv[Here(w).key].list, Here(w).limit, at[w])), Here(w).quota)
    BY <1>6 DEF Check, Refuse, Here
  <2>2. CASE Return(w) /\ UNCHANGED charged
    <3>1. OnlyMoves(w) /\ pc'[w] = "idle"
      BY <2>2, ReturnIs DEF Typed, Types
    <3>. QED BY <1>3, <2>1, <2>2, <3>1
  <2>. QED BY <1>4, <2>1, <2>2
<1>7. CASE Load(w)
  <2>1. /\ \A v \in Worker \ {w} : Same(v) /\ hook'[v] = hook[v]
        /\ UNCHANGED <<now, lost, charged>> /\ pc'[w] = "store"
    BY <1>7 DEF Load, Same, Typed, Types, Batch
  <2>. QED BY <2>1, ClaimsStay DEF Passed
<1>8. CASE Store(w)
  <2>1. pc[w] = "store" /\ (Stores(w) \/ Retried(w) \/ GivenUp(w))
    BY <1>8, StoreIs
  <2>2. CASE Stores(w)
    <3>1. Batch /\ entries[w] \in Lists /\ pos[w] \in Nat \ {0}
      BY <2>1, Running
    <3>2. Batch /\ entries[w] \in Lists /\ pos[w] + 1 \in Nat
      BY <3>1
    <3>3. GoesOn(w, pos[w] + 1)
      BY <2>2, <3>2, WriteIs DEF Stores
    <3>4. OnlyMoves(w) /\ pc'[w] # "check"
      BY <3>3 DEF GoesOn
    <3>5. UNCHANGED <<now, hook, charged, lost>>
      BY <2>2 DEF Stores
    <3>. QED BY <1>3, <3>4, <3>5
  <2>3. CASE Retried(w)
    <3>1. /\ \A v \in Worker \ {w} : Same(v) /\ hook'[v] = hook[v]
          /\ UNCHANGED <<now, lost, charged>> /\ pc'[w] = "load"
      BY <2>3 DEF Retried, Same, Typed, Types, Batch
    <3>. QED BY <3>1, ClaimsStay DEF Passed
  <2>4. CASE GivenUp(w)
    BY <1>5, <2>1, <2>4 DEF GivenUp, Writing
  <2>. QED BY <2>1, <2>2, <2>3, <2>4
<1>9. CASE HostRefuses(w)
  <2>1. /\ UNCHANGED <<now, kv, hook>> /\ Here(w).key \in Faulty
        /\ \/ pc[w] = "check" /\ Admitted(w) /\ UNCHANGED lost
           \/ Writing(w) /\ GiveUp(w) /\ UNCHANGED charged
    BY <1>9 DEF HostRefuses, Writing, Here
  <2>. QED BY <1>4, <1>5, <2>1
<1>. QED BY <1>1, <1>2, <1>6, <1>7, <1>8, <1>9
-----------------------------------------------------------------------------
\* The inductive invariant, given that the buckets agree.
Held ==
  /\ \A e \in AllChecks : e.key \in Established => KeptIn(e)
  /\ \A e \in AllChecks :
       e.key \in Established \ Faulty /\ e.mode = "check_and_add" => Bounded(e)

LEMMA InitHeld == Init => Held
<1>. SUFFICES ASSUME Init PROVE Held
  OBVIOUS
<1>1. ASSUME NEW e \in AllChecks PROVE InWindow(e) = {}
  BY KeyOfEntry DEF Init, InWindow
<1>2. ASSUME NEW e \in AllChecks PROVE KeptIn(e)
  BY <1>1 DEF KeptIn
<1>3. ASSUME NEW e \in AllChecks PROVE Bounded(e)
  <2>1. Claims(e) = {}
    BY <1>1 DEF Claims, Passed, Init
  <2>2. e \in [key : Key, limit : {e.limit}, quota : Nat \ {0}, mode : {"check", "check_and_add"}]
    BY LocalEntries
  <2>3. e.quota \in Nat \ {0}
    <3>. HIDE DEF AllChecks
    <3>. QED BY <2>2
  <2>4. Cardinality(Worker) \in Nat
    BY LocalAssumption, FS_CardinalityType
  <2>5. Cardinality(Claims(e)) = 0
    BY <2>1, FS_EmptySet
  <2>. QED BY <2>3, <2>4, <2>5 DEF Bounded
<1>. QED BY <1>2, <1>3 DEF Held

LEMMA StepHeld == BucketsAgree /\ Typed /\ Held /\ [Next]_vars => Held'
<1>. SUFFICES ASSUME BucketsAgree, Typed, Held, [Next]_vars PROVE Held'
  OBVIOUS
<1>1. ASSUME NEW w \in Worker,
             Arrive(w) \/ StreamDone(w) \/ Check(w) \/ Load(w) \/ Store(w) \/ HostRefuses(w)
      PROVE  Held'
  BY <1>1, WorkerKept, WorkerBounded DEF Held
<1>2. CASE Tick
  <2>1. ASSUME NEW e \in AllChecks, e.key \in Established \ Faulty, e.mode = "check_and_add", Bounded(e)
        PROVE  Bounded(e)'
    <3>1. InWindow(e)' \subseteq InWindow(e) /\ UNCHANGED <<lost, hook, pc, entries, pos>>
      BY <1>2, WindowSlides DEF Tick, batch
    <3>2. Claims(e)' \subseteq Claims(e)
      BY <3>1 DEF Claims, Passed
    <3>. QED BY <2>1, <3>2, FewerClaims
  <2>. QED BY <1>2, <2>1, TickKept DEF Held
<1>3. CASE UNCHANGED vars
  BY <1>3 DEF vars, batch, Held, KeptIn, Counted, Outstanding, Bounded, Claims, Passed, InWindow
<1>. QED BY <1>1, <1>2, <1>3 DEF Next, Stopped

LEMMA AlwaysHeld == Spec => [](BucketsAgree => Held)
<1>. DEFINE I == Typed /\ (BucketsAgree => Held)
<1>1. Init => I
  BY InitTyped, InitHeld
<1>2. I /\ [Next]_vars => I'
  <2>1. BucketsAgree' <=> BucketsAgree
    BY DEF BucketsAgree
  <2>. QED BY <2>1, StepTyped, StepHeld
<1>. QED BY <1>1, <1>2, PTL DEF Spec

\* However the calls of the workers interleave, and for any number of attempts:
\* the requests that a window of an established bucket of requests holds
\* exceed its quota by one for each other worker at most, and what was let
\* through stays in the list of its bucket while it counts, but for the writes
\* that were given up (BatchEval of the local backend).
THEOREM QuotaIsHeld == Spec => []QuotaHeld
<1>1. Typed /\ (BucketsAgree => Held) => QuotaHeld
  <2>. SUFFICES ASSUME Typed, BucketsAgree, Held PROVE OverAdmissionBounded /\ NoCountLost
    BY DEF QuotaHeld
  <2>1. NoCountLost
    BY DEF Held, KeptIn, NoCountLost
  <2>2. OverAdmissionBounded
    <3>. SUFFICES ASSUME NEW e \in AllChecks, e.key \in Established \ Faulty,
                         e.mode = "check_and_add"
                  PROVE  Cardinality({c.by : c \in InWindow(e) \ lost})
                           <= e.quota + Cardinality(Worker) - 1
      BY DEF OverAdmissionBounded
    <3>. DEFINE S == {c.by : c \in InWindow(e) \ lost}
    <3>1. S \subseteq Claims(e) /\ IsFiniteSet(Claims(e))
      BY ClaimsFinite DEF Claims
    <3>. HIDE DEF S
    <3>2. /\ Cardinality(S) \in Nat /\ Cardinality(Claims(e)) \in Nat
          /\ Cardinality(S) <= Cardinality(Claims(e))
      BY <3>1, Fewer
    <3>3. Cardinality(Claims(e)) <= e.quota + Cardinality(Worker) - 1
      BY DEF Held, Bounded
    <3>4. e.quota \in Nat /\ Cardinality(Worker) \in Nat
      <4>1. e \in [key : Key, limit : {e.limit}, quota : Nat \ {0}, mode : {"check", "check_and_add"}]
        BY LocalEntries
      <4>2. IsFiniteSet(Worker)
        BY LocalAssumption
      <4>. HIDE DEF AllChecks
      <4>. QED BY <4>1, <4>2, FS_CardinalityType
    <3>. QED BY <3>2, <3>3, <3>4 DEF S
  <2>. QED BY <2>1, <2>2
<1>. QED BY <1>1, AlwaysTyped, AlwaysHeld, PTL

\* Whoever is refused meets a quota that hooks let through within the window
\* have used up (the check of BatchEval of the local backend).
THEOREM RefusedAtQuota == Spec => NeverStarved
<1>. DEFINE Charged(w) ==
       LET e == entries[w][pos[w]]
       IN {c \in charged[e.key] : c.score > at[w] - WindowAt(e.limit, at[w])}
<1>1. ASSUME Typed, [Next]_vars, NEW w \in Worker, refused' # refused, pc[w] = "check", pc'[w] = "idle"
      PROVE  Total(Charged(w)) >= Here(w).quota
  <2>1. PICK v \in Worker : Check(v)
    BY <1>1 DEF Next, vars, batch, Stopped, Tick, Arrive, StreamDone, Load, Store, HostRefuses
  <2>2. Return(v) /\ Over(Total(Live(kv[Here(v).key].list, Here(v).limit, at[v])), Here(v).quota)
    BY <1>1, <2>1 DEF Check, Refuse, Here
  <2>3. v = w
    BY <1>1, <2>2, ReturnIs DEF OnlyMoves, Same, Typed, Types
  <2>. DEFINE L == Live(kv[Here(w).key].list, Here(w).limit, at[w])
  <2>4. Here(w).key \in Key /\ Here(w) = entries[w][pos[w]]
    BY <1>1, Running
  <2>5. /\ kv[Here(w).key].list \subseteq charged[Here(w).key] /\ IsFiniteSet(charged[Here(w).key])
        /\ charged[Here(w).key] \subseteq Records
    BY <1>1, <2>4 DEF Typed, Types, Stored
  <2>6. L \subseteq Charged(w) /\ Charged(w) \subseteq charged[Here(w).key]
    BY <2>4, <2>5 DEF Live
  <2>7. Total(L) >= Here(w).quota
    BY <2>2, <2>3 DEF Over
  <2>. HIDE DEF L, Charged
  <2>8. Positive(Charged(w)) /\ Positive(L)
    <3>1. IsFiniteSet(Charged(w))
      BY <2>5, <2>6, FS_Subset
    <3>2. IsFiniteSet(L)
      BY <2>6, <3>1, FS_Subset
    <3>. QED BY <2>5, <2>6, <3>1, <3>2 DEF Positive, Records
  <2>9. Total(L) <= Total(Charged(w)) /\ Total(L) \in Nat /\ Total(Charged(w)) \in Nat
    BY <2>6, <2>8, TotalGrows, TotalCounts
  <2>10. Here(w).quota \in Nat
    <3>1. PICK c \in Caller : entries[w] = ChecksOf[c]
      BY <1>1 DEF Typed, Stands
    <3>2. Here(w) \in AllChecks
      <4>1. pos[w] \in DOMAIN entries[w]
        BY <1>1, Running
      <4>2. \A n \in DOMAIN ChecksOf[c] : ChecksOf[c][n] \in AllChecks
        BY CheckEntries
      <4>. HIDE DEF ChecksOf, AllChecks
      <4>. QED BY <2>4, <3>1, <4>1, <4>2
    <3>3. Here(w) \in [key : Key, limit : {Here(w).limit}, quota : Nat \ {0}, mode : {"check", "check_and_add"}]
      BY <3>2, LocalEntries
    <3>. QED BY <3>3
  <2>. QED BY <2>7, <2>9, <2>10
<1>2. Typed /\ [Next]_vars =>
        [\A w \in Worker : refused' # refused /\ pc[w] = "check" /\ pc'[w] = "idle" =>
           LET e == entries[w][pos[w]]
           IN MapThenSumSet(LAMBDA c : c.count,
                {c \in charged[e.key] : c.score > at[w] - WindowAt(e.limit, at[w])}) >= e.quota]_vars
  BY <1>1 DEF Total, Here
<1>. QED BY <1>2, AlwaysTyped, PTL DEF Spec, NeverStarved
=============================================================================
