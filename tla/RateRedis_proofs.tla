---------------------------- MODULE RateRedis_proofs ----------------------------
(***************************************************************************)
(* Theorems about RateRedis, for any requests, callers and configuration.  *)
(*                                                                         *)
(* 1. RefusedUncharged is not inductive: it speaks of what stands in redis *)
(* once a request is refused, while records enter through scripts that run *)
(* at any later time, the check of a caller who has left or the tokens of  *)
(* one who was let through.  What carries it is that tokens are only sent  *)
(* at the end of a request that reached its model, and that a script which *)
(* did not succeed has recorded nothing, whatever its request did since.   *)
(*                                                                         *)
(* 2. WindowExact speaks of the windows that end by now.  To be inductive  *)
(* it must bound those to come too (OnTimeKept), since a script may carry  *)
(* a clock behind records of others; and a record is only still in redis   *)
(* because no time to live ends before its window does (Expiries), for a   *)
(* calendar as long as its scripts run in the period of their sender.  The *)
(* script adds counts and the window bounds records: a sum of positive     *)
(* counts is at least their number (SumCounts, by induction on the sum).   *)
(***************************************************************************)
EXTENDS RateRedis, FiniteSetTheorems, WellFoundedInduction, TLAPS

LEMMA LeastNatural ==
  ASSUME NEW T \in SUBSET Nat, T # {}
  PROVE  \E m \in T : \A n \in T : m <= n
<1>1. PICK m \in T : \A n \in T : ~ (<<n, m>> \in OpToRel(<, Nat))
  BY NatLessThanWellFounded, WFMin
<1>2. \A n \in T : ~ (n < m)
  BY <1>1 DEF OpToRel
<1>. QED BY <1>2

-----------------------------------------------------------------------------
(***************************************************************************)
(* The sum that windowTotal forms.                                         *)
(***************************************************************************)
Some(S) == CHOOSE x \in S : TRUE

\* The parts of S of at most n elements, and f[T] the sum over each of them.
Small(S, n) == {T \in SUBSET S : Cardinality(T) <= n}

Sums(f, S, n) ==
  f = [T \in Small(S, n) |-> IF T = {} THEN 0 ELSE Some(T).count + f[T \ {Some(T)}]]

LEMMA SomeLess ==
  ASSUME NEW S, IsFiniteSet(S), NEW T \in SUBSET S, T # {}
  PROVE  /\ IsFiniteSet(T) /\ Some(T) \in T /\ T \ {Some(T)} \in SUBSET S
         /\ Cardinality(T) \in Nat /\ Cardinality(T) > 0
         /\ Cardinality(T \ {Some(T)}) = Cardinality(T) - 1
<1>1. IsFiniteSet(T) /\ Some(T) \in T
  BY FS_Subset DEF Some
<1>. QED BY <1>1, FS_RemoveElement, FS_CardinalityType, FS_EmptySet

LEMMA SumsExist ==
  ASSUME NEW S, IsFiniteSet(S), NEW n \in Nat
  PROVE  \E f : Sums(f, S, n)
<1>. DEFINE Bad == {k \in Nat : ~ \E f : Sums(f, S, k)}
<1>. SUFFICES ASSUME Bad # {} PROVE FALSE
  OBVIOUS
<1>1. PICK m \in Bad : \A k \in Bad : m <= k
  <2>1. Bad \in SUBSET Nat
    OBVIOUS
  <2>. HIDE DEF Bad
  <2>. QED BY <2>1, LeastNatural
<1>2. m # 0
  <2>1. Small(S, 0) = {{}}
    <3>1. ASSUME NEW T \in SUBSET S, T # {} PROVE ~(Cardinality(T) <= 0)
      <4>1. Cardinality(T) \in Nat /\ Cardinality(T) > 0
        BY <3>1, SomeLess, Zenon
      <4>. QED BY <4>1
    <3>. QED BY <3>1, FS_EmptySet DEF Small
  <2>2. Sums([T \in Small(S, 0) |-> 0], S, 0)
    BY <2>1 DEF Sums
  <2>. QED BY <2>2
<1>3. PICK f : Sums(f, S, m - 1)
  <2>1. m - 1 \in Nat /\ m - 1 \notin Bad
    BY <1>1, <1>2
  <2>. QED BY <2>1
<1>. DEFINE g == [T \in Small(S, m) |-> IF T = {} THEN 0 ELSE Some(T).count + f[T \ {Some(T)}]]
<1>4. ASSUME NEW T \in Small(S, m - 1)
      PROVE  T \in Small(S, m) /\ g[T] = f[T]
  <2>1. T \in Small(S, m)
    <3>1. Cardinality(T) \in Nat /\ m \in Nat /\ Cardinality(T) <= m - 1
      BY FS_Subset, FS_CardinalityType DEF Small
    <3>. QED BY <3>1 DEF Small
  <2>2. f[T] = IF T = {} THEN 0 ELSE Some(T).count + f[T \ {Some(T)}]
    BY <1>3, Zenon DEF Sums
  <2>. QED BY <2>1, <2>2
<1>5. ASSUME NEW T \in Small(S, m), T # {}
      PROVE  T \ {Some(T)} \in Small(S, m - 1)
  <2>1. /\ T \in SUBSET S /\ Cardinality(T) <= m /\ m \in Nat
    BY DEF Small
  <2>2. Cardinality(T) \in Nat /\ Cardinality(T \ {Some(T)}) = Cardinality(T) - 1
    BY <1>5, <2>1, SomeLess
  <2>. QED BY <2>1, <2>2 DEF Small
<1>6. Sums(g, S, m)
  <2>1. ASSUME NEW T \in Small(S, m)
        PROVE  g[T] = IF T = {} THEN 0 ELSE Some(T).count + g[T \ {Some(T)}]
    <3>1. CASE T = {}
      BY <3>1
    <3>2. CASE T # {}
      <4>1. g[T \ {Some(T)}] = f[T \ {Some(T)}]
        BY <1>4, <1>5, <3>2
      <4>. QED BY <3>2, <4>1
    <3>. QED BY <3>1, <3>2
  <2>2. g = [T \in Small(S, m) |-> g[T]]
    OBVIOUS
  <2>. HIDE DEF g
  <2>. QED BY <2>1, <2>2 DEF Sums
<1>. QED BY <1>6

\* Every element counts for one at least.
LEMMA SumCounts ==
  ASSUME NEW S, IsFiniteSet(S), \A e \in S : e.count \in Nat /\ e.count > 0
  PROVE  LET sum == MapThenSumSet(LAMBDA e : e.count, S)
         IN  sum \in Nat /\ Cardinality(S) <= sum
<1>1. Small(S, Cardinality(S)) = SUBSET S
  BY FS_Subset DEF Small
<1>2. PICK f : /\ Sums(f, S, Cardinality(S))
               /\ MapThenSumSet(LAMBDA e : e.count, S) = f[S]
  <2>1. \E f : f = [T \in SUBSET S |-> IF T = {} THEN 0 ELSE Some(T).count + f[T \ {Some(T)}]]
    <3>1. \E f : Sums(f, S, Cardinality(S))
      BY SumsExist, FS_CardinalityType
    <3>. QED BY <1>1, <3>1, Zenon DEF Sums
  <2>. QED BY <1>1, <2>1 DEF MapThenSumSet, MapThenFoldSet, Some, Sums
<1>. DEFINE Bad == {k \in Nat : \E T \in SUBSET S :
                     Cardinality(T) = k /\ ~(f[T] \in Nat /\ k <= f[T])}
<1>3. Bad = {}
  <2>. SUFFICES ASSUME Bad # {} PROVE FALSE
    OBVIOUS
  <2>1. PICK m \in Bad : \A k \in Bad : m <= k
    <3>1. Bad \in SUBSET Nat
      OBVIOUS
    <3>. HIDE DEF Bad
    <3>. QED BY <3>1, LeastNatural
  <2>2. PICK T \in SUBSET S : Cardinality(T) = m /\ ~(f[T] \in Nat /\ m <= f[T])
    BY <2>1
  <2>3. f[T] = IF T = {} THEN 0 ELSE Some(T).count + f[T \ {Some(T)}]
    BY <1>1, <1>2, Zenon DEF Sums
  <2>4. CASE T = {}
    BY <2>2, <2>3, <2>4, FS_EmptySet
  <2>5. CASE T # {}
    <3>. DEFINE U == T \ {Some(T)}
    <3>1. /\ Some(T) \in T /\ U \in SUBSET S
          /\ m > 0 /\ Cardinality(U) = m - 1
      BY <2>2, <2>5, SomeLess
    <3>2. m \in Nat /\ m - 1 \in Nat /\ m - 1 \notin Bad
      BY <2>1, <3>1
    <3>3. f[U] \in Nat /\ m - 1 <= f[U]
      BY <3>1, <3>2
    <3>4. Some(T).count \in Nat /\ Some(T).count > 0
      BY <3>1
    <3>5. f[T] = Some(T).count + f[U]
      BY <2>3, <2>5
    <3>. HIDE DEF U, Bad
    <3>. QED BY <2>2, <3>2, <3>3, <3>4, <3>5
  <2>. QED BY <2>4, <2>5
<1>. QED BY <1>2, <1>3, FS_CardinalityType
-----------------------------------------------------------------------------
(***************************************************************************)
(* Refused requests.                                                       *)
(***************************************************************************)
Domains ==
  /\ pc \in [Req -> {"idle", "paused", "upstream", "rejected", "done"}]
  /\ check \in [Req -> {"none", "sent", "SUCCESS", "LIMITED", "lost"}]
  /\ add \in [Req -> {"none", "sent", "over"}]

\* The check is the first thing that a request does.
ChecksFirst == \A r \in Req : pc[r] = "idle" => check[r] = "none"

\* The tokens are sent when the response is complete.
AddsLast == \A r \in Req : add[r] # "none" => pc[r] = "done"

\* A check that has not succeeded has recorded nothing.
Uncharged ==
  \A r \in Req : check[r] # "SUCCESS" /\ add[r] = "none" =>
    \A k \in Key : \A c \in charged[k] : c.req # r

IInv == Domains /\ ChecksFirst /\ AddsLast /\ Uncharged

LEMMA InitIInv == Init => IInv
BY DEF Init, IInv, Domains, ChecksFirst, AddsLast, Uncharged

\* A script records under its own request only, and the check of a request
\* that is over a quota nothing.
LEMMA ScriptRecords ==
  ASSUME NEW es, NEW t, NEW r, NEW count, Script(es, t, r, count)
  PROVE  \A k \in Key : \A c \in charged'[k] :
           c \in charged[k] \/ (c.req = r /\ LimitedAt(es, t) = {})
<1>. DEFINE added  == {es[i].key : i \in Recorded(es, LimitedAt(es, t))}
            new(k) == IF k \in added THEN {[req |-> r, count |-> count, score |-> t, ran |-> now]} ELSE {}
<1>1. charged' = [k \in Key |-> charged[k] \union new(k)]
  BY DEF Script
<1>2. \A k \in Key : \A c \in new(k) : c.req = r
  OBVIOUS
<1>3. ASSUME LimitedAt(es, t) # {}
      PROVE  \A k \in Key : charged'[k] = charged[k]
  <2>1. Recorded(es, LimitedAt(es, t)) = {}
    BY <1>3 DEF Recorded
  <2>2. added = {}
    BY <2>1
  <2>. HIDE DEF added
  <2>3. \A k \in Key : new(k) = {}
    BY <2>2
  <2>. QED BY <1>1, <2>3
<1>. HIDE DEF new
<1>. QED BY <1>1, <1>2, <1>3

LEMMA StepIInv == IInv /\ [Next]_vars => IInv'
<1>. SUFFICES ASSUME IInv, [Next]_vars PROVE IInv'
  OBVIOUS
<1>. USE DEF IInv, Domains, ChecksFirst, AddsLast, Uncharged, redis
<1>1. ASSUME NEW r \in Req, Arrive(r) PROVE IInv'
  <2>1. /\ pc[r] = "idle" /\ UNCHANGED <<redis, add>>
        /\ \/ pc' = [pc EXCEPT ![r] = "upstream"] /\ UNCHANGED check
           \/ pc' = [pc EXCEPT ![r] = "paused"] /\ check' = [check EXCEPT ![r] = "sent"]
    BY <1>1 DEF Arrive
  <2>. QED BY <2>1
<1>2. ASSUME NEW r \in Req, DispatchFails(r) PROVE IInv'
  BY <1>2 DEF DispatchFails
<1>3. ASSUME NEW r \in Req, RunCheck(r) PROVE IInv'
  <2>. DEFINE es == ChecksOf[caller[r]]
  <2>1. Script(es, start[r], r, 1)
    BY <1>3 DEF RunCheck
  <2>2. /\ check[r] = "sent" /\ UNCHANGED <<pc, add>>
        /\ check' = [check EXCEPT ![r] = IF LimitedAt(es, start[r]) = {} THEN "SUCCESS" ELSE "LIMITED"]
    BY <1>3 DEF RunCheck
  <2>. HIDE DEF es
  <2>3. \A k \in Key : \A c \in charged'[k] :
          c \in charged[k] \/ (c.req = r /\ LimitedAt(es, start[r]) = {})
    BY <2>1, ScriptRecords
  <2>. QED BY <2>2, <2>3
<1>4. ASSUME NEW r \in Req, CheckLost(r) PROVE IInv'
  BY <1>4 DEF CheckLost
<1>5. ASSUME NEW r \in Req, Reply(r) PROVE IInv'
  BY <1>5 DEF Reply, Pass
<1>6. ASSUME NEW r \in Req, ReplyFails(r) PROVE IInv'
  BY <1>6 DEF ReplyFails, Pass
<1>7. ASSUME NEW r \in Req, Disconnect(r) PROVE IInv'
  BY <1>7 DEF Disconnect
<1>8. ASSUME NEW r \in Req, StreamDone(r) PROVE IInv'
  <2>1. /\ pc[r] = "upstream" /\ pc' = [pc EXCEPT ![r] = "done"]
        /\ UNCHANGED <<redis, check>>
        /\ \/ UNCHANGED add
           \/ add' = [add EXCEPT ![r] = "sent"]
           \/ add' = [add EXCEPT ![r] = "over"]
    BY <1>8 DEF StreamDone
  <2>. QED BY <2>1
<1>9. ASSUME NEW r \in Req, RunAdd(r) PROVE IInv'
  <2>1. Script(PendingOf[caller[r]], doneAt[r], r, tokens[r])
    BY <1>9 DEF RunAdd
  <2>2. add[r] = "sent" /\ add' = [add EXCEPT ![r] = "over"] /\ UNCHANGED <<pc, check>>
    BY <1>9 DEF RunAdd
  <2>3. \A k \in Key : \A c \in charged'[k] : c \in charged[k] \/ c.req = r
    BY <2>1, ScriptRecords
  <2>. QED BY <2>2, <2>3
<1>10. ASSUME NEW r \in Req, AddLost(r) PROVE IInv'
  BY <1>10 DEF AddLost
<1>11. ASSUME Tick PROVE IInv'
  BY <1>11 DEF Tick, request
<1>12. ASSUME UNCHANGED vars PROVE IInv'
  BY <1>12 DEF vars, request
<1>. QED
  BY <1>1, <1>2, <1>3, <1>4, <1>5, <1>6, <1>7, <1>8, <1>9, <1>10, <1>11, <1>12 DEF Next, Stopped

LEMMA AlwaysIInv == Spec => []IInv
BY InitIInv, StepIInv, PTL DEF Spec

\* A refused request takes nothing from anybody's quota: on none of its buckets
\* is it recorded, however late its script ran, and whatever other requests of
\* the same caller have recorded in between (multi_level_limit.lua, pass 2).
THEOREM RefusedIsFree == Spec => []RefusedUncharged
<1>1. IInv => RefusedUncharged
  BY DEF IInv, AddsLast, Uncharged, RefusedUncharged
<1>. QED BY <1>1, AlwaysIInv, PTL
-----------------------------------------------------------------------------
(***************************************************************************)
(* Windows.                                                                *)
(***************************************************************************)
\* A check at t counts what is younger than this.
Edge(limit, t) == t - WindowAt(limit, t)

LEMMA Bounds ==
  /\ Grace \in Nat /\ MaxTime \in Nat /\ MaxTokens \in Nat
  /\ \A a \in Arrivals : \A r \in Req : a[r] \in Caller
BY GraceAssumption, RedisAssumption DEF Caller, Range

LEMMA EntryTypes ==
  ASSUME NEW e \in AllChecks
  PROVE  /\ e = [key |-> e.key, limit |-> e.limit, quota |-> e.quota, mode |-> e.mode]
         /\ e.quota \in Nat /\ e.mode \in {"check", "check_and_add"}
         /\ e.mode = "check_and_add" => e.limit.starts = {}
         /\ e.limit.starts = {} => e.limit.window \in Nat /\ e.limit.window > 0
<1>1. e \in [key : Key, limit : {e.limit}, quota : Nat, mode : {"check", "check_and_add"}]
  BY EntriesAssumption
<1>2. e.mode = "check_and_add" => e.limit.starts = {}
  BY EntriesAssumption
<1>3. e.limit.starts = {} => e.limit.window \in Nat \ {0}
  BY EntriesAssumption
<1>. QED BY <1>1, <1>2, <1>3

LEMMA KeyOfEntry == \A e \in AllChecks : e.key \in Key
BY DEF AllChecks, ChecksOf, Range, Key, Keys

\* The period of a calendar that t falls into.
LEMMA PeriodAround ==
  ASSUME NEW starts \in SUBSET Int, NEW t \in Nat,
         \E s \in starts : s <= t, \E s \in starts : s > t
  PROVE  /\ PeriodStart(starts, t) \in starts /\ PeriodStart(starts, t) <= t
         /\ \A s \in starts : s <= t => s <= PeriodStart(starts, t)
         /\ PeriodEnd(starts, t) \in starts /\ PeriodEnd(starts, t) > t
<1>1. \E x \in {s \in starts : s <= t} : \A y \in {s \in starts : s <= t} : x >= y
  <2>. DEFINE D == {n \in Nat : t - n \in starts}
  <2>1. D \in SUBSET Nat /\ D # {}
    <3>1. PICK s \in starts : s <= t
      OBVIOUS
    <3>2. t - s \in Nat /\ t - (t - s) = s
      BY <3>1
    <3>. QED BY <3>1, <3>2
  <2>2. PICK m \in D : \A n \in D : m <= n
    <3>. HIDE DEF D
    <3>. QED BY <2>1, LeastNatural
  <2>3. ASSUME NEW y \in starts, y <= t PROVE t - m >= y
    <3>1. t - y \in Nat /\ t - (t - y) = y
      BY <2>3
    <3>2. t - y \in D
      BY <3>1
    <3>3. m \in Nat /\ m <= t - y
      BY <2>2, <3>2
    <3>. QED BY <3>3
  <2>4. t - m \in starts /\ t - m <= t
    BY <2>2
  <2>. QED BY <2>3, <2>4
<1>2. \E x \in {s \in starts : s > t} : \A y \in {s \in starts : s > t} : x <= y
  <2>. DEFINE D == {s \in starts : s > t}
  <2>1. D # {}
    <3>1. PICK s \in starts : s > t
      OBVIOUS
    <3>2. s \in D
      BY <3>1
    <3>. QED BY <3>2
  <2>2. ASSUME NEW s \in D PROVE s \in Nat
    <3>1. s \in Int /\ s > t
      OBVIOUS
    <3>. QED BY <3>1
  <2>3. PICK m \in D : \A n \in D : m <= n
    <3>. HIDE DEF D
    <3>1. D \in SUBSET Nat
      BY <2>2
    <3>. QED BY <2>1, <3>1, LeastNatural
  <2>. QED BY <2>3
<1>3. /\ PeriodStart(starts, t) \in {s \in starts : s <= t}
      /\ \A y \in {s \in starts : s <= t} : PeriodStart(starts, t) >= y
  BY <1>1 DEF PeriodStart, Max
<1>4. PeriodEnd(starts, t) \in {s \in starts : s > t}
  BY <1>2 DEF PeriodEnd, Min
<1>. QED BY <1>3, <1>4

LEMMA WindowOfCalendar ==
  ASSUME NEW limit, limit.starts # {}, NEW t \in Nat, PeriodStart(limit.starts, t) \in Int
  PROVE  LET s == PeriodStart(limit.starts, t)
         IN  WindowAt(limit, t) = IF t - s >= 1 THEN t - s ELSE 1
<1>. DEFINE d == t - PeriodStart(limit.starts, t)
<1>1. Max({1, d}) = IF d >= 1 THEN d ELSE 1
  <2>1. d \in Int
    OBVIOUS
  <2>. HIDE DEF d
  <2>. QED BY <2>1 DEF Max
<1>. QED BY <1>1 DEF WindowAt

\* A later check counts nothing that an earlier one did not.
LEMMA EdgeAdvances ==
  ASSUME NEW e \in AllChecks, NEW t \in 0..MaxTime, NEW u \in t..MaxTime
  PROVE  /\ Edge(e.limit, t) \in Int /\ Edge(e.limit, u) \in Int
         /\ Edge(e.limit, t) <= Edge(e.limit, u)
<1>1. t \in Nat /\ u \in Nat /\ t <= u /\ t \in 0..MaxTime /\ u \in 0..MaxTime
  BY Bounds
<1>2. CASE e.limit.starts = {}
  BY <1>1, <1>2, EntriesAssumption DEF Edge, WindowAt
<1>3. CASE e.limit.starts # {}
  <2>. DEFINE s == PeriodStart(e.limit.starts, t)
              v == PeriodStart(e.limit.starts, u)
  <2>1. /\ e.limit.starts \in SUBSET Int
        /\ \A x \in 0..MaxTime :
             (\E y \in e.limit.starts : y <= x) /\ (\E y \in e.limit.starts : y > x)
    BY <1>3, EntriesAssumption
  <2>2. /\ s \in e.limit.starts /\ s <= t
        /\ v \in e.limit.starts /\ v <= u
        /\ \A y \in e.limit.starts : y <= u => y <= v
    BY <1>1, <2>1, PeriodAround
  <2>3. s \in Int /\ v \in Int /\ s <= v
    BY <1>1, <2>1, <2>2
  <2>4. /\ WindowAt(e.limit, t) = IF t - s >= 1 THEN t - s ELSE 1
        /\ WindowAt(e.limit, u) = IF u - v >= 1 THEN u - v ELSE 1
    BY <1>1, <1>3, <2>3, WindowOfCalendar
  <2>. HIDE DEF s, v
  <2>. QED BY <1>1, <2>2, <2>3, <2>4 DEF Edge
<1>. QED BY <1>2, <1>3

\* A key that a script of the present period has written lives until nothing it
\* holds by now is counted any more.
LEMMA TTLCovers ==
  ASSUME NEW e \in AllChecks, NEW n \in 0..MaxTime, NEW t \in 0..n, NEW u \in n..MaxTime,
         e.limit.starts # {} => PeriodStart(e.limit.starts, t) = PeriodStart(e.limit.starts, n)
  PROVE  /\ TTL(e.limit, t) \in Int
         /\ n + TTL(e.limit, t) <= u => n <= Edge(e.limit, u)
<1>1. /\ n \in Nat /\ t \in Nat /\ u \in Nat /\ t <= n /\ n <= u
      /\ t \in 0..MaxTime /\ u \in 0..MaxTime
  BY Bounds
<1>2. CASE e.limit.starts = {}
  BY <1>1, <1>2, EntriesAssumption DEF Edge, WindowAt, TTL
<1>3. CASE e.limit.starts # {}
  <2>. DEFINE s == PeriodStart(e.limit.starts, n)
              f == PeriodEnd(e.limit.starts, t)
              v == PeriodStart(e.limit.starts, u)
  <2>1. /\ e.limit.starts \in SUBSET Int
        /\ \A x \in 0..MaxTime :
             (\E y \in e.limit.starts : y <= x) /\ (\E y \in e.limit.starts : y > x)
    BY <1>3, EntriesAssumption
  <2>2. /\ s \in e.limit.starts /\ s = PeriodStart(e.limit.starts, t)
        /\ \A y \in e.limit.starts : y <= n => y <= s
        /\ s <= t
        /\ f \in e.limit.starts /\ f > t
        /\ v \in e.limit.starts /\ v <= u
        /\ \A y \in e.limit.starts : y <= u => y <= v
    BY <1>1, <1>3, <2>1, PeriodAround
  <2>3. s \in Int /\ f \in Int /\ v \in Int /\ f > n /\ (f <= u => f <= v)
    BY <1>1, <2>1, <2>2
  <2>4. WindowAt(e.limit, u) = IF u - v >= 1 THEN u - v ELSE 1
    BY <1>1, <1>3, <2>3, WindowOfCalendar
  <2>5. TTL(e.limit, t) = f - t + Grace
    BY <1>3 DEF TTL
  <2>. HIDE DEF s, f, v
  <2>. QED BY <1>1, <2>2, <2>3, <2>4, <2>5, Bounds DEF Edge
<1>. QED BY <1>2, <1>3
-----------------------------------------------------------------------------
Stamped ==
  /\ now \in 0..MaxTime
  /\ caller \in Arrivals
  /\ start \in [Req -> 0..now] /\ doneAt \in [Req -> 0..now]
  /\ tokens \in [Req -> Nat]
  /\ \A r \in Req : add[r] = "sent" => tokens[r] > 0

Records ==
  \A e \in AllChecks :
    /\ IsFiniteSet(charged[e.key]) /\ zset[e.key] \subseteq charged[e.key]
    /\ \A c \in charged[e.key] :
         c.count \in Nat /\ c.count > 0 /\ c.ran \in 0..now /\ c.score \in 0..c.ran

\* When the key expires, nothing it has ever held is counted any more.
Expiries ==
  \A e \in AllChecks :
    /\ expire[e.key] \in Int
    /\ Punctual(e) => \A u \in now..MaxTime : expire[e.key] <= u =>
         \A c \in charged[e.key] : c.score <= Edge(e.limit, u)

\* WindowKept for the windows to come as well: the clock turns these into those.
OnTimeKept ==
  \A e \in AllChecks : e.mode = "check_and_add" =>
    \A t \in Nat : Cardinality(OnTime(e, t)) <= e.quota

WInv == Domains /\ Stamped /\ Records /\ Expiries /\ CountsKept /\ OnTimeKept

LEMMA InitWInv == Init => WInv
<1>. SUFFICES ASSUME Init PROVE WInv
  OBVIOUS
<1>1. Domains
  BY DEF Init, Domains
<1>2. Stamped
  BY Bounds DEF Init, Stamped
<1>3. \A e \in AllChecks : charged[e.key] = {} /\ zset[e.key] = {} /\ expire[e.key] = 0
  BY KeyOfEntry DEF Init
<1>4. Records
  BY <1>3, FS_EmptySet DEF Records
<1>5. Expiries /\ CountsKept
  BY <1>3 DEF Expiries, CountsKept
<1>6. OnTimeKept
  <2>1. ASSUME NEW e \in AllChecks, NEW t \in Nat PROVE OnTime(e, t) = {}
    BY <1>3 DEF OnTime, InWindow
  <2>2. ASSUME NEW e \in AllChecks, NEW t \in Nat PROVE Cardinality(OnTime(e, t)) <= e.quota
    BY <2>1, FS_EmptySet, EntryTypes
  <2>. QED BY <2>2 DEF OnTimeKept
<1>. QED BY <1>1, <1>2, <1>4, <1>5, <1>6 DEF WInv

\* What each action does to the clocks.
LEMMA StepStamped ==
  ASSUME Domains, Stamped, [Next]_vars
  PROVE  /\ Stamped'
         /\ \/ UNCHANGED <<now, redis>>
            \/ \E r \in Req : RunCheck(r) \/ RunAdd(r)
            \/ Tick
<1>. USE DEF Stamped, Domains
<1>1. ASSUME NEW r \in Req, Arrive(r) PROVE Stamped' /\ UNCHANGED <<now, redis>>
  <2>1. /\ start' = [start EXCEPT ![r] = now]
        /\ UNCHANGED <<now, redis, caller, add, doneAt, tokens>>
    BY <1>1 DEF Arrive
  <2>. QED BY <2>1
<1>2. ASSUME NEW r \in Req, DispatchFails(r) PROVE Stamped' /\ UNCHANGED <<now, redis>>
  BY <1>2 DEF DispatchFails
<1>3. ASSUME NEW r \in Req, RunCheck(r) PROVE Stamped'
  <2>1. UNCHANGED <<now, caller, start, add, doneAt, tokens>>
    BY <1>3 DEF RunCheck
  <2>. QED BY <2>1
<1>4. ASSUME NEW r \in Req, CheckLost(r) PROVE Stamped' /\ UNCHANGED <<now, redis>>
  BY <1>4 DEF CheckLost
<1>5. ASSUME NEW r \in Req, Reply(r) PROVE Stamped' /\ UNCHANGED <<now, redis>>
  BY <1>5 DEF Reply
<1>6. ASSUME NEW r \in Req, ReplyFails(r) PROVE Stamped' /\ UNCHANGED <<now, redis>>
  BY <1>6 DEF ReplyFails
<1>7. ASSUME NEW r \in Req, Disconnect(r) PROVE Stamped' /\ UNCHANGED <<now, redis>>
  BY <1>7 DEF Disconnect
<1>8. ASSUME NEW r \in Req, StreamDone(r) PROVE Stamped' /\ UNCHANGED <<now, redis>>
  <2>1. /\ doneAt' = [doneAt EXCEPT ![r] = now]
        /\ UNCHANGED <<now, redis, caller, start>>
        /\ \/ UNCHANGED <<add, tokens>>
           \/ \E n \in 0..MaxTokens : n # 0 /\ tokens' = [tokens EXCEPT ![r] = n]
                /\ (add' = [add EXCEPT ![r] = "sent"] \/ add' = [add EXCEPT ![r] = "over"])
    BY <1>8 DEF StreamDone
  <2>2. CASE UNCHANGED <<add, tokens>>
    BY <2>1, <2>2
  <2>3. CASE ~ UNCHANGED <<add, tokens>>
    <3>1. PICK n \in 0..MaxTokens :
            /\ n # 0 /\ tokens' = [tokens EXCEPT ![r] = n]
            /\ (add' = [add EXCEPT ![r] = "sent"] \/ add' = [add EXCEPT ![r] = "over"])
      BY <2>1, <2>3
    <3>2. n \in Nat /\ n > 0
      BY <3>1, Bounds
    <3>. QED BY <2>1, <3>1, <3>2
  <2>. QED BY <2>2, <2>3
<1>9. ASSUME NEW r \in Req, RunAdd(r) PROVE Stamped'
  <2>1. add' = [add EXCEPT ![r] = "over"] /\ UNCHANGED <<now, caller, start, doneAt, tokens>>
    BY <1>9 DEF RunAdd
  <2>. QED BY <2>1
<1>10. ASSUME NEW r \in Req, AddLost(r) PROVE Stamped' /\ UNCHANGED <<now, redis>>
  BY <1>10 DEF AddLost
<1>11. ASSUME Tick PROVE Stamped'
  BY <1>11, Bounds DEF Tick, request
<1>12. ASSUME UNCHANGED vars PROVE Stamped' /\ UNCHANGED <<now, redis>>
  BY <1>12 DEF vars, request, redis
<1>. QED
  BY <1>1, <1>2, <1>3, <1>4, <1>5, <1>6, <1>7, <1>8, <1>9, <1>10, <1>11, <1>12 DEF Next, Stopped
-----------------------------------------------------------------------------
\* The entries of a script are those of one caller.
EntriesOf(es, who) ==
  \A i \in DOMAIN es : \E f \in Range(ChecksOf[who]) :
    /\ f.key = es[i].key /\ f.limit = es[i].limit
    /\ es[i].mode \in {f.mode, "add"} /\ (es[i].mode = "add" => f.mode = "check")

LEMMA ScriptEntries ==
  ASSUME NEW who \in Caller
  PROVE  /\ EntriesOf(ChecksOf[who], who) /\ EntriesOf(PendingOf[who], who)
         /\ \A i \in DOMAIN PendingOf[who] : PendingOf[who][i].mode = "add"
<1>. DEFINE es == ChecksOf[who]
<1>1. \A i \in DOMAIN es : es[i] \in Range(es) /\ es[i] \in AllChecks
  BY DEF Range, AllChecks
<1>2. EntriesOf(es, who)
  <2>1. \A i \in DOMAIN es : es[i].mode \in {"check", "check_and_add"}
    BY <1>1, EntryTypes
  <2>. QED BY <1>1, <2>1 DEF EntriesOf
<1>3. /\ EntriesOf(PendingOf[who], who)
      /\ \A i \in DOMAIN PendingOf[who] : PendingOf[who][i].mode = "add"
  <2>. DEFINE ps == PendingOf[who]
  <2>1. ps = [i \in {i \in DOMAIN es : es[i].mode = "check"} |-> [es[i] EXCEPT !.mode = "add"]]
    BY DEF PendingOf, Pending, ChecksOf
  <2>2. ASSUME NEW i \in DOMAIN ps
        PROVE  /\ es[i] \in Range(es) /\ es[i].mode = "check"
               /\ ps[i].key = es[i].key /\ ps[i].limit = es[i].limit /\ ps[i].mode = "add"
    <3>1. i \in DOMAIN es /\ es[i].mode = "check" /\ ps[i] = [es[i] EXCEPT !.mode = "add"]
      BY <2>1
    <3>2. es[i] \in AllChecks
      BY <1>1, <3>1
    <3>3. es[i] = [key |-> es[i].key, limit |-> es[i].limit, quota |-> es[i].quota,
                   mode |-> es[i].mode]
      BY <3>2, EntryTypes
    <3>. HIDE DEF es, ps
    <3>. QED BY <1>1, <3>1, <3>3
  <2>. HIDE DEF es, ps
  <2>3. EntriesOf(ps, who)
    BY <2>2 DEF EntriesOf, es
  <2>. QED BY <2>2, <2>3 DEF ps
<1>. QED BY <1>2, <1>3

\* What a script does to one bucket.
LEMMA ScriptEffect ==
  ASSUME BucketsAgree, NEW who \in Caller, NEW es, EntriesOf(es, who),
         NEW t, NEW r, NEW count, Script(es, t, r, count), NEW e \in AllChecks
  PROVE  LET k == e.key
             c == [req |-> r, count |-> count, score |-> t, ran |-> now]
         IN  /\ \/ charged'[k] = charged[k] /\ expire'[k] = expire[k]
                \/ /\ charged'[k] = charged[k] \union {c} /\ c \in zset'[k]
                   /\ expire'[k] = now + TTL(e.limit, t)
                   /\ LimitedAt(es, t) = {}
                   /\ \E i \in DOMAIN es : es[i].key = k /\ es[i].mode # "check"
             /\ \A d \in zset[k] : d.score > Edge(e.limit, t) => d \in zset'[k]
             /\ zset'[k] \subseteq zset[k] \union charged'[k]
<1>. DEFINE k == e.key
            c == [req |-> r, count |-> count, score |-> t, ran |-> now]
            over    == LimitedAt(es, t)
            limits  == [x \in {es[i].key : i \in DOMAIN es} |->
                          es[CHOOSE i \in DOMAIN es : es[i].key = x].limit]
            visited == {es[i].key : i \in {i \in DOMAIN es : \A j \in over : i <= j}}
            added   == {es[i].key : i \in Recorded(es, over)}
            new(x)  == IF x \in added THEN {[req |-> r, count |-> count, score |-> t, ran |-> now]} ELSE {}
<1>1. k \in Key
  BY KeyOfEntry
<1>2. /\ zset' = [x \in Key |->
             (IF x \in visited THEN Prune(zset[x], limits[x], t) ELSE zset[x]) \union new(x)]
      /\ expire' = [x \in Key |-> IF x \in added THEN now + TTL(limits[x], t) ELSE expire[x]]
      /\ charged' = [x \in Key |-> charged[x] \union new(x)]
  BY Zenon DEF Script
<1>3. ASSUME k \in {es[i].key : i \in DOMAIN es}
      PROVE  limits[k] = e.limit
  <2>1. \E i \in DOMAIN es : es[i].key = k
    BY <1>3
  <2>2. PICK i \in DOMAIN es : es[i].key = k /\ limits[k] = es[i].limit
    BY <1>3, <2>1
  <2>3. PICK f \in Range(ChecksOf[who]) : f.key = es[i].key /\ f.limit = es[i].limit
    BY DEF EntriesOf
  <2>. QED BY <2>2, <2>3 DEF BucketsAgree
<1>4. visited \subseteq {es[i].key : i \in DOMAIN es} /\ added \subseteq {es[i].key : i \in DOMAIN es}
  BY DEF Recorded
<1>5. /\ k \in visited => limits[k] = e.limit
      /\ k \in added => /\ limits[k] = e.limit /\ over = {}
                        /\ \E i \in DOMAIN es : es[i].key = k /\ es[i].mode # "check"
  <2>1. k \in added => over = {} /\ \E i \in DOMAIN es : es[i].key = k /\ es[i].mode # "check"
    BY DEF Recorded
  <2>. HIDE DEF limits, visited, added
  <2>. QED BY <1>3, <1>4, <2>1
<1>6. new(k) = IF k \in added THEN {c} ELSE {}
  OBVIOUS
<1>. HIDE DEF k, c, over, limits, visited, added, new
<1>7. \A x : Prune(x, e.limit, t) = {d \in x : d.score > Edge(e.limit, t)}
  BY DEF Prune, Edge
<1>8. CASE k \in added
  BY <1>1, <1>2, <1>5, <1>6, <1>7, <1>8 DEF k, c, over
<1>9. CASE k \notin added
  BY <1>1, <1>2, <1>5, <1>6, <1>7, <1>9 DEF k, c, over
<1>. QED BY <1>8, <1>9

\* Whatever script runs, with whatever clock.
LEMMA ScriptKeeps ==
  ASSUME BucketsAgree, Domains, Stamped, Records, Expiries, CountsKept, now' = now,
         NEW who \in Caller, NEW es, EntriesOf(es, who), NEW t \in 0..now, NEW r,
         NEW count \in Nat, count > 0, Script(es, t, r, count)
  PROVE  Records' /\ Expiries' /\ CountsKept'
<1>. DEFINE c == [req |-> r, count |-> count, score |-> t, ran |-> now]
<1>0. now \in Nat /\ now <= MaxTime /\ now \in 0..MaxTime /\ t \in Nat /\ t <= now
  BY Bounds DEF Stamped
<1>1. c.count = count /\ c.score = t /\ c.ran = now
  OBVIOUS
<1>2. ASSUME NEW e \in AllChecks
      PROVE  /\ \/ charged'[e.key] = charged[e.key] /\ expire'[e.key] = expire[e.key]
                \/ /\ charged'[e.key] = charged[e.key] \union {c} /\ c \in zset'[e.key]
                   /\ expire'[e.key] = now + TTL(e.limit, t)
             /\ \A d \in zset[e.key] : d.score > Edge(e.limit, t) => d \in zset'[e.key]
             /\ zset'[e.key] \subseteq zset[e.key] \union charged'[e.key]
  BY ScriptEffect
<1>. HIDE DEF c
<1>3. ASSUME NEW e \in AllChecks
      PROVE  /\ IsFiniteSet(charged'[e.key]) /\ zset'[e.key] \subseteq charged'[e.key]
             /\ \A d \in charged'[e.key] :
                  d.count \in Nat /\ d.count > 0 /\ d.ran \in 0..now /\ d.score \in 0..d.ran
  <2>1. /\ IsFiniteSet(charged[e.key]) /\ zset[e.key] \subseteq charged[e.key]
        /\ \A d \in charged[e.key] :
             d.count \in Nat /\ d.count > 0 /\ d.ran \in 0..now /\ d.score \in 0..d.ran
    BY DEF Records
  <2>2. c.count \in Nat /\ c.count > 0 /\ c.ran \in 0..now /\ c.score \in 0..c.ran
    BY <1>0, <1>1
  <2>3. IsFiniteSet(charged[e.key] \union {c})
    BY <2>1, FS_AddElement
  <2>4. CASE charged'[e.key] = charged[e.key]
    BY <1>2, <2>1, <2>4
  <2>5. CASE charged'[e.key] = charged[e.key] \union {c}
    BY <1>2, <2>1, <2>2, <2>3, <2>5
  <2>. QED BY <1>2, <2>4, <2>5
<1>4. ASSUME NEW e \in AllChecks, Punctual(e)'
      PROVE  /\ Punctual(e)
             /\ c \in charged'[e.key] /\ e.limit.starts # {} =>
                  PeriodStart(e.limit.starts, t) = PeriodStart(e.limit.starts, now)
  <2>1. charged[e.key] \subseteq charged'[e.key]
    BY <1>2
  <2>. QED BY <1>1, <1>4, <2>1 DEF Punctual
<1>5. ASSUME NEW e \in AllChecks, Punctual(e)', NEW u \in now..MaxTime, expire'[e.key] <= u,
             NEW d \in charged'[e.key]
      PROVE  d.score <= Edge(e.limit, u)
  <2>1. CASE charged'[e.key] = charged[e.key] /\ expire'[e.key] = expire[e.key]
    BY <1>4, <1>5, <2>1 DEF Expiries
  <2>2. CASE ~(charged'[e.key] = charged[e.key] /\ expire'[e.key] = expire[e.key])
    <3>1. c \in charged'[e.key] /\ expire'[e.key] = now + TTL(e.limit, t)
      BY <1>2, <2>2
    <3>2. e.limit.starts # {} => PeriodStart(e.limit.starts, t) = PeriodStart(e.limit.starts, now)
      BY <1>4, <1>5, <3>1
    <3>3. now <= Edge(e.limit, u)
      BY <1>0, <1>5, <3>1, <3>2, TTLCovers
    <3>4. d.ran \in 0..now /\ d.score \in 0..d.ran
      BY <1>3
    <3>5. Edge(e.limit, u) \in Int
      BY <1>0, EdgeAdvances
    <3>. QED BY <1>0, <3>3, <3>4, <3>5
  <2>. QED BY <2>1, <2>2
<1>6. ASSUME NEW e \in AllChecks
      PROVE  expire'[e.key] \in Int
  <2>1. TTL(e.limit, t) \in Int
    <3>1. CASE e.limit.starts = {}
      BY <3>1, EntryTypes DEF TTL
    <3>2. CASE e.limit.starts # {}
      <4>1. /\ e.limit.starts \in SUBSET Int /\ t \in 0..MaxTime
            /\ \A x \in 0..MaxTime :
                 (\E y \in e.limit.starts : y <= x) /\ (\E y \in e.limit.starts : y > x)
        BY <1>0, <3>2, Bounds, EntriesAssumption
      <4>2. PeriodEnd(e.limit.starts, t) \in Int
        BY <1>0, <4>1, PeriodAround
      <4>. QED BY <1>0, <3>2, <4>2, Bounds DEF TTL
    <3>. QED BY <3>1, <3>2
  <2>2. expire[e.key] \in Int
    BY DEF Expiries
  <2>. QED BY <1>0, <1>2, <2>1, <2>2
<1>7. ASSUME NEW e \in AllChecks, Punctual(e)', NEW d \in charged'[e.key],
             d.score > Edge(e.limit, now)
      PROVE  d \in zset'[e.key]
  <2>1. CASE d \in charged[e.key]
    <3>1. d \in zset[e.key]
      BY <1>4, <1>7, <2>1 DEF CountsKept, Edge
    <3>2. /\ Edge(e.limit, t) \in Int /\ Edge(e.limit, now) \in Int
          /\ Edge(e.limit, t) <= Edge(e.limit, now)
      <4>1. t \in 0..MaxTime /\ now \in t..MaxTime
        BY <1>0, Bounds
      <4>. QED BY <4>1, EdgeAdvances
    <3>3. d.ran \in 0..now /\ d.score \in 0..d.ran
      BY <1>3
    <3>4. d.score > Edge(e.limit, t)
      BY <1>0, <1>7, <3>2, <3>3
    <3>. QED BY <1>2, <3>1, <3>4
  <2>2. CASE d \notin charged[e.key]
    BY <1>2, <1>7, <2>2
  <2>. QED BY <2>1, <2>2
<1>8. Records'
  BY <1>0, <1>3 DEF Records
<1>9. Expiries'
  BY <1>5, <1>6 DEF Expiries
<1>10. CountsKept'
  BY <1>7 DEF CountsKept, Edge
<1>. QED BY <1>8, <1>9, <1>10

LEMMA TickKeeps ==
  ASSUME Domains, Stamped, Records, Expiries, CountsKept, Tick
  PROVE  Records' /\ Expiries' /\ CountsKept'
<1>0. /\ now \in Nat /\ now < MaxTime /\ now' = now + 1 /\ charged' = charged /\ expire' = expire
      /\ \A e \in AllChecks : zset'[e.key] = IF expire[e.key] <= now' THEN {} ELSE zset[e.key]
  BY Bounds, KeyOfEntry DEF Tick, Stamped
<1>1. \A e \in AllChecks : Punctual(e)' => Punctual(e)
  BY <1>0 DEF Punctual
<1>2. Records'
  <2>1. \A e \in AllChecks : \A d \in charged[e.key] : d.ran \in 0..now => d.ran \in 0..now'
    BY <1>0
  <2>. QED BY <1>0, <2>1 DEF Records
<1>3. Expiries'
  <2>1. \A u \in now'..MaxTime : u \in now..MaxTime
    BY <1>0, Bounds
  <2>. QED BY <1>0, <1>1, <2>1 DEF Expiries
<1>4. CountsKept'
  <2>1. ASSUME NEW e \in AllChecks, Punctual(e), NEW d \in charged[e.key],
               d.score > Edge(e.limit, now + 1)
        PROVE  d \in zset'[e.key]
    <3>1. now \in 0..MaxTime /\ now + 1 \in now..MaxTime
      BY <1>0, Bounds
    <3>2. /\ Edge(e.limit, now) \in Int /\ Edge(e.limit, now + 1) \in Int
          /\ Edge(e.limit, now) <= Edge(e.limit, now + 1)
      BY <3>1, EdgeAdvances
    <3>3. d.ran \in 0..now /\ d.score \in 0..d.ran
      BY DEF Records
    <3>4. d.score > Edge(e.limit, now) /\ ~(d.score <= Edge(e.limit, now + 1))
      BY <1>0, <2>1, <3>2, <3>3
    <3>5. d \in zset[e.key]
      BY <2>1, <3>4 DEF CountsKept, Edge
    <3>6. ~(expire[e.key] <= now + 1)
      BY <2>1, <3>1, <3>4 DEF Expiries
    <3>. QED BY <1>0, <3>5, <3>6
  <2>. QED BY <1>0, <1>1, <2>1 DEF CountsKept, Edge
<1>. QED BY <1>2, <1>3, <1>4

LEMMA OneMore ==
  ASSUME NEW S, IsFiniteSet(S), NEW x, NEW T \in SUBSET (S \union {x})
  PROVE  Cardinality(T) \in Nat /\ Cardinality(T) <= Cardinality(S) + 1
<1>1. /\ IsFiniteSet(S \union {x}) /\ Cardinality(S) \in Nat
      /\ Cardinality(S \union {x}) <= Cardinality(S) + 1
  <2>1. IsFiniteSet(S \union {x}) /\ Cardinality(S) \in Nat
    BY FS_AddElement, FS_CardinalityType
  <2>2. Cardinality(S \union {x}) = IF x \in S THEN Cardinality(S) ELSE Cardinality(S) + 1
    BY FS_AddElement
  <2>. DEFINE n == Cardinality(S \union {x})
  <2>3. n <= Cardinality(S) + 1
    <3>1. n = IF x \in S THEN Cardinality(S) ELSE Cardinality(S) + 1
      BY <2>2
    <3>. HIDE DEF n
    <3>. QED BY <2>1, <3>1
  <2>. QED BY <2>1, <2>3
<1>2. /\ Cardinality(T) \in Nat /\ Cardinality(S \union {x}) \in Nat
      /\ Cardinality(T) <= Cardinality(S \union {x})
  BY <1>1, FS_Subset, FS_CardinalityType
<1>. QED BY <1>1, <1>2

\* A request that redis counts in its own second finds room in every window that
\* ends there or later; tokens go to calendars only.
LEMMA ScriptKeepsOnTime ==
  ASSUME BucketsAgree, Domains, Stamped, Records, CountsKept, OnTimeKept, now' = now,
         NEW who \in Caller, NEW es, EntriesOf(es, who),
         es = ChecksOf[who] \/ \A i \in DOMAIN es : es[i].mode = "add",
         NEW t \in 0..now, NEW r, NEW count, Script(es, t, r, count)
  PROVE  OnTimeKept'
<1>. SUFFICES ASSUME NEW e \in AllChecks, e.mode = "check_and_add", NEW u \in Nat
              PROVE  Cardinality(OnTime(e, u)') <= e.quota
  BY DEF OnTimeKept
<1>. DEFINE k  == e.key
            c  == [req |-> r, count |-> count, score |-> t, ran |-> now]
            W  == e.limit.window
            Z  == {d \in Prune(zset[k], e.limit, now) : d.score <= now}
<1>1. now \in Nat /\ now \in 0..MaxTime
  BY Bounds DEF Stamped
<1>2. e.quota \in Nat /\ e.limit.starts = {} /\ W \in Nat /\ W > 0
  BY EntryTypes
<1>3. Cardinality(OnTime(e, u)) <= e.quota
  BY DEF OnTimeKept
<1>4. OnTime(e, u)' = {d \in charged'[k] : u - W < d.score /\ d.score <= u /\ d.ran = d.score}
  BY DEF OnTime, InWindow
<1>5. OnTime(e, u) = {d \in charged[k] : u - W < d.score /\ d.score <= u /\ d.ran = d.score}
  BY DEF OnTime, InWindow
<1>6. CASE charged'[k] = charged[k]
  BY <1>3, <1>4, <1>5, <1>6
<1>7. CASE charged'[k] # charged[k]
  <2>1. \/ charged'[k] = charged[k] /\ expire'[k] = expire[k]
        \/ /\ charged'[k] = charged[k] \union {c} /\ c \in zset'[k]
           /\ expire'[k] = now + TTL(e.limit, t)
           /\ LimitedAt(es, t) = {}
           /\ \E i \in DOMAIN es : es[i].key = k /\ es[i].mode # "check"
    BY ScriptEffect
  <2>2. /\ charged'[k] = charged[k] \union {c} /\ LimitedAt(es, t) = {}
        /\ \E i \in DOMAIN es : es[i].key = k
    <3>. HIDE DEF k, c
    <3>. QED BY <1>7, <2>1, Zenon
  <2>3. es = ChecksOf[who]
    <3>1. PICK i \in DOMAIN es : es[i].key = k
      BY <2>2
    <3>2. PICK f \in Range(ChecksOf[who]) :
            f.key = k /\ (es[i].mode = "add" => f.mode = "check")
      BY <3>1 DEF EntriesOf
    <3>3. f.mode = e.mode
      BY <3>2 DEF BucketsAgree
    <3>. QED BY <3>1, <3>2, <3>3
  <2>4. PICK j \in DOMAIN es : es[j] = e
    <3>1. PICK i \in DOMAIN es : es[i].key = k
      BY <2>2
    <3>2. es[i] \in Range(ChecksOf[who])
      BY <2>3, <3>1 DEF Range
    <3>3. e \in Range(ChecksOf[who])
      BY <3>1, <3>2 DEF BucketsAgree
    <3>. QED BY <2>3, <3>3 DEF Range
  <2>5. ~ Over(Total(Prune(zset[k], e.limit, t), t), e.quota)
    BY <2>2, <2>4 DEF LimitedAt
  <2>6. CASE ~(c.ran = c.score /\ u - W < c.score /\ c.score <= u)
    <3>1. OnTime(e, u)' = OnTime(e, u)
      <4>. HIDE DEF c
      <4>. QED BY <1>4, <1>5, <2>2, <2>6
    <3>. QED BY <1>3, <3>1
  <2>7. CASE c.ran = c.score /\ u - W < c.score /\ c.score <= u
    <3>1. t = now /\ u - W < now /\ now <= u
      BY <2>7
    <3>2. \A d \in charged[k] : /\ d.ran \in 0..now /\ d.score \in 0..d.ran
                               /\ d.count \in Nat /\ d.count > 0
      BY DEF Records
    <3>3. OnTime(e, u) \subseteq Z
      <4>. SUFFICES ASSUME NEW d \in charged[k], u - W < d.score, d.score <= u PROVE d \in Z
        BY <1>5
      <4>1. WindowAt(e.limit, now) = W
        BY <1>2 DEF WindowAt
      <4>2. d.score \in Nat /\ d.score <= now
        BY <1>1, <3>2
      <4>3. d.score > now - W
        BY <1>1, <1>2, <3>1, <4>2
      <4>4. d \in zset[k]
        BY <1>2, <4>1, <4>3 DEF CountsKept, Punctual
      <4>. QED BY <4>1, <4>2, <4>3, <4>4 DEF Prune
    <3>4. IsFiniteSet(Z) /\ \A d \in Z : d.count \in Nat /\ d.count > 0
      <4>1. Z \subseteq charged[k] /\ IsFiniteSet(charged[k])
        BY DEF Records, Prune
      <4>. QED BY <3>2, <4>1, FS_Subset
    <3>. DEFINE sum == Total(Prune(zset[k], e.limit, now), now)
    <3>5. sum = MapThenSumSet(LAMBDA x : x.count, Z)
      BY DEF Total
    <3>. HIDE DEF Z
    <3>6. sum \in Nat /\ Cardinality(Z) <= sum
      <4>. HIDE DEF sum
      <4>1. /\ MapThenSumSet(LAMBDA x : x.count, Z) \in Nat
            /\ Cardinality(Z) <= MapThenSumSet(LAMBDA x : x.count, Z)
        BY <3>4, SumCounts
      <4>. QED BY <3>5, <4>1
    <3>7. sum < e.quota
      <4>1. ~(sum >= e.quota)
        BY <2>5, <3>1 DEF Over
      <4>. HIDE DEF sum
      <4>. QED BY <1>2, <3>6, <4>1
    <3>8. /\ IsFiniteSet(OnTime(e, u)) /\ Cardinality(OnTime(e, u)) \in Nat
          /\ Cardinality(Z) \in Nat /\ Cardinality(OnTime(e, u)) <= Cardinality(Z)
      BY <3>3, <3>4, FS_Subset, FS_CardinalityType
    <3>9. OnTime(e, u)' \subseteq OnTime(e, u) \union {c}
      <4>. HIDE DEF c
      <4>. QED BY <1>4, <1>5, <2>2
    <3>10. /\ Cardinality(OnTime(e, u)') \in Nat
           /\ Cardinality(OnTime(e, u)') <= Cardinality(OnTime(e, u)) + 1
      <4>. HIDE DEF c
      <4>. QED BY <3>8, <3>9, OneMore
    <3>. HIDE DEF sum
    <3>. QED BY <1>2, <3>6, <3>7, <3>8, <3>10
  <2>. QED BY <2>6, <2>7
<1>. QED BY <1>6, <1>7
-----------------------------------------------------------------------------
LEMMA RunKeeps ==
  ASSUME BucketsAgree, WInv, NEW r \in Req, RunCheck(r) \/ RunAdd(r)
  PROVE  Records' /\ Expiries' /\ CountsKept' /\ OnTimeKept'
<1>. USE DEF WInv
<1>1. /\ now' = now /\ caller[r] \in Caller /\ start[r] \in 0..now /\ doneAt[r] \in 0..now
  BY Bounds DEF Stamped, RunCheck, RunAdd
<1>2. CASE RunCheck(r)
  <2>1. Script(ChecksOf[caller[r]], start[r], r, 1)
    BY <1>2 DEF RunCheck
  <2>2. EntriesOf(ChecksOf[caller[r]], caller[r])
    BY <1>1, ScriptEntries
  <2>3. Records' /\ Expiries' /\ CountsKept'
    BY <1>1, <2>1, <2>2, ScriptKeeps
  <2>. QED BY <1>1, <2>1, <2>2, <2>3, ScriptKeepsOnTime
<1>3. CASE RunAdd(r)
  <2>1. /\ Script(PendingOf[caller[r]], doneAt[r], r, tokens[r])
        /\ tokens[r] \in Nat /\ tokens[r] > 0
    BY <1>3 DEF RunAdd, Stamped
  <2>2. /\ EntriesOf(PendingOf[caller[r]], caller[r])
        /\ \A i \in DOMAIN PendingOf[caller[r]] : PendingOf[caller[r]][i].mode = "add"
    BY <1>1, ScriptEntries
  <2>3. Records' /\ Expiries' /\ CountsKept'
    BY <1>1, <2>1, <2>2, ScriptKeeps
  <2>. QED BY <1>1, <2>1, <2>2, <2>3, ScriptKeepsOnTime
<1>. QED BY <1>2, <1>3

LEMMA StepWInv == BucketsAgree /\ WInv /\ Domains' /\ [Next]_vars => WInv'
<1>. SUFFICES ASSUME BucketsAgree, WInv, Domains', [Next]_vars PROVE WInv'
  OBVIOUS
<1>1. /\ Stamped'
      /\ \/ UNCHANGED <<now, redis>>
         \/ \E r \in Req : RunCheck(r) \/ RunAdd(r)
         \/ Tick
  BY StepStamped DEF WInv
<1>2. CASE UNCHANGED <<now, redis>>
  BY <1>1, <1>2 DEF WInv, redis, Records, Expiries, CountsKept, Punctual, OnTimeKept, OnTime, InWindow
<1>3. CASE \E r \in Req : RunCheck(r) \/ RunAdd(r)
  BY <1>1, <1>3, RunKeeps DEF WInv
<1>4. CASE Tick
  <2>1. Records' /\ Expiries' /\ CountsKept'
    BY <1>4, TickKeeps DEF WInv
  <2>2. OnTimeKept'
    BY <1>4 DEF WInv, Tick, OnTimeKept, OnTime, InWindow
  <2>. QED BY <1>1, <2>1, <2>2 DEF WInv
<1>. QED BY <1>1, <1>2, <1>3, <1>4

LEMMA AlwaysWInv == Spec => [](BucketsAgree => WInv)
<1>. DEFINE Held == BucketsAgree => WInv
<1>1. Init => Held
  BY InitWInv
<1>2. IInv' /\ Held /\ [Next]_vars => Held'
  BY StepWInv DEF IInv
<1>. QED BY <1>1, <1>2, AlwaysIInv, PTL DEF Spec

\* Whatever gateways share the buckets and however late or never their scripts
\* run, no span of a rolling window holds more requests than its quota, of those
\* counted in the second their gateway read the clock; and no record that a later
\* check must count is pruned or expires.
THEOREM WindowsHold == Spec => []WindowExact
<1>1. (BucketsAgree => WInv) => WindowExact
  <2>. SUFFICES ASSUME BucketsAgree, WInv PROVE WindowKept /\ CountsKept
    BY DEF WindowExact
  <2>1. \A t \in 0..now : t \in Nat
    BY Bounds DEF WInv, Stamped
  <2>. QED BY <2>1 DEF WInv, OnTimeKept, WindowKept
<1>. QED BY <1>1, AlwaysWInv, PTL
=============================================================================
