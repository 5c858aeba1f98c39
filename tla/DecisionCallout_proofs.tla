------------------------ MODULE DecisionCallout_proofs ------------------------
(***************************************************************************)
(* Theorems about DecisionCallout, for any number of requests, workers,    *)
(* credentials and retries: of each request, that it has one way on, for   *)
(* any configurations (IInv); of the shared map, that no record is lost    *)
(* (Marks), where the routes share a list of credentials and the map       *)
(* exists.  That callbacks of other routes prune what they do not know,    *)
(* and that version 0 writes blindly, are the reasons for both conditions. *)
(***************************************************************************)
EXTENDS DecisionCallout, WellFoundedInduction, TLAPS

Fields == {"pc", "on", "conf", "left", "calls", "paused", "resumes", "ranks",
           "seen", "attempt"}

(***************************************************************************)
(* Where a request stands says how often it was sent to the service, let   *)
(* on and ranked: the count of OneWayOn alone would not tell a callback at *)
(* work from a request that nobody answers for.                            *)
(***************************************************************************)
Untouched(q) == ~q.paused /\ q.calls = 0 /\ q.resumes = 0 /\ q.ranks = 0
Asking(q)    == q.paused /\ q.calls = 1 /\ q.resumes = 0 /\ q.ranks = 0
AtWork(q)    == q.paused /\ q.calls = 0 /\ q.resumes = 0 /\ q.ranks = 0
LetOn(q)     == q.paused /\ q.calls = 0 /\ q.resumes = 1 /\ q.ranks \in {0, 1}

Stands(q) ==
  \/ q.pc \in {"new", "body"} /\ Untouched(q)
  \/ q.pc = "paused" /\ Asking(q)
  \/ q.pc \in {"load", "store"} /\ AtWork(q)
  \/ q.pc = "gone" /\ (Untouched(q) \/ LetOn(q))

IInv ==
  /\ DOMAIN req = Req
  /\ \A r \in Req : DOMAIN req[r] = Fields /\ Stands(req[r])

LEMMA InitIInv == Init => IInv
BY DEF Init, IInv, NewReq, Fields, Stands, Untouched

\* One request changes, and stands well afterwards.
LEMMA OneChanges ==
  ASSUME IInv, NEW r \in Req, NEW n, req' = [req EXCEPT ![r] = n],
         DOMAIN n = Fields, Stands(n)
  PROVE  IInv'
BY DEF IInv

LEMMA AppliedStands ==
  ASSUME NEW q, DOMAIN q = Fields, AtWork(q), NEW a
  PROVE  DOMAIN Applied(q, a) = Fields /\ Stands(Applied(q, a)) /\ Applied(q, a).pc = "gone"
<1>. DEFINE m == [q EXCEPT !.ranks = IF a = "verdict" THEN @ + 1 ELSE @]
            n == Resumed(m)
<1>1. m.calls = 0 /\ m.resumes = 0 /\ m.ranks \in {0, 1}
  BY DEF Fields, AtWork
<1>2. m.paused
  BY DEF Fields, AtWork
<1>. HIDE DEF m
<1>3. DOMAIN n = Fields
  BY DEF Resumed, NewReq, Fields
<1>4. n.pc = "gone" /\ n.calls = 0 /\ n.resumes = 1 /\ n.ranks \in {0, 1}
  BY <1>1 DEF Resumed, NewReq
<1>5. n.paused
  BY <1>2 DEF Resumed, NewReq
<1>6. Applied(q, a) = n
  BY DEF Applied, m
<1>. HIDE DEF n
<1>. QED BY <1>3, <1>4, <1>5, <1>6 DEF Stands, LetOn

\* The callback ends, from an answer or after it has marked the token.
LEMMA NextTokenStands ==
  ASSUME NEW q, DOMAIN q = Fields, AtWork(q), NEW a, NEW n \in NextToken(q, a)
  PROVE  /\ DOMAIN n = Fields /\ Stands(n)
         /\ DOMAIN [n EXCEPT !.seen = None] = Fields /\ Stands([n EXCEPT !.seen = None])
<1>. SUFFICES DOMAIN n = Fields /\ Stands(n)
  <2>. DEFINE m == [n EXCEPT !.seen = None]
  <2>1. ASSUME DOMAIN n = Fields, Stands(n)
        PROVE  DOMAIN m = Fields /\ Stands(m)
    <3>1. /\ DOMAIN m = Fields
          /\ m.pc = n.pc /\ m.calls = n.calls /\ m.resumes = n.resumes /\ m.ranks = n.ranks
          /\ m.paused = n.paused
      BY <2>1 DEF Fields
    <3>. HIDE DEF m
    <3>. QED BY <2>1, <3>1 DEF Stands, Untouched, Asking, AtWork, LetOn
  <2>. QED BY <2>1
<1>1. n \in {Sent(q), Resumed(q), Applied(q, a)}
  BY DEF NextToken
<1>2. CASE n = Sent(q)
  <2>1. DOMAIN n = Fields
    BY <1>2 DEF Sent
  <2>2. n.pc = "paused" /\ n.calls = 1 /\ n.resumes = 0 /\ n.ranks = 0
    BY <1>2 DEF Sent, Fields, AtWork
  <2>3. n.paused
    BY <1>2 DEF Sent, Fields, AtWork
  <2>. QED BY <2>1, <2>2, <2>3 DEF Fields, Stands, Asking
<1>3. CASE n = Resumed(q)
  <2>1. DOMAIN n = Fields
    BY <1>3 DEF Resumed, NewReq, Fields
  <2>2. n.pc = "gone" /\ n.calls = 0 /\ n.paused = q.paused /\ n.resumes = 1 /\ n.ranks = 0
    BY <1>3 DEF Resumed, NewReq, Fields, AtWork
  <2>. QED BY <2>1, <2>2 DEF Fields, Stands, AtWork, LetOn
<1>4. CASE n = Applied(q, a)
  <2>1. DOMAIN n = Fields
    BY <1>4 DEF Applied, Resumed, NewReq, Fields
  <2>. QED BY <1>4, <2>1, AppliedStands
<1>. QED BY <1>1, <1>2, <1>3, <1>4

LEMMA HeadersStep ==
  ASSUME IInv, NEW r \in Req, NEW w \in Worker, NEW q \in Query, Headers(r, w, q)
  PROVE  IInv'
<1>. DEFINE n == [req[r] EXCEPT !.on = w, !.conf = conf[w],
                                !.pc = IF Arms(conf[w], q) THEN "body" ELSE "gone"]
<1>1. req' = [req EXCEPT ![r] = n]
  BY DEF Headers
<1>2. DOMAIN req[r] = Fields /\ Untouched(req[r])
  BY DEF Headers, IInv, Stands
<1>3. DOMAIN n = Fields
  BY <1>2
<1>4. n.pc \in {"body", "gone"} /\ Untouched(n)
  BY <1>2 DEF Fields, Untouched
<1>. HIDE DEF n
<1>. QED BY <1>1, <1>3, <1>4, OneChanges DEF Stands

LEMMA BodyStep ==
  ASSUME IInv, NEW r \in Req, Body(r)
  PROVE  IInv'
<1>1. DOMAIN req[r] = Fields /\ Untouched(req[r])
  BY DEF Body, IInv, Stands
<1>. DEFINE asked == [req[r] EXCEPT !.pc = "paused", !.paused = TRUE, !.calls = 1,
                                    !.left = ActiveTokens(req[r].conf)]
            passed == [req[r] EXCEPT !.pc = "gone"]
<1>2. DOMAIN asked = Fields /\ DOMAIN passed = Fields
  BY <1>1
<1>3. asked.pc = "paused" /\ Asking(asked)
  BY <1>1 DEF Fields, Untouched, Asking
<1>4. passed.pc = "gone" /\ Untouched(passed)
  BY <1>1 DEF Fields, Untouched
<1>5. req' = [req EXCEPT ![r] = asked] \/ req' = [req EXCEPT ![r] = passed]
  BY DEF Body
<1>. HIDE DEF asked, passed
<1>. QED BY <1>2, <1>3, <1>4, <1>5, OneChanges DEF Stands

LEMMA AnswerStep ==
  ASSUME IInv, NEW r \in Req, NEW a \in Answers, Answer(r, a)
  PROVE  IInv'
<1>. DEFINE q == [req[r] EXCEPT !.calls = @ - 1]
            marking == [q EXCEPT !.pc = "load", !.attempt = 1]
<1>1. DOMAIN req[r] = Fields /\ Asking(req[r])
  <2>1. req[r].pc = "paused"
    BY DEF Answer, IInv, Fields
  <2>. QED BY <2>1 DEF IInv, Stands
<1>2. DOMAIN q = Fields /\ AtWork(q)
  BY <1>1 DEF Fields, Asking, AtWork
<1>3. \/ req' = [req EXCEPT ![r] = Applied(q, a)]
      \/ req' = [req EXCEPT ![r] = marking]
      \/ \E n \in NextToken(q, a) : req' = [req EXCEPT ![r] = n]
  BY DEF Answer
<1>. HIDE DEF q
<1>4. DOMAIN marking = Fields /\ Stands(marking)
  BY <1>2 DEF Fields, AtWork, Stands
<1>5. DOMAIN Applied(q, a) = Fields /\ Stands(Applied(q, a))
  BY <1>2, AppliedStands
<1>. HIDE DEF marking
<1>. QED BY <1>2, <1>3, <1>4, <1>5, OneChanges, NextTokenStands

LEMMA MarkStep ==
  ASSUME IInv, NEW r \in Req, MarkLoad(r) \/ MarkStore(r)
  PROVE  IInv'
<1>. DEFINE read == [req[r] EXCEPT !.pc = "store",
                     !.seen = [cas |-> kv.cas, since |-> Merged(req[r].conf, TokenOf(req[r])), at |-> now]]
            again == [req[r] EXCEPT !.pc = "load", !.attempt = @ + 1, !.seen = None]
<1>1. DOMAIN req[r] = Fields /\ AtWork(req[r])
  BY DEF MarkLoad, MarkStore, IInv, Stands
<1>2. \/ req' = [req EXCEPT ![r] = read]
      \/ req' = [req EXCEPT ![r] = again]
      \/ \E n \in NextToken(req[r], "429") : req' = [req EXCEPT ![r] = [n EXCEPT !.seen = None]]
  <2>1. CASE MarkLoad(r)
    BY <2>1 DEF MarkLoad
  <2>2. CASE MarkStore(r)
    <3>1. req' = [req EXCEPT ![r] = again] \/ \E n \in Marked(req[r]) : req' = [req EXCEPT ![r] = n]
      BY <2>2 DEF MarkStore
    <3>. HIDE DEF again
    <3>. QED BY <3>1 DEF Marked
  <2>. QED BY <2>1, <2>2
<1>3. DOMAIN read = Fields /\ Stands(read)
  BY <1>1 DEF Fields, AtWork, Stands
<1>4. DOMAIN again = Fields /\ Stands(again)
  BY <1>1 DEF Fields, AtWork, Stands
<1>. HIDE DEF read, again
<1>. QED BY <1>1, <1>2, <1>3, <1>4, OneChanges, NextTokenStands

LEMMA NextIInv == IInv /\ [Next]_vars => IInv'
<1>. SUFFICES ASSUME IInv, [Next]_vars PROVE IInv'
  OBVIOUS
<1>1. ASSUME NEW r \in Req, NEW w \in Worker, NEW q \in Query, Headers(r, w, q)
      PROVE  IInv'
  BY <1>1, HeadersStep
<1>2. ASSUME NEW r \in Req, Body(r) \/ Callback(r)
      PROVE  IInv'
  BY <1>2, BodyStep, AnswerStep, MarkStep DEF Callback
<1>3. CASE UNCHANGED req
  BY <1>3 DEF IInv
<1>4. \/ \E r \in Req : \/ \E w \in Worker, q \in Query : Headers(r, w, q)
                        \/ Body(r) \/ Callback(r)
      \/ UNCHANGED req
  BY DEF Next, Load, Tick, Over, vars
<1>. QED BY <1>1, <1>2, <1>3, <1>4

\* However the callbacks recur, a paused request has exactly one way on: a
\* callout, a callback at work, or its one resume; and it is ranked at most once.
THEOREM AlwaysOneWayOn == Spec => []OneWayOn
<1>1. IInv => OneWayOn
  <2>. SUFFICES ASSUME IInv, NEW r \in Req, NEW q, q = req[r]
                PROVE  /\ q.paused => q.calls + q.resumes
                                      + (IF q.pc \in {"load", "store"} THEN 1 ELSE 0) = 1
                       /\ q.ranks <= q.resumes
    BY DEF OneWayOn
  <2>1. Stands(q)
    BY DEF IInv
  <2>. QED BY <2>1 DEF Stands, Untouched, Asking, AtWork, LetOn
<1>. QED BY <1>1, InitIInv, NextIInv, PTL DEF Spec
-----------------------------------------------------------------------------
(***************************************************************************)
(* The shared map.                                                         *)
(***************************************************************************)
\* Who marks a token knows the tokens of every other route, and keeps them
\* for as long.
OneList ==
  \A c, d \in Config : d.cooldown > 0 /\ d.tokens # <<>> =>
    ToSet(c.tokens) \subseteq ToSet(d.tokens) /\ c.cooldown <= d.cooldown

\* What a request uses of its configuration.
Placed(q) ==
  /\ q.pc \in {"body", "paused", "load", "store"} => q.conf \in Config
  /\ q.pc \in {"paused", "load", "store"} => q.left \subseteq DOMAIN q.conf.tokens
  /\ q.pc \in {"load", "store"} => q.left # {} /\ q.conf.cooldown > 0

\* What a callback is about to write is the map it read with its own token,
\* unless somebody has written since.
MergedAt(c, t, t0) ==
  LET since == [x \in DOMAIN kv.since \union {t} |-> IF x = t THEN t0 ELSE kv.since[x]]
      kept == {x \in DOMAIN since : x \in ToSet(c.tokens) /\ ~Cooled(since, x, t0, c.cooldown)}
  IN  [x \in kept |-> since[x]]
Pending(q) == q.pc = "store" =>
  /\ q.seen.at \in Nat /\ q.seen.at <= now /\ q.seen.cas \in Nat \ {0} /\ q.seen.cas <= kv.cas
  /\ q.seen.cas = kv.cas => q.seen.since = MergedAt(q.conf, TokenOf(q), q.seen.at)

\* The map holds recorded failures only, and each that still matters to anyone.
Recorded ==
  /\ \A t \in DOMAIN failedAt : failedAt[t] \in Nat /\ failedAt[t] <= now
  /\ \A t \in DOMAIN kv.since : t \in DOMAIN failedAt /\ kv.since[t] = failedAt[t]
  /\ \A c \in Config : \A t \in ToSet(c.tokens) : CoolsDown(c, t) => t \in DOMAIN kv.since

Marks ==
  /\ now \in Nat /\ conf \in [Worker -> Config] /\ kv.cas \in Nat \ {0}
  /\ \A r \in Req : Placed(req[r]) /\ Pending(req[r])
  /\ Recorded

LEMMA LeastOf ==
  ASSUME NEW c \in Config, NEW S \in SUBSET DOMAIN c.tokens, S # {}
  PROVE  Min(S) \in S
<1>1. S \subseteq Nat
  BY DecisionAssumption
<1>2. PICK m \in S : \A n \in S : ~ (<<n, m>> \in OpToRel(<, Nat))
  BY <1>1, NatLessThanWellFounded, WFMin
<1>3. \A n \in S : ~ (n < m)
  BY <1>1, <1>2 DEF OpToRel
<1>4. \A n \in S : m <= n
  BY <1>1, <1>3
<1>. QED BY <1>4 DEF Min

LEMMA InitMarks == Established /\ Init => Marks
BY DEF Init, Marks, NewReq, Placed, Pending, Recorded, Empty, CoolsDown

\* A step that writes nothing.
LEMMA OneMarks ==
  ASSUME IInv, Marks, NEW r \in Req, NEW n, req' = [req EXCEPT ![r] = n],
         UNCHANGED <<now, kv, conf, failedAt>>, Placed(n), Pending(n)
  PROVE  Marks'
<1>1. ASSUME NEW x \in Req PROVE Placed(req[x])' /\ Pending(req[x])'
  <2>1. PICK q : q = req'[x] /\ Placed(q) /\ Pending(q)
    BY DEF IInv, Marks
  <2>2. MergedAt(q.conf, TokenOf(q), q.seen.at)' = MergedAt(q.conf, TokenOf(q), q.seen.at)
    BY DEF MergedAt, Cooled, TokenOf
  <2>. QED BY <2>1, <2>2 DEF Placed, Pending
<1>2. Recorded'
  BY DEF Marks, Recorded, CoolsDown
<1>. QED BY <1>1, <1>2 DEF Marks

LEMMA NextTokenMarks ==
  ASSUME NEW q, DOMAIN q = Fields, q.conf \in Config, q.left \subseteq DOMAIN q.conf.tokens,
         NEW a, NEW n \in NextToken(q, a)
  PROVE  /\ Placed(n) /\ Pending(n)
         /\ Placed([n EXCEPT !.seen = None]) /\ Pending([n EXCEPT !.seen = None])
<1>1. n \in {Sent(q), Resumed(q), Applied(q, a)}
  BY DEF NextToken
<1>2. DOMAIN n = Fields /\ n.pc \in {"paused", "gone"}
  BY <1>1 DEF Sent, Resumed, Applied, NewReq, Fields
<1>3. n.pc = "paused" => n.conf = q.conf /\ n.left \subseteq q.left
  <2>1. n.pc = "paused" => n = Sent(q)
    BY <1>1 DEF Resumed, Applied, NewReq, Fields
  <2>2. Sent(q).conf = q.conf /\ Sent(q).left = Others(q)
    BY DEF Sent, Fields
  <2>. QED BY <2>1, <2>2 DEF Others
<1>. DEFINE m == [n EXCEPT !.seen = None]
<1>4. m.pc = n.pc /\ m.conf = n.conf /\ m.left = n.left
  BY <1>2 DEF Fields
<1>. HIDE DEF m
<1>. QED BY <1>2, <1>3, <1>4 DEF Placed, Pending

LEMMA HeadersMarks ==
  ASSUME IInv, Marks, NEW r \in Req, NEW w \in Worker, NEW q \in Query, Headers(r, w, q)
  PROVE  Marks'
<1>. DEFINE n == [req[r] EXCEPT !.on = w, !.conf = conf[w],
                                !.pc = IF Arms(conf[w], q) THEN "body" ELSE "gone"]
<1>1. req' = [req EXCEPT ![r] = n] /\ UNCHANGED <<now, kv, conf, failedAt>>
  BY DEF Headers
<1>2. DOMAIN req[r] = Fields /\ conf[w] \in Config
  BY DEF IInv, Marks
<1>3. n.pc \in {"body", "gone"} /\ n.conf = conf[w]
  BY <1>2 DEF Fields
<1>. HIDE DEF n
<1>4. Placed(n) /\ Pending(n)
  BY <1>2, <1>3 DEF Placed, Pending
<1>. QED BY <1>1, <1>4, OneMarks

LEMMA BodyMarks ==
  ASSUME IInv, Marks, NEW r \in Req, Body(r)
  PROVE  Marks'
<1>1. DOMAIN req[r] = Fields /\ req[r].pc = "body" /\ req[r].conf \in Config
  BY DEF Body, IInv, Marks, Placed
<1>. DEFINE asked == [req[r] EXCEPT !.pc = "paused", !.paused = TRUE, !.calls = 1,
                                    !.left = ActiveTokens(req[r].conf)]
            passed == [req[r] EXCEPT !.pc = "gone"]
<1>2. /\ asked.pc = "paused" /\ asked.conf = req[r].conf /\ passed.pc = "gone"
      /\ asked.left = ActiveTokens(req[r].conf)
  BY <1>1 DEF Fields
<1>3. /\ UNCHANGED <<now, kv, conf, failedAt>>
      /\ \/ req' = [req EXCEPT ![r] = asked]
         \/ req' = [req EXCEPT ![r] = passed]
  BY DEF Body
<1>. HIDE DEF asked, passed
<1>4. ActiveTokens(req[r].conf) \subseteq DOMAIN req[r].conf.tokens
  BY DEF ActiveTokens
<1>5. Placed(asked) /\ Pending(asked) /\ Placed(passed) /\ Pending(passed)
  BY <1>1, <1>2, <1>4 DEF Placed, Pending
<1>. QED BY <1>3, <1>5, OneMarks

LEMMA AnswerMarks ==
  ASSUME IInv, Marks, NEW r \in Req, NEW a \in Answers, Answer(r, a)
  PROVE  Marks'
<1>. DEFINE q == [req[r] EXCEPT !.calls = @ - 1]
            marking == [q EXCEPT !.pc = "load", !.attempt = 1]
<1>1. DOMAIN req[r] = Fields /\ req[r].pc = "paused"
  BY DEF Answer, IInv, Fields
<1>2. DOMAIN q = Fields /\ q.conf \in Config /\ q.left \subseteq DOMAIN q.conf.tokens
  BY <1>1 DEF Fields, Marks, Placed
<1>3. /\ UNCHANGED <<now, kv, conf, failedAt>>
      /\ \/ req' = [req EXCEPT ![r] = Applied(q, a)]
         \/ req' = [req EXCEPT ![r] = marking] /\ TokenOf(q) # None /\ q.conf.cooldown > 0
         \/ \E n \in NextToken(q, a) : req' = [req EXCEPT ![r] = n]
  BY DEF Answer
<1>. HIDE DEF q
<1>4. marking.pc = "load" /\ marking.conf = q.conf /\ marking.left = q.left
  BY <1>2 DEF Fields
<1>. HIDE DEF marking
<1>5. TokenOf(q) # None /\ q.conf.cooldown > 0 => Placed(marking) /\ Pending(marking)
  BY <1>2, <1>4 DEF Placed, Pending, TokenOf
<1>6. Applied(q, a).pc = "gone"
  BY DEF Applied, Resumed, NewReq
<1>7. Placed(Applied(q, a)) /\ Pending(Applied(q, a))
  BY <1>6 DEF Placed, Pending
<1>. QED BY <1>2, <1>3, <1>5, <1>7, OneMarks, NextTokenMarks

LEMMA MarkLoadMarks ==
  ASSUME IInv, Marks, NEW r \in Req, MarkLoad(r)
  PROVE  Marks'
<1>. DEFINE seen == [cas |-> kv.cas, since |-> Merged(req[r].conf, TokenOf(req[r])), at |-> now]
            n == [req[r] EXCEPT !.pc = "store", !.seen = seen]
<1>1. /\ req[r].pc = "load" /\ req' = [req EXCEPT ![r] = n]
      /\ UNCHANGED <<now, kv, conf, failedAt>>
  BY DEF MarkLoad
<1>2. DOMAIN req[r] = Fields /\ Placed(req[r])
  BY DEF IInv, Marks
<1>3. n.pc = "store" /\ n.conf = req[r].conf /\ n.left = req[r].left /\ n.seen = seen
  BY <1>2 DEF Fields
<1>. HIDE DEF n
<1>4. TokenOf(n) = TokenOf(req[r])
  BY <1>3 DEF TokenOf
<1>5. Merged(req[r].conf, TokenOf(req[r])) = MergedAt(n.conf, TokenOf(n), now)
  BY <1>3, <1>4 DEF Merged, MergedAt
<1>6. Placed(n) /\ Pending(n)
  BY <1>1, <1>2, <1>3, <1>5 DEF Placed, Pending, Marks
<1>. QED BY <1>1, <1>6, OneMarks

\* What a write leaves.
LEMMA MergedMap ==
  ASSUME OneList, Marks, NEW q, Placed(q), q.pc = "store",
         NEW t0 \in Nat, t0 <= now, NEW t, t = TokenOf(q)
  PROVE  /\ t \in ToSet(q.conf.tokens)
         /\ \A x \in DOMAIN MergedAt(q.conf, t, t0) :
              /\ x = t \/ x \in DOMAIN kv.since
              /\ MergedAt(q.conf, t, t0)[x] = IF x = t THEN t0 ELSE kv.since[x]
         /\ t \in DOMAIN MergedAt(q.conf, t, t0)
         /\ \A c \in Config : \A x \in ToSet(c.tokens) :
              x \in DOMAIN kv.since /\ now - kv.since[x] < c.cooldown =>
                x \in DOMAIN MergedAt(q.conf, t, t0)
<1>. DEFINE since == [x \in DOMAIN kv.since \union {t} |-> IF x = t THEN t0 ELSE kv.since[x]]
            kept == {x \in DOMAIN since : x \in ToSet(q.conf.tokens)
                                          /\ ~Cooled(since, x, t0, q.conf.cooldown)}
<1>1. MergedAt(q.conf, t, t0) = [x \in kept |-> since[x]]
  BY DEF MergedAt
<1>2. /\ q.conf \in Config /\ q.conf.cooldown \in Nat /\ q.conf.cooldown > 0
      /\ q.left # {} /\ q.left \subseteq DOMAIN q.conf.tokens
  BY DecisionAssumption DEF Placed
<1>3. t \in ToSet(q.conf.tokens)
  BY <1>2, LeastOf DEF TokenOf, ToSet
<1>4. since[t] = t0 /\ \A x \in DOMAIN kv.since : x # t => since[x] = kv.since[x]
  OBVIOUS
<1>5. DOMAIN since = DOMAIN kv.since \union {t}
  OBVIOUS
<1>. HIDE DEF since
<1>6. t \in kept
  BY <1>2, <1>3, <1>4, <1>5 DEF Cooled
<1>7. ASSUME NEW c \in Config, NEW x \in ToSet(c.tokens),
             x \in DOMAIN kv.since, now - kv.since[x] < c.cooldown, x # t
      PROVE  x \in kept
  <2>1. q.conf.tokens # <<>>
    BY <1>2
  <2>2. x \in ToSet(q.conf.tokens) /\ c.cooldown <= q.conf.cooldown /\ c.cooldown \in Nat
    BY <1>2, <1>7, <2>1, DecisionAssumption DEF OneList
  <2>3. kv.since[x] \in Nat /\ now \in Nat
    BY <1>7 DEF Marks, Recorded
  <2>4. t0 - since[x] < q.conf.cooldown
    BY <1>2, <1>4, <1>7, <2>2, <2>3
  <2>. QED BY <1>2, <1>4, <1>5, <1>7, <2>2, <2>3, <2>4 DEF Cooled
<1>8. \A x \in kept : (x = t \/ x \in DOMAIN kv.since) /\ since[x] = IF x = t THEN t0 ELSE kv.since[x]
  BY <1>4, <1>5
<1>. HIDE DEF kept
<1>. QED BY <1>1, <1>3, <1>6, <1>7, <1>8

LEMMA MarkStoreMarks ==
  ASSUME OneList, IInv, Marks, NEW r \in Req, MarkStore(r)
  PROVE  Marks'
<1>. DEFINE q == req[r]
            again == [q EXCEPT !.pc = "load", !.attempt = @ + 1, !.seen = None]
<1>1. q.pc = "store" /\ DOMAIN q = Fields /\ Placed(q) /\ Pending(q) /\ UNCHANGED <<now, conf>>
  BY DEF MarkStore, IInv, Marks
<1>. DEFINE t == TokenOf(q)
            writes == /\ Swappable(q.seen.cas)
                      /\ kv' = [cas |-> kv.cas + 1, since |-> q.seen.since]
                      /\ failedAt' = [x \in DOMAIN failedAt \union {t} |->
                                        IF x = t THEN q.seen.at ELSE failedAt[x]]
<1>2. /\ req' = [req EXCEPT ![r] = again] \/ \E n \in Marked(q) : req' = [req EXCEPT ![r] = n]
      /\ writes \/ UNCHANGED <<kv, failedAt>>
  BY DEF MarkStore
<1>3. PICK n : req' = [req EXCEPT ![r] = n] /\ Placed(n) /\ n.pc # "store"
  <2>1. again.pc = "load" /\ again.conf = q.conf /\ again.left = q.left
    BY <1>1 DEF Fields
  <2>2. Placed(again)
    BY <1>1, <2>1 DEF Placed
  <2>3. \A m \in Marked(q) : Placed(m) /\ m.pc # "store"
    <3>1. ASSUME NEW m \in NextToken(q, "429")
          PROVE  Placed([m EXCEPT !.seen = None]) /\ [m EXCEPT !.seen = None].pc # "store"
      <4>1. Placed([m EXCEPT !.seen = None])
        BY <1>1, NextTokenMarks DEF Placed
      <4>2. DOMAIN m = Fields /\ m.pc # "store"
        BY <1>1 DEF NextToken, Sent, Resumed, Applied, NewReq, Fields
      <4>. QED BY <4>1, <4>2 DEF Fields
    <3>. QED BY <3>1 DEF Marked
  <2>. QED BY <1>2, <2>1, <2>2, <2>3
<1>. HIDE DEF again
<1>4. CASE UNCHANGED <<kv, failedAt>>
  <2>1. Pending(n)
    BY <1>3 DEF Pending
  <2>. QED BY <1>1, <1>3, <1>4, <2>1, OneMarks
<1>5. CASE writes
  <2>1. q.seen.cas = kv.cas /\ q.seen.at \in Nat /\ q.seen.at <= now
    BY <1>1, <1>5 DEF Pending, Swappable
  <2>2. kv'.since = MergedAt(q.conf, t, q.seen.at) /\ kv'.cas = kv.cas + 1
    BY <1>1, <1>5, <2>1 DEF Pending
  <2>3. ASSUME NEW x \in Req PROVE Placed(req[x])' /\ Pending(req[x])'
    <3>1. CASE x = r
      <4>1. req'[x] = n
        BY <1>3, <3>1 DEF IInv
      <4>. QED BY <1>3, <4>1 DEF Placed, Pending
    <3>2. CASE x # r
      <4>1. req'[x] = req[x] /\ Placed(req[x]) /\ Pending(req[x]) /\ kv.cas \in Nat
        BY <1>3, <3>2 DEF IInv, Marks
      <4>2. req[x].pc = "store" => req[x].seen.cas # kv'.cas /\ req[x].seen.cas <= kv'.cas
        BY <2>2, <4>1 DEF Pending
      <4>. QED BY <1>1, <4>1, <4>2 DEF Placed, Pending
    <3>. QED BY <3>1, <3>2
  <2>4. Recorded'
    <3>. DEFINE map == MergedAt(q.conf, t, q.seen.at)
    <3>1. /\ \A x \in DOMAIN map : /\ x = t \/ x \in DOMAIN kv.since
                                  /\ map[x] = IF x = t THEN q.seen.at ELSE kv.since[x]
          /\ t \in DOMAIN map
          /\ \A c \in Config : \A x \in ToSet(c.tokens) :
               x \in DOMAIN kv.since /\ now - kv.since[x] < c.cooldown => x \in DOMAIN map
      BY <1>1, <2>1, MergedMap
    <3>. HIDE DEF map
    <3>2. /\ DOMAIN failedAt' = DOMAIN failedAt \union {t} /\ failedAt'[t] = q.seen.at
          /\ \A x \in DOMAIN failedAt : x # t => failedAt'[x] = failedAt[x]
      BY <1>5
    <3>3. Recorded /\ kv'.since = map /\ now' = now
      BY <1>1, <2>2 DEF Marks, map
    <3>4. \A x \in DOMAIN failedAt' : failedAt'[x] \in Nat /\ failedAt'[x] <= now'
      BY <2>1, <3>2, <3>3 DEF Recorded
    <3>5. \A x \in DOMAIN map : x \in DOMAIN failedAt' /\ map[x] = failedAt'[x]
      BY <3>1, <3>2, <3>3 DEF Recorded
    <3>6. ASSUME NEW c \in Config, NEW x \in ToSet(c.tokens), CoolsDown(c, x)'
          PROVE  x \in DOMAIN map
      <4>1. CASE x = t
        BY <3>1, <4>1
      <4>2. CASE x # t
        <5>1. CoolsDown(c, x)
          BY <3>2, <3>3, <3>6, <4>2 DEF CoolsDown
        <5>2. x \in DOMAIN kv.since /\ kv.since[x] = failedAt[x]
          BY <3>3, <5>1 DEF Recorded
        <5>. QED BY <3>1, <5>1, <5>2 DEF CoolsDown
      <4>. QED BY <4>1, <4>2
    <3>. QED BY <3>3, <3>4, <3>5, <3>6 DEF Recorded
  <2>. QED BY <1>1, <2>2, <2>3, <2>4 DEF Marks
<1>. QED BY <1>2, <1>4, <1>5

\* No request and no write.
LEMMA Standstill ==
  ASSUME Marks, UNCHANGED <<kv, req>>, now' \in Nat, now' >= now, NEW r \in Req
  PROVE  Placed(req[r])' /\ Pending(req[r])'
<1>1. PICK q : q = req[r] /\ Placed(q) /\ Pending(q)
  BY DEF Marks
<1>2. MergedAt(q.conf, TokenOf(q), q.seen.at)' = MergedAt(q.conf, TokenOf(q), q.seen.at)
  BY DEF MergedAt, Cooled, TokenOf
<1>3. q.pc = "store" => q.seen.at <= now'
  BY <1>1 DEF Marks, Pending
<1>. QED BY <1>1, <1>2, <1>3 DEF Placed, Pending

\* A reset, which forgets every failure on record; and time, which ends cooldowns.
LEMMA LoadMarks ==
  ASSUME Marks, NEW w \in Worker, NEW c \in Config, Load(w, c)
  PROVE  Marks'
<1>1. UNCHANGED <<now, req>> /\ conf' \in [Worker -> Config]
  BY DEF Load, Marks
<1>2. \/ UNCHANGED <<kv, failedAt>>
      \/ kv' = [cas |-> kv.cas + 1, since |-> Empty] /\ failedAt' = Empty
  BY DEF Load
<1>3. CASE UNCHANGED <<kv, failedAt>>
  <2>1. \A r \in Req : Placed(req[r])' /\ Pending(req[r])'
    BY <1>1, <1>3, Standstill DEF Marks
  <2>. QED BY <1>1, <1>3, <2>1 DEF Marks, Recorded, CoolsDown
<1>4. CASE kv' = [cas |-> kv.cas + 1, since |-> Empty] /\ failedAt' = Empty
  <2>1. kv'.cas = kv.cas + 1 /\ kv'.since = Empty /\ DOMAIN Empty = {}
    BY <1>4 DEF Empty
  <2>2. Recorded'
    BY <1>4, <2>1 DEF Recorded, CoolsDown
  <2>3. ASSUME NEW r \in Req PROVE Placed(req[r])' /\ Pending(req[r])'
    BY <1>1, <2>1 DEF Marks, Placed, Pending
  <2>. QED BY <1>1, <2>1, <2>2, <2>3 DEF Marks
<1>. QED BY <1>2, <1>3, <1>4

LEMMA TickMarks ==
  ASSUME Marks, Tick
  PROVE  Marks'
<1>1. now' = now + 1 /\ now \in Nat /\ UNCHANGED <<kv, conf, req, failedAt>>
  BY DEF Tick, Marks
<1>2. \A r \in Req : Placed(req[r])' /\ Pending(req[r])'
  BY <1>1, Standstill
<1>3. \A t \in DOMAIN failedAt : failedAt[t] \in Nat /\ failedAt[t] <= now
  BY DEF Marks, Recorded
<1>4. ASSUME NEW c \in Config, NEW t \in ToSet(c.tokens), CoolsDown(c, t)'
      PROVE  CoolsDown(c, t)
  <2>1. c.cooldown \in Nat
    BY DecisionAssumption
  <2>. QED BY <1>1, <1>3, <1>4, <2>1 DEF CoolsDown
<1>. QED BY <1>1, <1>2, <1>3, <1>4 DEF Marks, Recorded

LEMMA NextMarks == OneList /\ IInv /\ Marks /\ [Next]_vars => Marks'
<1>. SUFFICES ASSUME OneList, IInv, Marks, [Next]_vars PROVE Marks'
  OBVIOUS
<1>1. ASSUME NEW r \in Req, Callback(r) PROVE Marks'
  BY <1>1, AnswerMarks, MarkLoadMarks, MarkStoreMarks DEF Callback
<1>2. CASE UNCHANGED vars
  <2>1. \A r \in Req : Placed(req[r])' /\ Pending(req[r])'
    BY <1>2, Standstill DEF vars, Marks
  <2>. QED BY <1>2, <2>1 DEF vars, Marks, Recorded, CoolsDown
<1>. QED BY <1>1, <1>2, HeadersMarks, BodyMarks, LoadMarks, TickMarks DEF Next, Over

\* Where the routes share one credential list, and a global configuration has
\* created the map: no failure on record is lost to the records of other
\* workers, to what they prune, or to a reset under way, and so no request is
\* sent first with a credential that cools down, unless all of them do
\* (markTokenUnavailable, activeTokens).
THEOREM NoCalloutWasted ==
  ASSUME OneList, Established
  PROVE  Spec => []NoWastedCallout
<1>1. Marks => NoWastedCallout
  <2>. SUFFICES ASSUME Marks, NEW w \in Worker, NEW c, c = conf[w], Len(c.tokens) > 1,
                       CoolsDown(c, c.tokens[Min(ActiveTokens(c))]), NEW t \in ToSet(c.tokens)
                PROVE  CoolsDown(c, t)
    BY DEF NoWastedCallout
  <2>1. c \in Config /\ c.cooldown \in Nat /\ DOMAIN c.tokens # {} /\ now \in Nat
    <3>1. c \in Config /\ now \in Nat
      BY DEF Marks
    <3>2. c.tokens \in Seq(Token) /\ c.cooldown \in Nat
      BY <3>1, DecisionAssumption
    <3>3. 1 \in DOMAIN c.tokens
      BY <3>2
    <3>. QED BY <3>1, <3>2, <3>3
  <2>. DEFINE live == {i \in DOMAIN c.tokens : Cooled(kv.since, c.tokens[i], now, c.cooldown)}
              i == Min(ActiveTokens(c))
  <2>2. Recorded /\ \A x \in DOMAIN failedAt : failedAt[x] \in Nat /\ failedAt[x] <= now
    BY DEF Marks, Recorded
  <2>3. c.cooldown > 0
    BY <2>1, <2>2 DEF CoolsDown
  <2>4. ActiveTokens(c) = IF live = {} THEN DOMAIN c.tokens ELSE live
    BY <2>1, <2>3 DEF ActiveTokens
  <2>5. i \in ActiveTokens(c)
    BY <2>1, <2>4, LeastOf
  <2>6. c.tokens[i] \in ToSet(c.tokens)
    BY <2>4, <2>5 DEF ToSet
  <2>7. ~ Cooled(kv.since, c.tokens[i], now, c.cooldown)
    BY <2>1, <2>2, <2>6 DEF Recorded, CoolsDown, Cooled
  <2>8. live = {}
    BY <2>4, <2>5, <2>7
  <2>9. ~ Cooled(kv.since, t, now, c.cooldown)
    BY <2>8 DEF ToSet
  <2>. QED BY <2>1, <2>2, <2>9 DEF Recorded, CoolsDown, Cooled
<1>2. OneList /\ IInv /\ Marks /\ [Next]_vars => Marks'
  BY NextMarks
<1>3. Established /\ Init => Marks
  BY InitMarks
<1>. QED BY <1>1, <1>2, <1>3, InitIInv, NextIInv, PTL DEF Spec
=============================================================================
