---------------------------- MODULE ApiTokens_proofs ----------------------------
(***************************************************************************)
(* The API tokens of ai-proxy: TokenFailover, for any workers, tokens,     *)
(* setups, lease and number of attempts, and TokenRetry, for any number of *)
(* tokens, retries and callouts.                                           *)
(*                                                                         *)
(* 1. Failover.  All rests on Typed, which holds through any pushes: what  *)
(* a worker is about fits where it stands (Fits), the operations it has    *)
(* left are in the order their handler gave them (Orderly), and a value it *)
(* is about to store is the right one unless its key has been written      *)
(* since (Copies).  StepTyped sorts every step: one that rests, one of a   *)
(* handler that writes no list, count or time (Handles), or an operation   *)
(* that is applied, dropped, still to come, or refused (Operates).         *)
(*                                                                         *)
(* None of the four properties is inductive.  Each gets what a worker      *)
(* still has to do as a part of what is on record:                         *)
(*   Kept    a token in no list is owed one by somebody, or was dropped;   *)
(*   Blame   the failures on record and those being handled are no more    *)
(*           than there were, so who is at the threshold has seen enough;  *)
(*   Merit   the same of checks, and the time on record is not before the  *)
(*           token was taken out;                                          *)
(*   Holds, Waits   whoever runs the tick holds the lease, stamped with    *)
(*           the present time; who found it free before is too late.       *)
(*                                                                         *)
(* 2. Retries.  RetryInv: while a retry may still come, what is left of    *)
(* the list, the token in use apart, has not been sent; and each token was *)
(* sent by the request or by one of the retries counted.                   *)
(***************************************************************************)
EXTENDS TokenFailover, TokenRetry, FiniteSetTheorems, TLAPS

Keys == {"avail", "unavail", "failures", "successes", "since", "lease"}

\* What a handler may write but for a push, and what a push writes.
PlainOps ==
  [key : {"avail", "unavail"}, do : {"add", "remove"}, token : Token]
  \union [key : {"failures", "successes"}, do : {"count", "uncount"}, token : Token]
  \union [key : {"since"}, do : {"stamp", "unstamp"}, token : Token]
ResetOps == [key : Keys, do : {"clear"}, token : {NoToken}] \union {Op("avail", "init", NoToken)}

\* A handler that takes a token out of a list puts it into one, one that clears
\* a list fills it, and one that counts does nothing else.
Orderly(s) ==
  \A i \in 1..Len(s) :
    /\ s[i].do = "remove" =>
         \E j \in (i + 1)..Len(s) : s[j].do = "add" /\ s[j].token = s[i].token
    /\ s[i].do = "clear" => \E j \in (i + 1)..Len(s) : s[j].do = "init"
    /\ s[i].do = "count" => Len(s) = 1

PlainPlans == {s \in Seq(PlainOps) : Orderly(s)}
ResetPlans == {s \in Seq(ResetOps) : Orderly(s)}

Pcs == {"idle", "pick", "guard", "lease", "scan", "decide", "run", "store", "refused"}
Hands == Token \union Req \union {NoToken, "tick", "reload"}

SharedTyped ==
  /\ DOMAIN shared = Keys
  /\ shared.avail \subseteq Token /\ shared.unavail \subseteq Token
  /\ shared.failures \in [Token -> Nat] /\ shared.successes \in [Token -> Nat]
  /\ shared.since \in [Token -> Nat \union {Never}]

\* What a worker is about, has to do, and runs, where it stands.
Fits(p, plan, h, g) ==
  /\ p \in {"run", "store"} <=> plan # <<>>
  /\ h = "reload" => plan \in ResetPlans /\ g > 1
  /\ h # "reload" => plan \in PlainPlans
  /\ p = "idle" => h = NoToken
  /\ p = "pick" => h \in Req
  /\ p = "guard" => h \in Token
  /\ p \in {"lease", "scan", "decide"} => h = "tick"
  /\ p = "refused" => h = "reload"
  /\ p = "store" => Head(plan).do # "clear"

Controls ==
  /\ pc \in [Worker -> Pcs] /\ hand \in [Worker -> Hands]
  /\ todo \in [Worker -> PlainPlans \union ResetPlans]
  /\ tokens \in [Worker -> SUBSET Token] /\ count \in [Worker -> Nat]
  /\ gen \in [Worker -> 1..Len(Configs)]
  /\ \A w \in Worker : Fits(pc[w], todo[w], hand[w], gen[w])

\* What is about to be stored is right, unless the key has been written since.
Copies ==
  /\ DOMAIN loaded = Worker /\ DOMAIN snap = Worker /\ fresh \in [Worker -> BOOLEAN]
  /\ \A w \in Worker : pc[w] = "store" /\ fresh[w] =>
       /\ loaded[w] = Head(todo[w]).key
       /\ snap[w] = Result(w, Head(todo[w]), shared[Head(todo[w]).key])

Requests ==
  req \in [Req -> [st : {"new", "picking", "upstream", "done"},
                   at : Worker \union {NoToken}, token : Token \union {NoToken}]]

Histories ==
  /\ outAt \in [Token -> Nat \union {Never}] /\ \A t \in Token : outAt[t] <= now
  /\ good \in [Token -> Nat] /\ fails \in [Token -> Nat]

Typed ==
  /\ setup \in Setups /\ now \in Nat
  /\ SharedTyped /\ Controls /\ Copies /\ Requests /\ Histories
-----------------------------------------------------------------------------
(***************************************************************************)
(* The operations of a handler.                                            *)
(***************************************************************************)
LEMMA Strings ==
  /\ {"tick", "reload"} \intersect (Token \union Req \union {NoToken}) = {}
  /\ NoToken \notin Token
BY FailoverAssumption, TokenAssumption

LEMMA Singles ==
  ASSUME NEW t \in Token, NEW key \in {"failures", "successes"}, NEW do \in {"count", "uncount"}
  PROVE  <<Op(key, do, t)>> \in PlainPlans
<1>1. Op(key, do, t) \in PlainOps
  BY DEF Op, PlainOps
<1>. QED BY <1>1 DEF PlainPlans, Orderly, Op

LEMMA TakeOutPlan ==
  ASSUME NEW t \in Token
  PROVE  TakeOut(t) \in PlainPlans /\ TakeOut(t) # <<>>
<1>1. /\ Op("avail", "remove", t) \in PlainOps /\ Op("unavail", "add", t) \in PlainOps
      /\ Op("failures", "uncount", t) \in PlainOps /\ Op("since", "stamp", t) \in PlainOps
  BY DEF Op, PlainOps
<1>2. TakeOut(t) \in Seq(PlainOps) /\ TakeOut(t) # <<>>
  BY <1>1 DEF TakeOut
<1>3. /\ Len(TakeOut(t)) \in {3, 4}
      /\ TakeOut(t)[1] = Op("avail", "remove", t) /\ TakeOut(t)[2] = Op("unavail", "add", t)
      /\ TakeOut(t)[3] = Op("failures", "uncount", t)
      /\ Len(TakeOut(t)) = 4 => TakeOut(t)[4] = Op("since", "stamp", t)
  BY DEF TakeOut
<1>4. Orderly(TakeOut(t))
  BY <1>3 DEF Orderly, Op
<1>. QED BY <1>2, <1>4 DEF PlainPlans

LEMMA RestorePlan ==
  ASSUME NEW t \in Token
  PROVE  Restore(t) \in PlainPlans /\ Restore(t) # <<>>
<1>1. /\ Op("unavail", "remove", t) \in PlainOps /\ Op("avail", "add", t) \in PlainOps
      /\ Op("successes", "uncount", t) \in PlainOps
  BY DEF Op, PlainOps
<1>2. Restore(t) \in Seq(PlainOps) /\ Restore(t) # <<>>
  BY <1>1 DEF Restore
<1>3. Orderly(Restore(t))
  BY DEF Restore, Orderly, Op
<1>. QED BY <1>2, <1>3 DEF PlainPlans

LEMMA Fours ==
  ASSUME NEW n \in Nat, NEW m \in Nat, n % 4 = 0, n < 4 * m
  PROVE  n + 1 < 4 * m /\ (n + 1) % 4 = 1 /\ (n + 1) \div 4 = n \div 4
OBVIOUS

\* Who recovers tokens only writes of those.
LEMMA RecoverPlan ==
  ASSUME NEW S \in SUBSET Token, NEW ts \in Seq(S)
  PROVE  /\ RecoverAll(ts) \in PlainPlans
         /\ \A i \in 1..Len(RecoverAll(ts)) : RecoverAll(ts)[i] \in UNION {Range(Recover(t)) : t \in S}
<1>. DEFINE s == RecoverAll(ts)
            tok(i) == ts[((i - 1) \div 4) + 1]
            key4 == <<"unavail", "avail", "since", "failures">>
            do4  == <<"remove", "add", "unstamp", "uncount">>
<1>1. \A t \in S, k \in 1..4 : Recover(t)[k] = Op(key4[k], do4[k], t) /\ Recover(t)[k] \in PlainOps
                         /\ Recover(t)[k] \in Range(Recover(t))
  BY DEF Recover, Op, PlainOps, Range
<1>2. \A i \in 1..(4 * Len(ts)) : tok(i) \in S /\ ((i - 1) % 4) + 1 \in 1..4
  OBVIOUS
<1>3. /\ Len(s) = 4 * Len(ts) /\ DOMAIN s = 1..(4 * Len(ts))
      /\ \A i \in 1..(4 * Len(ts)) : s[i] = Recover(tok(i))[((i - 1) % 4) + 1]
  BY DEF RecoverAll
<1>. HIDE DEF s, tok
<1>4. \A i \in 1..Len(s) : /\ s[i] \in PlainOps /\ s[i] \in UNION {Range(Recover(t)) : t \in S}
                           /\ s[i] = Op(key4[((i - 1) % 4) + 1], do4[((i - 1) % 4) + 1], tok(i))
  BY <1>1, <1>2, <1>3
<1>5. s \in Seq(PlainOps)
  <2>1. s = [i \in 1..(4 * Len(ts)) |-> s[i]] /\ 4 * Len(ts) \in Nat
    BY DEF RecoverAll, s
  <2>. HIDE DEF key4, do4
  <2>2. s \in [1..(4 * Len(ts)) -> PlainOps]
    BY <1>3, <1>4, <2>1
  <2>. QED BY <2>1, <2>2
<1>6. Orderly(s)
  <2>. SUFFICES ASSUME NEW i \in 1..Len(s)
                PROVE  /\ s[i].do # "clear" /\ s[i].do # "count"
                       /\ s[i].do = "remove" =>
                            \E j \in (i + 1)..Len(s) : s[j].do = "add" /\ s[j].token = s[i].token
    BY DEF Orderly
  <2>1. s[i].do = do4[((i - 1) % 4) + 1] /\ s[i].token = tok(i)
    <3>. DEFINE k == ((i - 1) % 4) + 1
    <3>1. s[i] = Op(key4[k], do4[k], tok(i))
      BY <1>4
    <3>. HIDE DEF key4, do4, k
    <3>2. s[i].do = do4[k] /\ s[i].token = tok(i)
      BY <3>1 DEF Op
    <3>. QED BY <3>2 DEF k
  <2>2. ((i - 1) % 4) + 1 \in 1..4
    OBVIOUS
  <2>3. ASSUME s[i].do = "remove"
        PROVE  \E j \in (i + 1)..Len(s) : s[j].do = "add" /\ s[j].token = s[i].token
    <3>1. (i - 1) % 4 = 0
      BY <2>1, <2>2, <2>3
    <3>2. i + 1 \in 1..Len(s) /\ (((i + 1) - 1) % 4) + 1 = 2 /\ ((i + 1) - 1) \div 4 = (i - 1) \div 4
      <4>1. i - 1 \in Nat /\ Len(ts) \in Nat /\ i - 1 < 4 * Len(ts)
        BY <1>3
      <4>2. (i - 1) + 1 < 4 * Len(ts) /\ ((i - 1) + 1) % 4 = 1
            /\ ((i - 1) + 1) \div 4 = (i - 1) \div 4
        BY <3>1, <4>1, Fours
      <4>3. (i - 1) + 1 = i /\ (i + 1) - 1 = i
        OBVIOUS
      <4>. HIDE DEF key4, do4
      <4>. QED BY <1>3, <4>2, <4>3
    <3>3. s[i + 1] = Op("avail", "add", tok(i))
      BY <1>4, <3>2 DEF tok
    <3>. QED BY <2>1, <3>2, <3>3 DEF Op
  <2>. QED BY <2>1, <2>2, <2>3
<1>. QED BY <1>4, <1>5, <1>6 DEF PlainPlans, s

LEMMA ResetPlan == Reset \in ResetPlans /\ Reset # <<>>
<1>. DEFINE keys == <<"lease", "avail", "unavail", "successes", "failures", "since">>
<1>1. /\ Len(Reset) = 7 /\ DOMAIN Reset = 1..7
      /\ \A i \in 1..6 : Reset[i] = Op(keys[i], "clear", NoToken)
      /\ Reset[7] = Op("avail", "init", NoToken)
  BY DEF Reset
<1>2. \A i \in 1..7 : Reset[i] \in ResetOps
  <2>1. \A i \in 1..6 : keys[i] \in Keys
    BY DEF Keys
  <2>2. \A i \in 1..6 : Op(keys[i], "clear", NoToken) \in ResetOps
    BY <2>1 DEF ResetOps, Op
  <2>. QED BY <1>1, <2>2 DEF ResetOps
<1>3. Reset \in Seq(ResetOps) /\ Reset # <<>>
  <2>. DEFINE clears == [i \in 1..6 |-> Op(keys[i], "clear", NoToken)]
              fill == <<Op("avail", "init", NoToken)>>
  <2>1. clears \in [1..6 -> ResetOps]
    <3>1. \A i \in 1..6 : Op(keys[i], "clear", NoToken) \in ResetOps
      BY <1>1, <1>2
    <3>. HIDE DEF keys
    <3>. QED BY <3>1
  <2>2. clears \in Seq(ResetOps) /\ fill \in Seq(ResetOps)
    <3>1. fill \in Seq(ResetOps)
      BY DEF ResetOps
    <3>. HIDE DEF clears, fill
    <3>2. ASSUME NEW n \in Nat, clears \in [1..n -> ResetOps] PROVE clears \in Seq(ResetOps)
      BY <3>2
    <3>. QED BY <2>1, <3>1, <3>2
  <2>3. Reset = clears \o fill
    BY DEF Reset
  <2>. HIDE DEF clears, fill
  <2>. QED BY <1>1, <2>2, <2>3
<1>4. Orderly(Reset)
  BY <1>1 DEF Orderly, Op
<1>. QED BY <1>3, <1>4 DEF ResetPlans

LEMMA TailOrderly ==
  ASSUME NEW S, NEW s \in Seq(S), s # <<>>, Orderly(s)
  PROVE  Orderly(Tail(s))
<1>1. Tail(s) \in Seq(S) /\ Len(Tail(s)) = Len(s) - 1 /\ \A i \in 1..Len(Tail(s)) : Tail(s)[i] = s[i + 1]
  OBVIOUS
<1>. SUFFICES ASSUME NEW i \in 1..Len(Tail(s))
              PROVE  /\ s[i + 1].do = "remove" =>
                          \E j \in (i + 1)..Len(Tail(s)) : s[j + 1].do = "add" /\ s[j + 1].token = s[i + 1].token
                     /\ s[i + 1].do = "clear" => \E j \in (i + 1)..Len(Tail(s)) : s[j + 1].do = "init"
                     /\ s[i + 1].do = "count" => Len(Tail(s)) = 1
  BY <1>1 DEF Orderly
<1>2. i + 1 \in 1..Len(s)
  BY <1>1
<1>3. ASSUME NEW j \in ((i + 1) + 1)..Len(s) PROVE j - 1 \in (i + 1)..Len(Tail(s)) /\ (j - 1) + 1 = j
  BY <1>1
<1>4. s[i + 1].do # "count"
  BY <1>1, <1>2 DEF Orderly
<1>5. ASSUME s[i + 1].do = "remove"
      PROVE  \E j \in (i + 1)..Len(Tail(s)) : s[j + 1].do = "add" /\ s[j + 1].token = s[i + 1].token
  <2>1. PICK j \in ((i + 1) + 1)..Len(s) : s[j].do = "add" /\ s[j].token = s[i + 1].token
    BY <1>2, <1>5 DEF Orderly
  <2>. QED BY <1>3, <2>1
<1>6. ASSUME s[i + 1].do = "clear"
      PROVE  \E j \in (i + 1)..Len(Tail(s)) : s[j + 1].do = "init"
  <2>1. PICK j \in ((i + 1) + 1)..Len(s) : s[j].do = "init"
    BY <1>2, <1>6 DEF Orderly
  <2>. QED BY <1>3, <2>1
<1>. QED BY <1>4, <1>5, <1>6

LEMMA Tails ==
  ASSUME NEW s, s # <<>>
  PROVE  /\ s \in PlainPlans => Tail(s) \in PlainPlans
         /\ s \in ResetPlans => Tail(s) \in ResetPlans
BY TailOrderly DEF PlainPlans, ResetPlans

LEMMA Listed ==
  ASSUME NEW S, IsFiniteSet(S)
  PROVE  SetToSeq(S) \in Seq(S)
<1>1. Cardinality(S) \in Nat /\ \E f \in [1..Cardinality(S) -> S] : IsInjective(f)
  BY FS_CardinalityType DEF ExistsBijection, Bijection, Injection, IsInjective
<1>2. SetToSeq(S) \in [1..Cardinality(S) -> S]
  BY <1>1 DEF SetToSeq
<1>. QED BY <1>1, <1>2

LEMMA EmptyPlan == <<>> \in PlainPlans /\ <<>> \in ResetPlans
BY DEF PlainPlans, ResetPlans, Orderly

LEMMA OpKeys ==
  ASSUME NEW o \in PlainOps \union ResetOps
  PROVE  o.key \in Keys
BY DEF PlainOps, ResetOps, Keys, Op

\* A plan is typed, and says what its operations may be.
LEMMA PlanOps ==
  ASSUME NEW s, s # <<>>
  PROVE  /\ s \in PlainPlans =>
              s \in Seq(PlainOps) /\ Head(s) \in PlainOps /\ Head(s).do \notin {"clear", "init"}
         /\ s \in ResetPlans =>
              s \in Seq(ResetOps) /\ Head(s) \in ResetOps /\ Head(s).do \in {"clear", "init"}
<1>1. \A o \in PlainOps : o.do \notin {"clear", "init"}
  BY DEF PlainOps
<1>2. \A o \in ResetOps : o.do \in {"clear", "init"}
  BY DEF ResetOps, Op
<1>3. ASSUME NEW S, s \in Seq(S) PROVE Head(s) \in S
  BY <1>3
<1>. QED BY <1>1, <1>2, <1>3 DEF PlainPlans, ResetPlans
-----------------------------------------------------------------------------
(***************************************************************************)
(* The initial states.                                                     *)
(***************************************************************************)
LEMMA SetupTyped ==
  ASSUME setup \in Setups
  PROVE  /\ Configs \in Seq(SUBSET Token) /\ Len(Configs) \in Nat \ {0}
         /\ \A i \in 1..Len(Configs) : Configs[i] \subseteq Token
         /\ FailureThreshold \in Nat \ {0} /\ SuccessThreshold \in Nat \ {0} /\ Cooldown \in Nat
<1>1. /\ setup.configs \in Seq(SUBSET Token) /\ setup.configs # <<>>
      /\ setup.failureThreshold \in Nat \ {0} /\ setup.successThreshold \in Nat \ {0}
      /\ setup.cooldown \in Nat
  BY FailoverAssumption, TokenAssumption
<1>2. Len(setup.configs) \in Nat \ {0} /\ \A i \in 1..Len(setup.configs) : setup.configs[i] \subseteq Token
  BY <1>1
<1>. QED BY <1>1, <1>2 DEF Configs, FailureThreshold, SuccessThreshold, Cooldown

LEMMA InitTyped == Init => Typed
<1>. SUFFICES ASSUME Init PROVE Typed
  OBVIOUS
<1>1. setup \in Setups /\ now = 0 /\ 1 \in 1..Len(Configs) /\ Configs[1] \subseteq Token
  BY SetupTyped DEF Init
<1>2. SharedTyped
  BY <1>1 DEF Init, SharedTyped, Keys
<1>3. Controls
  BY <1>1, EmptyPlan, Strings DEF Init, Controls, Pcs, Hands, Fits
<1>4. Copies /\ Requests
  BY DEF Init, Copies, Requests
<1>5. Histories
  BY DEF Init, Histories, Never
<1>. QED BY <1>1, <1>2, <1>3, <1>4, <1>5 DEF Typed
-----------------------------------------------------------------------------
(***************************************************************************)
(* Handlers: the steps that are no operation of a plan.                    *)
(***************************************************************************)
LEMMA Turn ==
  ASSUME Controls, setup' = setup, NEW w \in Worker,
         NEW p \in Pcs, NEW plan, NEW h \in Hands, NEW ts \in SUBSET Token, NEW n \in Nat,
         NEW g \in 1..Len(Configs), Fits(p, plan, h, g),
         pc' = [pc EXCEPT ![w] = p], todo' = [todo EXCEPT ![w] = plan],
         hand' = [hand EXCEPT ![w] = h], tokens' = [tokens EXCEPT ![w] = ts],
         count' = [count EXCEPT ![w] = n], gen' = [gen EXCEPT ![w] = g]
  PROVE  Controls'
<1>1. Configs' = Configs
  BY DEF Configs
<1>2. \A x \in Worker : Fits(pc'[x], todo'[x], hand'[x], gen'[x])
  BY Zenon DEF Controls
<1>3. /\ pc' \in [Worker -> Pcs] /\ hand' \in [Worker -> Hands]
      /\ todo' \in [Worker -> PlainPlans \union ResetPlans]
      /\ tokens' \in [Worker -> SUBSET Token] /\ count' \in [Worker -> Nat]
  BY DEF Controls, Fits
<1>4. gen' \in [Worker -> 1..Len(Configs)]
  BY DEF Controls
<1>. QED BY <1>1, <1>2, <1>3, <1>4, Zenon DEF Controls

\* The copies of others, beneath a step of w that writes no key of theirs.
LEMMA CopiesKeep ==
  ASSUME Typed, UNCHANGED <<setup, now>>, NEW w \in Worker,
         DOMAIN loaded' = Worker, DOMAIN snap' = Worker, fresh' \in [Worker -> BOOLEAN],
         \A x \in Worker \ {w} :
           /\ pc'[x] = pc[x] /\ todo'[x] = todo[x] /\ gen'[x] = gen[x]
           /\ loaded'[x] = loaded[x] /\ snap'[x] = snap[x]
           /\ fresh'[x] => fresh[x] /\ \A k \in Keys : k = loaded[x] => shared'[k] = shared[k],
         pc'[w] = "store" /\ fresh'[w] =>
           /\ loaded'[w] = Head(todo'[w]).key
           /\ snap'[w] = Result(w, Head(todo[w]), shared[Head(todo[w]).key])'
  PROVE  Copies'
<1>. SUFFICES ASSUME NEW x \in Worker, x # w, pc'[x] = "store", fresh'[x]
              PROVE  /\ loaded'[x] = Head(todo'[x]).key
                     /\ snap'[x] = Result(x, Head(todo[x]), shared[Head(todo[x]).key])'
  BY DEF Copies
<1>1. pc[x] = "store" /\ fresh[x] /\ todo'[x] = todo[x] /\ gen'[x] = gen[x]
      /\ loaded'[x] = loaded[x] /\ snap'[x] = snap[x]
  OBVIOUS
<1>2. loaded[x] = Head(todo[x]).key /\ snap[x] = Result(x, Head(todo[x]), shared[Head(todo[x]).key])
  BY <1>1 DEF Typed, Copies
<1>3. Head(todo[x]).key \in Keys
  <2>1. todo[x] # <<>> /\ todo[x] \in PlainPlans \union ResetPlans
    BY <1>1 DEF Typed, Controls, Fits
  <2>. QED BY <2>1, PlanOps, OpKeys
<1>4. shared'[Head(todo[x]).key] = shared[Head(todo[x]).key]
  BY <1>1, <1>2, <1>3
<1>5. Result(x, Head(todo[x]), shared[Head(todo[x]).key])' = Result(x, Head(todo[x]), shared[Head(todo[x]).key])
  BY <1>1, <1>4 DEF Result, Configs
<1>. QED BY <1>1, <1>2, <1>5

\* The steps of w that are no operation.
HandlerStep(w) ==
  \/ Pick(w) \/ Guard(w) \/ TickLease(w) \/ SetLease(w) \/ Scan(w) \/ Decide(w) \/ Reload(w)
  \/ \E r \in Req : Arrive(w, r) \/ Succeed(w, r) \/ Fail(w, r)
  \/ \E t \in Token : ProbeOk(w, t) \/ ProbeFails(w, t)

\* Such a step writes no list, count or time, and has a plan only when it is
\* over.
Handles(w) ==
  /\ UNCHANGED <<setup, now, outAt, dropped>>
  /\ todo[w] = <<>> /\ pc[w] # "refused" /\ pc'[w] \notin {"store", "refused"}
  /\ \A x \in Worker \ {w} :
       /\ pc'[x] = pc[x] /\ todo'[x] = todo[x] /\ hand'[x] = hand[x] /\ count'[x] = count[x]
       /\ gen'[x] = gen[x] /\ loaded'[x] = loaded[x] /\ snap'[x] = snap[x]
       /\ fresh'[x] => fresh[x] /\ \A k \in Keys : k = loaded[x] => shared'[k] = shared[k]
  /\ \A k \in Keys \ {"lease"} : shared'[k] = shared[k]
  /\ gen'[w] = gen[w] \/ todo'[w] = Reset

LEMMA HandlesTyped ==
  ASSUME Typed, NEW w \in Worker, Handles(w), Controls', Requests',
         DOMAIN loaded' = Worker, DOMAIN snap' = Worker, fresh' \in [Worker -> BOOLEAN],
         DOMAIN shared' = Keys, good' \in [Token -> Nat], fails' \in [Token -> Nat]
  PROVE  Typed'
<1>1. SharedTyped'
  BY DEF Typed, SharedTyped, Handles, Keys
<1>2. Copies'
  BY CopiesKeep DEF Handles
<1>3. Histories'
  BY DEF Typed, Histories, Handles
<1>. QED BY <1>1, <1>2, <1>3 DEF Typed, Handles

\* Of a step that also leaves the copies alone.
LEMMA CalmHandles ==
  ASSUME Typed, NEW w \in Worker, Controls', UNCHANGED <<setup, now, shared, loaded, snap, fresh, outAt, dropped>>,
         todo[w] = <<>>, pc[w] # "refused", pc'[w] \notin {"store", "refused"},
         \A x \in Worker \ {w} :
           /\ pc'[x] = pc[x] /\ todo'[x] = todo[x] /\ hand'[x] = hand[x] /\ count'[x] = count[x]
           /\ gen'[x] = gen[x],
         gen'[w] = gen[w] \/ todo'[w] = Reset,
         Requests', good' \in [Token -> Nat], fails' \in [Token -> Nat]
  PROVE  Typed' /\ Handles(w)
<1>1. Handles(w)
  BY DEF Handles
<1>. QED BY <1>1, HandlesTyped DEF Typed, SharedTyped, Copies

\* A handler of w goes on to p, with the plan, about h, and has read ts and n.
Turns(w, p, plan, h, ts, n, g) ==
  /\ todo[w] = <<>> /\ pc[w] # "refused"
  /\ p \in Pcs \ {"store", "refused"} /\ h \in Hands /\ ts \in SUBSET Token /\ n \in Nat
  /\ g \in 1..Len(Configs) /\ Fits(p, plan, h, g) /\ (g = gen[w] \/ plan = Reset)
  /\ pc' = [pc EXCEPT ![w] = p] /\ todo' = [todo EXCEPT ![w] = plan]
  /\ hand' = [hand EXCEPT ![w] = h] /\ tokens' = [tokens EXCEPT ![w] = ts]
  /\ count' = [count EXCEPT ![w] = n] /\ gen' = [gen EXCEPT ![w] = g]

Calm ==
  /\ UNCHANGED <<setup, now, shared, loaded, snap, fresh, outAt, dropped>>
  /\ good' \in [Token -> Nat] /\ fails' \in [Token -> Nat] /\ Requests'

LEMMA TurnOthers ==
  ASSUME Controls, setup' = setup, NEW w \in Worker, NEW p, NEW plan, NEW h, NEW ts, NEW n, NEW g,
         Turns(w, p, plan, h, ts, n, g)
  PROVE  /\ Controls'
         /\ \A x \in Worker \ {w} :
              /\ pc'[x] = pc[x] /\ todo'[x] = todo[x] /\ hand'[x] = hand[x] /\ count'[x] = count[x]
              /\ gen'[x] = gen[x]
         /\ pc'[w] = p /\ todo'[w] = plan /\ hand'[w] = h /\ gen'[w] = g
         /\ todo[w] = <<>> /\ pc[w] # "refused" /\ p \notin {"store", "refused"}
         /\ gen'[w] = gen[w] \/ todo'[w] = Reset
<1>1. Controls'
  BY Turn DEF Turns
<1>2. /\ \A x \in Worker \ {w} :
           /\ pc'[x] = pc[x] /\ todo'[x] = todo[x] /\ hand'[x] = hand[x] /\ count'[x] = count[x]
           /\ gen'[x] = gen[x]
      /\ pc'[w] = p /\ todo'[w] = plan /\ hand'[w] = h /\ gen'[w] = g
  BY DEF Turns, Controls
<1>. QED BY <1>1, <1>2 DEF Turns

LEMMA CalmTurn ==
  ASSUME Typed, NEW w \in Worker, Calm, NEW p, NEW plan, NEW h, NEW ts, NEW n, NEW g,
         Turns(w, p, plan, h, ts, n, g)
  PROVE  Typed' /\ Handles(w)
<1>1. Controls /\ setup' = setup
  BY DEF Typed, Calm
<1>. QED BY <1>1, TurnOthers, CalmHandles DEF Calm

\* What stays is updated to itself.
LEMMA Same ==
  ASSUME NEW S, NEW f \in [Worker -> S], NEW w \in Worker
  PROVE  f = [f EXCEPT ![w] = f[w]] /\ f[w] \in S
OBVIOUS

LEMMA Standing ==
  ASSUME Typed, NEW w \in Worker
  PROVE  /\ pc[w] \notin {"run", "store"} => todo[w] = <<>>
         /\ Fits(pc[w], todo[w], hand[w], gen[w])
         /\ pc[w] \in Pcs /\ hand[w] \in Hands /\ tokens[w] \subseteq Token /\ count[w] \in Nat
         /\ gen[w] \in 1..Len(Configs)
         /\ pc = [pc EXCEPT ![w] = pc[w]] /\ todo = [todo EXCEPT ![w] = todo[w]]
         /\ hand = [hand EXCEPT ![w] = hand[w]] /\ tokens = [tokens EXCEPT ![w] = tokens[w]]
         /\ count = [count EXCEPT ![w] = count[w]] /\ gen = [gen EXCEPT ![w] = gen[w]]
<1>1. Controls
  BY DEF Typed
<1>. QED BY <1>1, Same, Zenon DEF Controls, Fits

LEMMA RequestHandles ==
  ASSUME Typed, setup' = setup, NEW w \in Worker,
         \/ Pick(w) \/ \E r \in Req : Arrive(w, r) \/ Succeed(w, r) \/ Fail(w, r)
  PROVE  Typed' /\ Handles(w)
<1>. USE Standing, Strings
<1>h. Histories /\ Requests /\ SharedTyped
  BY DEF Typed
<1>0. /\ good \in [Token -> Nat] /\ fails \in [Token -> Nat]
      /\ \A t \in Token : [fails EXCEPT ![t] = @ + 1] \in [Token -> Nat]
  BY <1>h DEF Histories
<1>1. ASSUME NEW r \in Req, Arrive(w, r) PROVE Typed' /\ Handles(w)
  <2>1. Requests'
    BY <1>1, <1>h DEF Arrive, Requests
  <2>2. Fits("pick", <<>>, r, gen[w]) /\ r \in Hands /\ "pick" \in Pcs \ {"store", "refused"}
    BY EmptyPlan DEF Fits, Hands, Pcs
  <2>3. Calm
    BY <1>0, <1>1, <2>1 DEF Arrive, history, Calm
  <2>4. Turns(w, "pick", <<>>, r, shared.avail, count[w], gen[w])
    BY <1>1, <1>h, <2>2 DEF Arrive, Reads, SharedTyped, Turns
  <2>. QED BY <2>3, <2>4, CalmTurn
<1>2. ASSUME Pick(w) PROVE Typed' /\ Handles(w)
  <2>. DEFINE pool == IF tokens[w] # {} THEN tokens[w] ELSE shared.unavail
  <2>1. PICK t \in IF pool = {} THEN {NoToken} ELSE pool :
            req' = [req EXCEPT ![hand[w]].st = "upstream", ![hand[w]].token = t]
    BY <1>2 DEF Pick
  <2>2. t \in Token \union {NoToken} /\ hand[w] \in Req
    BY <1>2, <1>h, <2>1 DEF Pick, Fits, SharedTyped
  <2>3. Requests'
    BY <1>h, <2>1, <2>2 DEF Requests
  <2>4. Fits("idle", <<>>, NoToken, gen[w]) /\ NoToken \in Hands /\ "idle" \in Pcs \ {"store", "refused"}
    BY EmptyPlan DEF Fits, Hands, Pcs
  <2>5. todo[w] = <<>> /\ pc[w] # "refused"
    BY <1>2 DEF Pick
  <2>6. Calm
    BY <1>0, <1>2, <2>3 DEF Pick, history, Calm
  <2>7. Turns(w, "idle", <<>>, NoToken, {}, 0, gen[w])
    BY <1>2, <2>4, <2>5 DEF Pick, Idle, Forget, Turns
  <2>. QED BY <2>6, <2>7, CalmTurn
<1>3. ASSUME NEW r \in Req, Succeed(w, r) PROVE Typed' /\ Handles(w)
  <2>. DEFINE t == req[r].token
  <2>1. Requests' /\ t \in Token \union {NoToken}
    BY <1>3, <1>h DEF Succeed, Requests
  <2>2. todo[w] = <<>> /\ pc[w] = "idle"
    BY <1>3 DEF Succeed
  <2>3. CASE t # NoToken /\ shared.failures[t] > 0
    <3>. DEFINE plan == <<Op("failures", "uncount", t)>>
    <3>1. t \in Token /\ plan \in PlainPlans /\ plan # <<>>
      BY <2>1, <2>3, Singles
    <3>. HIDE DEF plan, t
    <3>2. Fits("run", plan, t, gen[w]) /\ t \in Hands /\ "run" \in Pcs \ {"store", "refused"}
      BY <3>1 DEF Fits, Hands, Pcs
    <3>3. /\ hand' = [hand EXCEPT ![w] = t] /\ pc' = [pc EXCEPT ![w] = "run"]
          /\ todo' = [todo EXCEPT ![w] = plan]
          /\ UNCHANGED <<tokens, count, now, shared, loaded, snap, fresh, gen, history>>
      BY <1>3, <2>3 DEF Succeed, t, plan
    <3>4. Calm
      BY <1>0, <2>1, <3>3 DEF history, Calm
    <3>5. Turns(w, "run", plan, t, tokens[w], count[w], gen[w])
      BY <2>2, <3>2, <3>3 DEF Turns
    <3>. QED BY <3>4, <3>5, CalmTurn
  <2>4. CASE ~(t # NoToken /\ shared.failures[t] > 0)
    <3>1. UNCHANGED <<pc, todo, hand, tokens, count, now, shared, loaded, snap, fresh, gen, history>>
      BY <1>3, <2>4 DEF Succeed
    <3>2. Calm
      BY <1>0, <2>1, <3>1 DEF history, Calm
    <3>3. Turns(w, pc[w], todo[w], hand[w], tokens[w], count[w], gen[w])
      BY <2>2, <3>1 DEF Turns
    <3>. QED BY <3>2, <3>3, CalmTurn
  <2>. QED BY <2>3, <2>4
<1>4. ASSUME NEW r \in Req, Fail(w, r) PROVE Typed' /\ Handles(w)
  <2>. DEFINE t == req[r].token
  <2>1. Requests' /\ t \in Token \union {NoToken}
    BY <1>4, <1>h DEF Fail, Requests
  <2>2. todo[w] = <<>> /\ pc[w] = "idle"
    BY <1>4 DEF Fail
  <2>3. CASE t = NoToken
    <3>1. UNCHANGED <<pc, todo, hand, tokens, count, now, shared, loaded, snap, fresh, gen, history>>
      BY <1>4, <2>3 DEF Fail, history
    <3>2. Calm
      BY <1>0, <2>1, <3>1 DEF history, Calm
    <3>3. Turns(w, pc[w], todo[w], hand[w], tokens[w], count[w], gen[w])
      BY <2>2, <3>1 DEF Turns
    <3>. QED BY <3>2, <3>3, CalmTurn
  <2>4. CASE t # NoToken
    <3>1. t \in Token
      BY <2>1, <2>4
    <3>2. /\ hand' = [hand EXCEPT ![w] = t] /\ pc' = [pc EXCEPT ![w] = "guard"]
          /\ count' = [count EXCEPT ![w] = shared.failures[t]]
          /\ fails' = [fails EXCEPT ![t] = @ + 1]
          /\ UNCHANGED <<todo, tokens, now, shared, loaded, snap, fresh, gen, outAt, good, dropped>>
      BY <1>4, <2>4 DEF Fail
    <3>. HIDE DEF t
    <3>3. Fits("guard", <<>>, t, gen[w]) /\ t \in Hands /\ "guard" \in Pcs \ {"store", "refused"}
          /\ shared.failures[t] \in Nat
      BY <1>h, <3>1, EmptyPlan DEF Fits, Hands, Pcs, SharedTyped
    <3>4. fails' \in [Token -> Nat]
      BY <1>0, <3>1, <3>2
    <3>5. Calm
      BY <1>0, <2>1, <3>2, <3>4 DEF Calm
    <3>6. Turns(w, "guard", <<>>, t, tokens[w], shared.failures[t], gen[w])
      BY <2>2, <3>2, <3>3 DEF Turns
    <3>. QED BY <3>5, <3>6, CalmTurn
  <2>. QED BY <2>3, <2>4
<1>. QED BY <1>1, <1>2, <1>3, <1>4

\* A handler goes on with a plan, or is over.
LEMMA Doing ==
  ASSUME Typed, NEW w \in Worker, NEW plan \in PlainPlans, hand[w] # "reload",
         todo[w] = <<>>, pc[w] # "refused", Do(w, plan), gen' = gen
  PROVE  \/ plan = <<>> /\ Turns(w, "idle", <<>>, NoToken, {}, 0, gen[w])
         \/ plan # <<>> /\ Turns(w, "run", plan, hand[w], {}, 0, gen[w])
<1>. USE Standing, Strings
<1>1. CASE plan = <<>>
  BY <1>1, EmptyPlan DEF Do, Idle, Forget, Turns, Fits, Hands, Pcs
<1>2. CASE plan # <<>>
  BY <1>2 DEF Do, Forget, Turns, Fits, Pcs
<1>. QED BY <1>1, <1>2

LEMMA GuardPlan ==
  ASSUME Typed, NEW w \in Worker, Guard(w)
  PROVE  /\ hand[w] \in Token /\ todo[w] = <<>>
         /\ \E plan \in PlainPlans :
              /\ Do(w, plan)
              /\ \/ plan = <<>>
                 \/ plan = TakeOut(hand[w]) /\ Strikes(count[w])
                 \/ plan = <<Op("failures", "count", hand[w])>>
<1>1. hand[w] \in Token /\ todo[w] = <<>>
  BY Standing DEF Guard, Fits
<1>2. /\ <<>> \in PlainPlans /\ TakeOut(hand[w]) \in PlainPlans
      /\ <<Op("failures", "count", hand[w])>> \in PlainPlans
  BY <1>1, EmptyPlan, TakeOutPlan, Singles
<1>. QED BY <1>1, <1>2 DEF Guard

LEMMA ProbePlan ==
  ASSUME NEW w \in Worker, NEW t \in Token, ProbeOk(w, t)
  PROVE  \E plan \in PlainPlans :
           /\ plan # <<>> /\ todo' = [todo EXCEPT ![w] = plan]
           /\ \/ plan = Restore(t) /\ Enough(shared.successes[t])
              \/ plan = <<Op("successes", "count", t)>>
<1>1. /\ Restore(t) \in PlainPlans /\ Restore(t) # <<>>
      /\ <<Op("successes", "count", t)>> \in PlainPlans /\ <<Op("successes", "count", t)>> # <<>>
  BY RestorePlan, Singles
<1>. QED BY <1>1 DEF ProbeOk

\* The tokens the tick finds cooled down.
CooledOf(w) == {t \in tokens[w] : Cooldown > 0 /\ shared.since[t] # Never /\ Cooled(t)}

LEMMA DecidePlan ==
  ASSUME Typed, NEW w \in Worker, Decide(w)
  PROVE  \E ts \in Seq(CooledOf(w)) : RecoverAll(ts) \in PlainPlans /\ Do(w, RecoverAll(ts))
<1>1. CooledOf(w) \subseteq Token
  BY Standing DEF CooledOf
<1>2. IsFiniteSet(CooledOf(w))
  BY <1>1, FailoverAssumption, TokenAssumption, FS_Subset
<1>3. SetToSeq(CooledOf(w)) \in Seq(CooledOf(w))
  BY <1>2, Listed
<1>4. RecoverAll(SetToSeq(CooledOf(w))) \in PlainPlans
  BY <1>1, <1>3, RecoverPlan
<1>. QED BY <1>3, <1>4 DEF Decide, CooledOf

LEMMA PlanHandles ==
  ASSUME Typed, setup' = setup, NEW w \in Worker,
         \/ Guard(w) \/ Decide(w) \/ Reload(w)
         \/ \E t \in Token : ProbeOk(w, t) \/ ProbeFails(w, t)
  PROVE  Typed' /\ Handles(w)
<1>. USE Standing, Strings
<1>0. /\ Histories /\ Requests /\ good \in [Token -> Nat] /\ fails \in [Token -> Nat]
      /\ req' = req => Requests'
  BY DEF Typed, Histories, Requests
<1>1. ASSUME Guard(w) PROVE Typed' /\ Handles(w)
  <2>1. PICK plan \in PlainPlans : Do(w, plan)
    BY <1>1, GuardPlan
  <2>2. pc[w] = "guard" /\ hand[w] # "reload" /\ todo[w] = <<>> /\ gen' = gen
    BY <1>1, GuardPlan DEF Guard
  <2>3. Calm
    BY <1>0, <1>1 DEF Guard, Calm, history
  <2>. QED BY <2>1, <2>2, <2>3, Doing, CalmTurn
<1>2. ASSUME Decide(w) PROVE Typed' /\ Handles(w)
  <2>1. PICK plan \in PlainPlans : Do(w, plan)
    BY <1>2, DecidePlan
  <2>2. pc[w] = "decide" /\ hand[w] # "reload" /\ todo[w] = <<>> /\ gen' = gen
    BY <1>2 DEF Decide, Fits
  <2>3. Calm
    BY <1>0, <1>2 DEF Decide, Calm, history
  <2>. QED BY <2>1, <2>2, <2>3, Doing, CalmTurn
<1>3. ASSUME Reload(w) PROVE Typed' /\ Handles(w)
  <2>1. todo[w] = <<>> /\ pc[w] # "refused"
    BY <1>3 DEF Reload
  <2>2. Calm
    BY <1>0, <1>3 DEF Reload, Calm, history
  <2>3. gen[w] + 1 \in 1..Len(Configs) /\ gen[w] + 1 > 1
    BY <1>3, SetupTyped DEF Reload, Typed
  <2>4. Turns(w, "run", Reset, "reload", tokens[w], count[w], gen[w] + 1)
    BY <1>3, <2>1, <2>3, ResetPlan DEF Reload, Turns, Fits, Hands, Pcs
  <2>. QED BY <2>2, <2>4, CalmTurn
<1>4. ASSUME NEW t \in Token, ProbeOk(w, t) PROVE Typed' /\ Handles(w)
  <2>1. PICK plan \in PlainPlans : plan # <<>> /\ todo' = [todo EXCEPT ![w] = plan]
    BY <1>4, ProbePlan
  <2>2. todo[w] = <<>> /\ pc[w] # "refused"
    BY <1>4 DEF ProbeOk
  <2>3. Calm
    <3>1. good' = [good EXCEPT ![t] = good[t] + 1] /\ good[t] \in Nat
      BY <1>0, <1>4 DEF ProbeOk
    <3>2. good' \in [Token -> Nat]
      BY <1>0, <3>1
    <3>. QED BY <1>0, <1>4, <3>2 DEF ProbeOk, Calm
  <2>4. Turns(w, "run", plan, t, tokens[w], count[w], gen[w])
    BY <1>4, <2>1, <2>2 DEF ProbeOk, Turns, Fits, Hands, Pcs
  <2>. QED BY <2>3, <2>4, CalmTurn
<1>5. ASSUME NEW t \in Token, ProbeFails(w, t) PROVE Typed' /\ Handles(w)
  <2>1. Calm
    BY <1>0, <1>5 DEF ProbeFails, worker, history, Calm
  <2>2. todo[w] = <<>> /\ pc[w] = "idle"
    BY <1>5 DEF ProbeFails
  <2>3. Turns(w, pc[w], todo[w], hand[w], tokens[w], count[w], gen[w])
    BY <1>5, <2>2 DEF ProbeFails, worker, Turns
  <2>. QED BY <2>1, <2>3, CalmTurn
<1>. QED BY <1>1, <1>2, <1>3, <1>4, <1>5

LEMMA TickHandles ==
  ASSUME Typed, setup' = setup, NEW w \in Worker, TickLease(w) \/ SetLease(w) \/ Scan(w)
  PROVE  Typed' /\ Handles(w)
<1>. USE Standing, Strings
<1>0. /\ SharedTyped /\ Histories /\ Requests /\ good \in [Token -> Nat] /\ fails \in [Token -> Nat]
      /\ req' = req => Requests'
      /\ DOMAIN loaded = Worker /\ DOMAIN snap = Worker /\ fresh \in [Worker -> BOOLEAN] /\ Controls
  BY DEF Typed, Histories, Requests, Copies
<1>1. CASE Scan(w)
  <2>1. Calm
    BY <1>0, <1>1 DEF Scan, Calm, history
  <2>2. pc[w] = "scan" /\ todo[w] = <<>> /\ hand[w] = "tick" /\ gen' = gen
    BY <1>1 DEF Scan, Fits
  <2>3. CASE shared.unavail = {}
    <3>1. Turns(w, "idle", <<>>, NoToken, {}, 0, gen[w])
      BY <1>1, <2>2, <2>3, EmptyPlan DEF Scan, Idle, Forget, Turns, Fits, Hands, Pcs
    <3>. QED BY <2>1, <3>1, CalmTurn
  <2>4. CASE shared.unavail # {}
    <3>1. Turns(w, "decide", <<>>, "tick", shared.unavail, count[w], gen[w])
      BY <1>0, <1>1, <2>2, <2>4, EmptyPlan DEF Scan, Reads, Turns, Fits, Hands, Pcs, SharedTyped
    <3>. QED BY <2>1, <3>1, CalmTurn
  <2>. QED BY <2>3, <2>4
<1>2. CASE TickLease(w)
  <2>1. pc[w] = "idle" /\ todo[w] = <<>>
    BY <1>2 DEF TickLease
  <2>2. Turns(w, "lease", <<>>, "tick", tokens[w], count[w], gen[w])
    BY <1>2, <2>1, EmptyPlan DEF TickLease, Turns, Fits, Hands, Pcs
  <2>3. /\ UNCHANGED <<now, shared, snap, req, history>>
        /\ loaded' = [loaded EXCEPT ![w] = "lease"] /\ fresh' = [fresh EXCEPT ![w] = TRUE]
    BY <1>2 DEF TickLease
  <2>4. Controls' /\ Handles(w)
    BY <1>0, <2>2, <2>3, TurnOthers DEF Handles, history
  <2>. QED BY <1>0, <2>3, <2>4, HandlesTyped DEF history, SharedTyped
<1>3. CASE SetLease(w)
  <2>1. pc[w] = "lease" /\ todo[w] = <<>> /\ hand[w] = "tick" /\ UNCHANGED <<now, gen, req, history>>
    BY <1>3 DEF SetLease, Fits
  <2>2. loaded' = [loaded EXCEPT ![w] = NoToken] /\ snap' = [snap EXCEPT ![w] = NoToken]
    BY <1>3 DEF SetLease, Unload
  <2>3. CASE Stores(w)
    <3>1. Turns(w, "scan", <<>>, "tick", tokens[w], count[w], gen[w])
      BY <1>3, <2>1, <2>3, EmptyPlan DEF SetLease, Turns, Fits, Hands, Pcs
    <3>2. /\ shared' = [shared EXCEPT !["lease"] = [vm |-> w, at |-> now]]
          /\ fresh' = [x \in Worker |-> fresh[x] /\ x # w /\ loaded[x] # "lease"]
      BY <1>3, <2>3 DEF SetLease, Write
    <3>3. /\ DOMAIN shared' = Keys /\ \A k \in Keys \ {"lease"} : shared'[k] = shared[k]
          /\ fresh' \in [Worker -> BOOLEAN]
          /\ \A x \in Worker : fresh'[x] => fresh[x] /\ loaded[x] # "lease"
      BY <1>0, <3>2 DEF SharedTyped, Keys
    <3>4. Controls' /\ Handles(w)
      BY <1>0, <2>1, <2>2, <3>1, <3>3, TurnOthers DEF Handles, history
    <3>. QED BY <1>0, <2>1, <2>2, <3>3, <3>4, HandlesTyped DEF history
  <2>4. CASE ~ Stores(w)
    <3>1. Turns(w, "idle", <<>>, NoToken, {}, 0, gen[w])
      BY <1>3, <2>1, <2>4, EmptyPlan DEF SetLease, Idle, Forget, Turns, Fits, Hands, Pcs
    <3>2. shared' = shared /\ fresh' = [fresh EXCEPT ![w] = FALSE]
      BY <1>3, <2>4 DEF SetLease
    <3>3. Controls' /\ Handles(w)
      BY <1>0, <2>1, <2>2, <3>1, <3>2, TurnOthers DEF Handles, history
    <3>. QED BY <1>0, <2>1, <2>2, <3>2, <3>3, HandlesTyped DEF history, SharedTyped
  <2>. QED BY <2>3, <2>4
<1>. QED BY <1>1, <1>2, <1>3
-----------------------------------------------------------------------------
(***************************************************************************)
(* Operations.                                                             *)
(***************************************************************************)
\* What the operation at hand makes of its key.
Outcome(w) ==
  LET op == Head(todo[w])
  IN IF op.do = "clear" THEN Empty[op.key] ELSE Result(w, op, shared[op.key])

\* It has its effect (or nothing to do), is given up, is still to come, or ends
\* the handler.
Applies(w) ==
  LET op == Head(todo[w])
  IN /\ todo'[w] = Tail(todo[w]) /\ pc'[w] # "refused"
     /\ shared'[op.key] = Outcome(w) /\ \A k \in Keys \ {op.key} : shared'[k] = shared[k]
     /\ Effected(op)
     /\ IF op.key = "avail" /\ op.do \in {"add", "remove"}
          THEN Record(shared.avail, Outcome(w)) ELSE UNCHANGED <<outAt, good, fails>>
Drops(w) ==
  /\ Head(todo[w]).do \notin {"clear", "init"}
  /\ todo'[w] = Tail(todo[w]) /\ pc'[w] # "refused"
  /\ GivenUp(Head(todo[w])) /\ UNCHANGED <<shared, outAt, good, fails>>
Stays(w) == todo'[w] = todo[w] /\ pc'[w] # "refused" /\ UNCHANGED <<shared, history>>
Refuses(w) == todo'[w] = <<>> /\ pc'[w] = "refused" /\ UNCHANGED <<shared, history>>

Operates(w) ==
  /\ UNCHANGED <<setup, now, gen>>
  /\ todo[w] # <<>> /\ pc[w] \in {"run", "store"} /\ pc'[w] \in {"idle", "run", "store", "refused"}
  /\ hand'[w] = hand[w] \/ hand'[w] = NoToken
  /\ \A x \in Worker \ {w} :
       /\ pc'[x] = pc[x] /\ todo'[x] = todo[x] /\ hand'[x] = hand[x] /\ count'[x] = count[x]
       /\ loaded'[x] = loaded[x] /\ snap'[x] = snap[x]
       /\ fresh'[x] => fresh[x]
  /\ Applies(w) \/ Drops(w) \/ Stays(w) \/ Refuses(w)

\* The plan of a worker that has one, and the rest of it.
LEMMA AtHand ==
  ASSUME Typed, NEW w \in Worker, todo[w] # <<>>
  PROVE  /\ pc[w] \in {"run", "store"} /\ hand[w] \in Hands
         /\ Head(todo[w]) \in PlainOps \union ResetOps /\ Head(todo[w]).key \in Keys
         /\ hand[w] = "reload" <=> Head(todo[w]).do \in {"clear", "init"}
         /\ hand[w] = "reload" <=> Head(todo[w]) \notin PlainOps
         /\ pc[w] = "store" => Head(todo[w]).do # "clear"
         /\ Fits("run", todo[w], hand[w], gen[w])
         /\ Head(todo[w]).do # "clear" => Fits("store", todo[w], hand[w], gen[w])
         /\ Tail(todo[w]) = <<>> => Fits("idle", <<>>, NoToken, gen[w])
         /\ Tail(todo[w]) # <<>> => Fits("run", Tail(todo[w]), hand[w], gen[w])
         /\ hand[w] = "reload" => Fits("refused", <<>>, hand[w], gen[w])
<1>. DEFINE s == todo[w]
<1>1. Fits(pc[w], s, hand[w], gen[w]) /\ hand[w] \in Hands /\ pc[w] \in Pcs
  BY Standing
<1>2. /\ pc[w] \in {"run", "store"}
      /\ hand[w] = "reload" => s \in ResetPlans /\ gen[w] > 1
      /\ hand[w] # "reload" => s \in PlainPlans
  BY <1>1 DEF Fits
<1>. HIDE DEF s
<1>. USE DEF s
<1>3. /\ s \in PlainPlans => Head(s) \in PlainOps /\ Head(s).do \notin {"clear", "init"} /\ Tail(s) \in PlainPlans
      /\ s \in ResetPlans => Head(s) \in ResetOps /\ Head(s).do \in {"clear", "init"} /\ Tail(s) \in ResetPlans
  BY PlanOps, Tails
<1>4. Head(s).key \in Keys
  BY <1>2, <1>3, OpKeys
<1>5. \A o \in PlainOps : o.do \notin {"clear", "init"}
  BY DEF PlainOps
<1>. QED BY <1>1, <1>2, <1>3, <1>4, <1>5, EmptyPlan, Strings DEF Fits

LEMMA EmptyTyped ==
  /\ Empty["avail"] = {} /\ Empty["unavail"] = {} /\ Empty["failures"] = [t \in Token |-> 0]
  /\ Empty["successes"] = [t \in Token |-> 0] /\ Empty["since"] = [t \in Token |-> Never]
BY DEF Empty

LEMMA OutcomeTyped ==
  ASSUME Typed, NEW w \in Worker, todo[w] # <<>>
  PROVE  LET key == Head(todo[w]).key
         IN /\ key \in {"avail", "unavail"} => Outcome(w) \subseteq Token
            /\ key \in {"failures", "successes"} => Outcome(w) \in [Token -> Nat]
            /\ key = "since" => Outcome(w) \in [Token -> Nat \union {Never}]
<1>. DEFINE op == Head(todo[w])
<1>1. op \in PlainOps \union ResetOps
  BY AtHand
<1>2. Configs[gen[w]] \subseteq Token
  BY SetupTyped, Standing DEF Typed
<1>3. SharedTyped /\ now \in Nat
  BY DEF Typed
<1>. HIDE DEF op
<1>4. CASE op.do = "clear"
  <2>1. Outcome(w) = Empty[op.key]
    BY <1>4 DEF Outcome, op
  <2>. QED BY <2>1, EmptyTyped DEF op
<1>5. CASE op.do # "clear"
  <2>1. Outcome(w) = Result(w, op, shared[op.key])
    BY <1>5 DEF Outcome, op
  <2>2. CASE op.key \in {"avail", "unavail"}
    <3>1. op.do = "init" \/ (op.do \in {"add", "remove"} /\ op.token \in Token)
      BY <1>1, <1>5, <2>2 DEF PlainOps, ResetOps, Op
    <3>2. Outcome(w) \subseteq Token
      BY <1>2, <1>3, <2>1, <2>2, <3>1 DEF Result, SharedTyped
    <3>. QED BY <2>2, <3>2 DEF op
  <2>3. CASE op.key \in {"failures", "successes"}
    <3>1. op.do \in {"count", "uncount"} /\ op.token \in Token
      BY <1>1, <1>5, <2>3 DEF PlainOps, ResetOps, Op
    <3>2. shared[op.key] \in [Token -> Nat]
      BY <1>3, <2>3 DEF SharedTyped
    <3>3. Outcome(w) \in [Token -> Nat]
      BY <2>1, <3>1, <3>2 DEF Result
    <3>. QED BY <2>3, <3>3 DEF op
  <2>4. CASE op.key = "since"
    <3>1. op.do \in {"stamp", "unstamp"} /\ op.token \in Token
      BY <1>1, <1>5, <2>4 DEF PlainOps, ResetOps, Op
    <3>2. shared[op.key] \in [Token -> Nat \union {Never}]
      BY <1>3, <2>4 DEF SharedTyped
    <3>3. Outcome(w) \in [Token -> Nat \union {Never}]
      BY <1>3, <2>1, <3>1, <3>2 DEF Result
    <3>. QED BY <2>4, <3>3 DEF op
  <2>. QED BY <2>2, <2>3, <2>4 DEF op
<1>. QED BY <1>4, <1>5

\* An operation with nothing to do writes what is there, and that is no event.
LEMMA NothingToDo ==
  ASSUME Typed, NEW w \in Worker, todo[w] # <<>>, Noop(Head(todo[w]), shared[Head(todo[w]).key]),
         UNCHANGED <<shared, outAt, good, fails>>
  PROVE  /\ shared'[Head(todo[w]).key] = Outcome(w)
         /\ LET op == Head(todo[w])
            IN IF op.key = "avail" /\ op.do \in {"add", "remove"}
                 THEN Record(shared.avail, Outcome(w)) ELSE UNCHANGED <<outAt, good, fails>>
<1>. DEFINE op == Head(todo[w])
<1>1. op \in PlainOps \union ResetOps /\ op.do \in {"add", "remove", "unstamp"}
  BY AtHand DEF Noop
<1>2. SharedTyped /\ Histories
  BY DEF Typed
<1>. HIDE DEF op
<1>3. Outcome(w) = Result(w, op, shared[op.key]) /\ Noop(op, shared[op.key])
  BY <1>1 DEF Outcome, op
<1>4. op.do = "unstamp" => op.key = "since"
  BY <1>1 DEF PlainOps, ResetOps, Op
<1>5. op.do \in {"add", "remove"} => op.key \in {"avail", "unavail"}
  BY <1>1 DEF PlainOps, ResetOps, Op
<1>6. op.do = "unstamp" => shared[op.key] = [shared[op.key] EXCEPT ![op.token] = Never]
  BY <1>2, <1>3, <1>4 DEF Noop, SharedTyped
<1>7. Outcome(w) = shared[op.key]
  BY <1>1, <1>3, <1>5, <1>6 DEF Result, Noop
<1>8. Record(shared.avail, shared.avail)
  <2>1. outAt = [t \in Token |-> outAt[t]] /\ good = [t \in Token |-> good[t]] /\ fails = [t \in Token |-> fails[t]]
    BY <1>2 DEF Histories
  <2>. QED BY <2>1 DEF Record
<1>. QED BY <1>7, <1>8 DEF op

LEMMA WriteShared ==
  ASSUME Typed, NEW key \in Keys, NEW v, shared' = [shared EXCEPT ![key] = v]
  PROVE  DOMAIN shared' = Keys /\ shared'[key] = v /\ \A k \in Keys \ {key} : shared'[k] = shared[k]
BY DEF Typed, SharedTyped

\* The rest of a plan.
LEMMA Popping ==
  ASSUME Typed, setup' = setup, gen' = gen, NEW w \in Worker, todo[w] # <<>>, Next1(w)
  PROVE  /\ Controls' /\ todo'[w] = Tail(todo[w]) /\ pc'[w] \in {"idle", "run"}
         /\ hand'[w] \in {hand[w], NoToken}
         /\ \A x \in Worker \ {w} :
              /\ pc'[x] = pc[x] /\ todo'[x] = todo[x] /\ hand'[x] = hand[x] /\ count'[x] = count[x]
<1>. DEFINE p == IF Tail(todo[w]) = <<>> THEN "idle" ELSE "run"
            h == IF Tail(todo[w]) = <<>> THEN NoToken ELSE hand[w]
<1>. USE Standing
<1>1. /\ pc' = [pc EXCEPT ![w] = p] /\ todo' = [todo EXCEPT ![w] = Tail(todo[w])]
      /\ hand' = [hand EXCEPT ![w] = h] /\ tokens' = [tokens EXCEPT ![w] = tokens[w]]
      /\ count' = [count EXCEPT ![w] = count[w]] /\ gen' = [gen EXCEPT ![w] = gen[w]]
  BY DEF Next1
<1>2. p \in Pcs /\ h \in Hands /\ Fits(p, Tail(todo[w]), h, gen[w])
  BY AtHand DEF Pcs, Hands
<1>3. Controls
  BY DEF Typed
<1>4. Controls'
  <2>. HIDE DEF p, h
  <2>. QED BY <1>1, <1>2, <1>3, Turn
<1>5. p \in {"idle", "run"} /\ h \in {hand[w], NoToken}
  OBVIOUS
<1>6. /\ todo'[w] = Tail(todo[w]) /\ pc'[w] = p /\ hand'[w] = h
      /\ \A x \in Worker \ {w} :
           /\ pc'[x] = pc[x] /\ todo'[x] = todo[x] /\ hand'[x] = hand[x] /\ count'[x] = count[x]
  <2>. HIDE DEF p, h
  <2>. QED BY <1>1, <1>3, Zenon DEF Controls
<1>. QED BY <1>4, <1>5, <1>6

LEMMA LoadOperates ==
  ASSUME Typed, setup' = setup, NEW w \in Worker, Load(w)
  PROVE  Typed' /\ Operates(w)
<1>. DEFINE op == Head(todo[w])
<1>1. pc[w] = "run" /\ todo[w] # <<>> /\ op.do # "clear"
      /\ UNCHANGED <<now, shared, gen, req, outAt, good, fails>>
  BY Standing DEF Load, Fits
<1>2. op \in PlainOps \union ResetOps /\ op.key \in Keys
  BY <1>1, AtHand
<1>. HIDE DEF op
<1>3. SharedTyped' /\ Histories' /\ Requests' /\ Controls /\ Copies
  BY <1>1 DEF Typed, SharedTyped, Histories, Requests
<1>4. CASE Noop(op, shared[op.key])
  <2>1. Next1(w) /\ Effected(op) /\ UNCHANGED <<loaded, snap, fresh>>
    BY <1>4, <1>1 DEF Load, op
  <2>2. /\ Controls' /\ todo'[w] = Tail(todo[w]) /\ pc'[w] \in {"idle", "run"}
        /\ hand'[w] \in {hand[w], NoToken}
        /\ \A x \in Worker \ {w} :
             /\ pc'[x] = pc[x] /\ todo'[x] = todo[x] /\ hand'[x] = hand[x] /\ count'[x] = count[x]
    BY <1>1, <2>1, Popping
  <2>3. Applies(w)
    BY <1>1, <1>4, <2>1, <2>2, NothingToDo DEF Applies, op
  <2>4. Operates(w)
    BY <1>1, <2>1, <2>2, <2>3 DEF Operates
  <2>5. Copies'
    BY <1>1, <1>3, <2>1, <2>2, CopiesKeep DEF Copies
  <2>. QED BY <1>1, <1>3, <2>2, <2>4, <2>5 DEF Typed
<1>5. CASE ~ Noop(op, shared[op.key])
  <2>1. /\ loaded' = [loaded EXCEPT ![w] = op.key]
        /\ snap' = [snap EXCEPT ![w] = Result(w, op, shared[op.key])]
        /\ fresh' = [fresh EXCEPT ![w] = TRUE]
        /\ pc' = [pc EXCEPT ![w] = "store"]
        /\ UNCHANGED <<todo, hand, tokens, count, dropped>>
    BY <1>1, <1>5 DEF Load, op
  <2>2. Controls'
    <3>1. Fits("store", todo[w], hand[w], gen[w]) /\ "store" \in Pcs
      BY <1>1, AtHand DEF Pcs, op
    <3>2. /\ todo' = [todo EXCEPT ![w] = todo[w]] /\ hand' = [hand EXCEPT ![w] = hand[w]]
          /\ tokens' = [tokens EXCEPT ![w] = tokens[w]] /\ count' = [count EXCEPT ![w] = count[w]]
          /\ gen' = [gen EXCEPT ![w] = gen[w]]
      BY <1>1, <2>1, Standing
    <3>3. /\ hand[w] \in Hands /\ tokens[w] \in SUBSET Token /\ count[w] \in Nat
          /\ gen[w] \in 1..Len(Configs)
      BY Standing
    <3>. DEFINE p == "store"
    <3>4. p \in Pcs /\ Fits(p, todo[w], hand[w], gen[w]) /\ pc' = [pc EXCEPT ![w] = p]
      BY <2>1, <3>1
    <3>. HIDE DEF p
    <3>. QED BY <1>3, <3>2, <3>3, <3>4, Turn
  <2>3. /\ pc'[w] = "store"
        /\ \A x \in Worker \ {w} : pc'[x] = pc[x] /\ loaded'[x] = loaded[x] /\ snap'[x] = snap[x] /\ fresh'[x] = fresh[x]
        /\ DOMAIN loaded' = Worker /\ DOMAIN snap' = Worker /\ fresh' \in [Worker -> BOOLEAN]
        /\ loaded'[w] = op.key /\ snap'[w] = Result(w, op, shared[op.key])
    BY <1>3, <2>1 DEF Controls, Copies
  <2>4. Stays(w) /\ Operates(w)
    BY <1>1, <2>1, <2>3 DEF Stays, Operates, history
  <2>5. Result(w, op, shared[op.key])' = Result(w, op, shared[op.key])
    BY <1>1, <2>1 DEF Result, Configs, op
  <2>6. Copies'
    BY <1>1, <2>1, <2>3, <2>5, CopiesKeep DEF op
  <2>. QED BY <1>1, <1>3, <2>2, <2>4, <2>6 DEF Typed
<1>. QED BY <1>4, <1>5

\* The history stays typed.
LEMMA Recorded ==
  ASSUME Typed, now' = now, NEW old, NEW new,
         Record(old, new) \/ UNCHANGED <<outAt, good, fails>>
  PROVE  Histories'
<1>1. Histories /\ now \in Nat
  BY DEF Typed
<1>2. CASE Record(old, new)
  BY <1>1, <1>2 DEF Record, Histories
<1>3. CASE UNCHANGED <<outAt, good, fails>>
  BY <1>1, <1>3 DEF Histories
<1>. QED BY <1>2, <1>3

\* A write of the outcome of the operation at hand.
LEMMA Writing ==
  ASSUME Typed, UNCHANGED <<setup, now, gen, req>>, NEW w \in Worker, todo[w] # <<>>,
         Write(w, Head(todo[w]).key, Outcome(w)), Next1(w), Effected(Head(todo[w])),
         DOMAIN loaded' = Worker, DOMAIN snap' = Worker,
         \A x \in Worker \ {w} : loaded'[x] = loaded[x] /\ snap'[x] = snap[x],
         LET op == Head(todo[w])
         IN IF op.key = "avail" /\ op.do \in {"add", "remove"}
              THEN Record(shared.avail, Outcome(w)) ELSE UNCHANGED <<outAt, good, fails>>
  PROVE  Typed' /\ Operates(w)
<1>. DEFINE key == Head(todo[w]).key
<1>1. key \in Keys /\ pc[w] \in {"run", "store"}
  BY AtHand
<1>2. /\ Controls' /\ todo'[w] = Tail(todo[w]) /\ pc'[w] \in {"idle", "run"}
      /\ hand'[w] \in {hand[w], NoToken}
      /\ \A x \in Worker \ {w} :
           /\ pc'[x] = pc[x] /\ todo'[x] = todo[x] /\ hand'[x] = hand[x] /\ count'[x] = count[x]
  BY Popping
<1>3. DOMAIN shared' = Keys /\ shared'[key] = Outcome(w) /\ \A k \in Keys \ {key} : shared'[k] = shared[k]
  BY <1>1, WriteShared DEF Write
<1>4. SharedTyped'
  <2>1. /\ key \in {"avail", "unavail"} => Outcome(w) \subseteq Token
        /\ key \in {"failures", "successes"} => Outcome(w) \in [Token -> Nat]
        /\ key = "since" => Outcome(w) \in [Token -> Nat \union {Never}]
    BY OutcomeTyped
  <2>. HIDE DEF key
  <2>. QED BY <1>3, <2>1 DEF Typed, SharedTyped, Keys
<1>5. /\ fresh' \in [Worker -> BOOLEAN] /\ ~ fresh'[w]
      /\ \A x \in Worker : fresh'[x] => fresh[x] /\ loaded[x] # key
  <2>1. fresh' = [x \in Worker |-> fresh[x] /\ x # w /\ loaded[x] # key] /\ fresh \in [Worker -> BOOLEAN]
    BY DEF Write, Typed, Copies
  <2>. HIDE DEF key
  <2>. QED BY <2>1
<1>6. Histories'
  BY Recorded, Zenon
<1>7. Requests'
  BY DEF Typed, Requests
<1>8. Applies(w)
  BY <1>2, <1>3 DEF Applies
<1>9. Operates(w)
  BY <1>1, <1>2, <1>5, <1>8 DEF Operates
<1>10. Copies'
  BY <1>2, <1>3, <1>5, CopiesKeep
<1>. QED BY <1>2, <1>4, <1>6, <1>7, <1>9, <1>10 DEF Typed

LEMMA ClearOperates ==
  ASSUME Typed, setup' = setup, NEW w \in Worker, Clear(w)
  PROVE  Typed' /\ Operates(w)
<1>1. /\ Head(todo[w]).do = "clear" /\ todo[w] # <<>> /\ Next1(w)
      /\ UNCHANGED <<now, loaded, snap, gen, req, history>>
  BY Standing DEF Clear, Fits
<1>2. Write(w, Head(todo[w]).key, Outcome(w))
  BY <1>1 DEF Clear, Outcome
<1>3. Effected(Head(todo[w]))
  BY <1>1 DEF Effected, history
<1>4. DOMAIN loaded = Worker /\ DOMAIN snap = Worker
  BY DEF Typed, Copies
<1>. QED BY <1>1, <1>2, <1>3, <1>4, Writing DEF history

LEMMA StoreOperates ==
  ASSUME Typed, setup' = setup, NEW w \in Worker, Store(w)
  PROVE  Typed' /\ Operates(w)
<1>. DEFINE op == Head(todo[w])
<1>1. /\ pc[w] = "store" /\ todo[w] # <<>> /\ UNCHANGED <<setup, now, gen, req>>
      /\ loaded' = [loaded EXCEPT ![w] = NoToken] /\ snap' = [snap EXCEPT ![w] = NoToken]
  BY Standing DEF Store, Fits, Unload
<1>2. op \in PlainOps \union ResetOps /\ op.key \in Keys /\ (hand[w] = "reload" <=> op.do \in {"clear", "init"})
  BY <1>1, AtHand
<1>. HIDE DEF op
<1>3. /\ SharedTyped /\ Controls /\ Copies /\ Histories
      /\ UNCHANGED shared => SharedTyped'
      /\ UNCHANGED <<outAt, good, fails>> => Histories'
      /\ Requests'
  BY <1>1 DEF Typed, SharedTyped, Requests, Histories
<1>4. /\ DOMAIN loaded' = Worker /\ DOMAIN snap' = Worker
      /\ \A x \in Worker \ {w} : loaded'[x] = loaded[x] /\ snap'[x] = snap[x]
  BY <1>1, <1>3 DEF Copies
<1>5. CASE Stores(w)
  <2>1. /\ Write(w, op.key, snap[w]) /\ Next1(w) /\ Effected(op)
        /\ IF op.key = "avail" /\ op.do # "init"
             THEN Record(shared.avail, snap[w]) ELSE UNCHANGED <<outAt, good, fails>>
    BY <1>5 DEF Store, op
  <2>2. loaded[w] = op.key /\ snap[w] = Result(w, op, shared[op.key])
    BY <1>1, <1>3, <1>5 DEF Copies, Stores, op
  <2>3. Outcome(w) = snap[w]
    BY <1>1, <2>2, AtHand DEF Outcome, op
  <2>4. op.key = "avail" => op.do \in {"add", "remove", "init", "clear"}
    BY <1>2 DEF PlainOps, ResetOps, Op
  <2>5. op.do # "clear"
    BY <1>1, AtHand DEF op
  <2>6. IF op.key = "avail" /\ op.do \in {"add", "remove"}
          THEN Record(shared.avail, snap[w]) ELSE UNCHANGED <<outAt, good, fails>>
    BY <2>1, <2>4, <2>5
  <2>. QED BY <1>1, <1>4, <2>1, <2>3, <2>6, Writing DEF op
<1>6. CASE ~ Stores(w)
  <2>1. /\ fresh' = [fresh EXCEPT ![w] = FALSE] /\ shared' = shared /\ UNCHANGED <<outAt, good, fails>>
        /\ \/ /\ op.do # "init" /\ pc' = [pc EXCEPT ![w] = "run"]
              /\ UNCHANGED <<todo, hand, tokens, count, dropped>>
           \/ op.do # "init" /\ Next1(w) /\ GivenUp(op)
           \/ /\ op.do = "init" /\ pc' = [pc EXCEPT ![w] = "refused"]
              /\ todo' = [todo EXCEPT ![w] = <<>>]
              /\ UNCHANGED <<hand, tokens, count, dropped>>
    BY <1>6 DEF Store, op, history
  <2>2. fresh' \in [Worker -> BOOLEAN] /\ ~ fresh'[w] /\ \A x \in Worker : fresh'[x] => fresh[x]
    BY <1>3, <2>1 DEF Copies
  <2>3. ASSUME Controls', Drops(w) \/ Stays(w) \/ Refuses(w),
               pc'[w] \in {"idle", "run", "refused"}, hand'[w] \in {hand[w], NoToken},
               \A x \in Worker \ {w} :
                 /\ pc'[x] = pc[x] /\ todo'[x] = todo[x] /\ hand'[x] = hand[x] /\ count'[x] = count[x]
        PROVE  Typed' /\ Operates(w)
    <3>1. Operates(w)
      BY <1>1, <1>4, <2>2, <2>3 DEF Operates
    <3>2. Copies'
      BY <1>1, <1>4, <2>1, <2>2, <2>3, CopiesKeep
    <3>. QED BY <1>1, <1>3, <2>1, <2>3, <3>1, <3>2 DEF Typed
  <2>4. CASE op.do # "init" /\ Next1(w) /\ GivenUp(op)
    <3>1. /\ Controls' /\ todo'[w] = Tail(todo[w]) /\ pc'[w] \in {"idle", "run"}
          /\ hand'[w] \in {hand[w], NoToken}
          /\ \A x \in Worker \ {w} :
               /\ pc'[x] = pc[x] /\ todo'[x] = todo[x] /\ hand'[x] = hand[x] /\ count'[x] = count[x]
      BY <1>1, <2>4, Popping
    <3>2. Drops(w)
      BY <1>1, <2>1, <2>4, <3>1, AtHand DEF Drops, op
    <3>. QED BY <2>3, <3>1, <3>2
  <2>5. ASSUME NEW p \in {"run", "refused"}, NEW plan \in {todo[w], <<>>},
               pc' = [pc EXCEPT ![w] = p], todo' = [todo EXCEPT ![w] = plan],
               Fits(p, plan, hand[w], gen[w]), UNCHANGED <<hand, tokens, count>>,
               Stays(w) \/ Refuses(w)
        PROVE  Typed' /\ Operates(w)
    <3>1. /\ hand' = [hand EXCEPT ![w] = hand[w]] /\ p \in Pcs
          /\ tokens' = [tokens EXCEPT ![w] = tokens[w]] /\ count' = [count EXCEPT ![w] = count[w]]
          /\ gen' = [gen EXCEPT ![w] = gen[w]]
          /\ hand[w] \in Hands /\ tokens[w] \in SUBSET Token /\ count[w] \in Nat
          /\ gen[w] \in 1..Len(Configs)
          /\ pc' = [pc EXCEPT ![w] = p] /\ todo' = [todo EXCEPT ![w] = plan]
          /\ setup' = setup /\ Fits(p, plan, hand[w], gen[w])
      BY <1>1, <2>5, Standing DEF Pcs
    <3>2. Controls'
      BY <1>3, <3>1, Turn
    <3>3. /\ pc'[w] = p /\ hand'[w] = hand[w]
          /\ \A x \in Worker \ {w} :
               /\ pc'[x] = pc[x] /\ todo'[x] = todo[x] /\ hand'[x] = hand[x] /\ count'[x] = count[x]
      BY <1>3, <2>5 DEF Controls
    <3>. QED BY <2>3, <2>5, <3>2, <3>3
  <2>6. CASE /\ op.do # "init" /\ pc' = [pc EXCEPT ![w] = "run"]
             /\ UNCHANGED <<todo, hand, tokens, count, dropped>>
    <3>1. todo' = [todo EXCEPT ![w] = todo[w]] /\ Fits("run", todo[w], hand[w], gen[w])
      BY <1>1, <2>6, AtHand, Standing
    <3>2. Stays(w)
      BY <1>3, <2>1, <2>6 DEF Stays, history, Controls
    <3>. QED BY <2>5, <2>6, <3>1, <3>2
  <2>7. CASE /\ op.do = "init" /\ pc' = [pc EXCEPT ![w] = "refused"]
             /\ todo' = [todo EXCEPT ![w] = <<>>]
             /\ UNCHANGED <<hand, tokens, count, dropped>>
    <3>1. Fits("refused", <<>>, hand[w], gen[w])
      BY <1>1, <1>2, <2>7, AtHand
    <3>2. Refuses(w)
      BY <1>3, <2>1, <2>7 DEF Refuses, history, Controls
    <3>. QED BY <2>5, <2>7, <3>1, <3>2
  <2>. QED BY <2>1, <2>4, <2>6, <2>7
<1>. QED BY <1>5, <1>6
-----------------------------------------------------------------------------
(***************************************************************************)
(* Every step.                                                             *)
(***************************************************************************)
\* Time passes, or nothing does.
Rests ==
  /\ UNCHANGED <<setup, shared, worker, req, history>>
  /\ now' \in Nat /\ now' >= now
  /\ now' = now \/ \A w \in Worker : pc[w] \in {"idle", "refused"}

LEMMA RestsTyped ==
  ASSUME Typed, Rests
  PROVE  Typed'
<1>. USE DEF Typed, Rests, worker, history
<1>1. SharedTyped' /\ Requests'
  BY DEF SharedTyped, Requests
<1>2. Controls'
  BY DEF Controls, Configs
<1>3. Histories'
  <2>1. /\ outAt \in [Token -> Nat \union {Never}] /\ good \in [Token -> Nat] /\ fails \in [Token -> Nat]
        /\ \A t \in Token : outAt[t] <= now /\ outAt[t] \in Int
    BY DEF Histories, Never
  <2>2. now \in Int /\ now' \in Int /\ now' >= now
    OBVIOUS
  <2>3. \A t \in Token : outAt[t] <= now'
    BY <2>1, <2>2
  <2>. QED BY <2>1, <2>3 DEF Histories
<1>4. Copies'
  <2>1. now' = now \/ \A w \in Worker : pc[w] # "store"
    OBVIOUS
  <2>2. CASE now' = now
    BY <2>2 DEF Copies, Result, Configs
  <2>3. CASE \A w \in Worker : pc[w] # "store"
    BY <2>3 DEF Copies
  <2>. QED BY <2>1, <2>2, <2>3
<1>. QED BY <1>1, <1>2, <1>3, <1>4

LEMMA StepTyped ==
  ASSUME Typed, [Next]_vars
  PROVE  /\ Typed' /\ setup' = setup
         /\ Rests \/ \E w \in Worker : (HandlerStep(w) /\ Handles(w)) \/ Operates(w)
<1>1. CASE UNCHANGED vars
  <2>1. Rests
    BY <1>1 DEF Typed, Rests, vars, worker, history
  <2>2. setup' = setup
    BY <1>1 DEF vars
  <2>. QED BY <2>1, <2>2, RestsTyped
<1>2. CASE Step /\ setup' = setup
  <2>1. CASE Tick
    <3>1. Rests
      BY <1>2, <2>1 DEF Tick, Typed, Rests
    <3>. QED BY <1>2, <3>1, RestsTyped
  <2>2. CASE ~ Tick
    <3>1. PICK w \in Worker : Load(w) \/ Store(w) \/ Clear(w) \/ HandlerStep(w)
      BY <1>2, <2>2, Zenon DEF Step, HandlerStep
    <3>2. CASE HandlerStep(w)
      BY <1>2, <3>2, RequestHandles, PlanHandles, TickHandles, Zenon DEF HandlerStep
    <3>. QED BY <1>2, <3>1, <3>2, LoadOperates, StoreOperates, ClearOperates
  <2>. QED BY <2>1, <2>2
<1>. QED BY <1>1, <1>2 DEF Next, Stopped

LEMMA AlwaysTyped == Spec => []Typed
<1>1. Typed /\ [Next]_vars => Typed'
  BY StepTyped
<1>. QED BY <1>1, InitTyped, PTL DEF Spec
-----------------------------------------------------------------------------
(***************************************************************************)
(* No token is lost.                                                       *)
(***************************************************************************)
\* Somebody will put the token into a list.
Coming(t) ==
  \E w \in Worker : \E i \in 1..Len(todo[w]) :
    todo[w][i].do = "init" \/ (todo[w][i].do = "add" /\ todo[w][i].token = t)

Outdated == \E w \in Worker : gen[w] # Len(Configs) \/ pc[w] = "refused"

Kept ==
  \A t \in Configs[Len(Configs)] :
    t \in shared.avail \union shared.unavail \union dropped \/ Coming(t) \/ Outdated

LEMMA PlanOrder ==
  ASSUME Typed, NEW w \in Worker
  PROVE  Orderly(todo[w]) /\ Len(todo[w]) \in Nat /\ todo[w] \in Seq(PlainOps \union ResetOps)
<1>1. todo[w] \in PlainPlans \union ResetPlans
  BY DEF Typed, Controls
<1>. QED BY <1>1 DEF PlainPlans, ResetPlans

\* What is to come after the operation at hand.
LEMMA RestComing ==
  ASSUME Typed, NEW w \in Worker, NEW t, todo'[w] = Tail(todo[w]), NEW i \in 2..Len(todo[w]),
         todo[w][i].do = "init" \/ (todo[w][i].do = "add" /\ todo[w][i].token = t)
  PROVE  Coming(t)'
<1>1. Tail(todo[w])[i - 1] = todo[w][i] /\ i - 1 \in 1..Len(Tail(todo[w]))
  BY PlanOrder
<1>. QED BY <1>1 DEF Coming

LEMMA HandlesKeep ==
  ASSUME Typed, Kept, NEW w \in Worker, Handles(w)
  PROVE  Kept'
<1>1. Configs' = Configs
  BY DEF Handles, Configs
<1>. SUFFICES ASSUME NEW t \in Configs[Len(Configs)]
              PROVE  t \in (shared.avail \union shared.unavail \union dropped)' \/ Coming(t)' \/ Outdated'
  BY <1>1 DEF Kept
<1>2. shared'.avail = shared.avail /\ shared'.unavail = shared.unavail /\ dropped' = dropped
  BY DEF Handles, Keys
<1>3. Coming(t) => Coming(t)'
  BY EmptyPlan DEF Coming, Handles
<1>4. Reset[7].do = "init" /\ 7 \in 1..Len(Reset)
  BY DEF Reset, Op
<1>5. Outdated => Outdated' \/ Coming(t)'
  BY <1>1, <1>4 DEF Outdated, Handles, Coming
<1>. QED BY <1>2, <1>3, <1>5 DEF Kept

LEMMA OperatesKeep ==
  ASSUME Typed, Kept, NEW w \in Worker, Operates(w)
  PROVE  Kept'
<1>. DEFINE op == Head(todo[w])
<1>1. Configs' = Configs
  BY DEF Operates, Configs
<1>. SUFFICES ASSUME NEW t \in Configs[Len(Configs)]
              PROVE  t \in (shared.avail \union shared.unavail \union dropped)' \/ Coming(t)' \/ Outdated'
  BY <1>1 DEF Kept
<1>2. todo[w] # <<>> /\ Orderly(todo[w]) /\ Len(todo[w]) \in Nat /\ todo[w] \in Seq(PlainOps \union ResetOps)
  BY PlanOrder DEF Operates
<1>3. op = todo[w][1] /\ 1 \in 1..Len(todo[w]) /\ op \in PlainOps \union ResetOps
  BY <1>2
<1>. HIDE DEF op
<1>4. Outdated => Outdated'
  BY <1>1 DEF Outdated, Operates
<1>5. Refuses(w) => Outdated'
  BY DEF Refuses, Outdated
<1>6. ASSUME NEW x \in Worker, x # w, NEW i \in 1..Len(todo[x]),
             todo[x][i].do = "init" \/ (todo[x][i].do = "add" /\ todo[x][i].token = t)
      PROVE  Coming(t)'
  BY <1>6 DEF Operates, Coming
<1>7. CASE Stays(w)
  <2>1. Coming(t) => Coming(t)'
    BY <1>6, <1>7 DEF Coming, Stays
  <2>. QED BY <1>4, <1>7, <2>1 DEF Kept, Stays, history
<1>8. CASE Drops(w)
  <2>1. /\ todo'[w] = Tail(todo[w]) /\ op.do # "init" /\ shared' = shared
        /\ dropped' = IF op.do = "add" THEN dropped \union {op.token} ELSE dropped
    BY <1>8 DEF Drops, GivenUp, op
  <2>2. ASSUME NEW i \in 1..Len(todo[w]),
               todo[w][i].do = "init" \/ (todo[w][i].do = "add" /\ todo[w][i].token = t)
        PROVE  Coming(t)' \/ t \in dropped'
    <3>1. CASE i = 1
      BY <1>3, <2>1, <2>2, <3>1
    <3>2. CASE i # 1
      BY <1>2, <2>1, <2>2, <3>2, RestComing
    <3>. QED BY <3>1, <3>2
  <2>3. Coming(t) => Coming(t)' \/ t \in dropped'
    BY <1>6, <2>2 DEF Coming
  <2>. QED BY <1>4, <2>1, <2>3 DEF Kept
<1>9. CASE Applies(w)
  <2>1. /\ todo'[w] = Tail(todo[w])
        /\ shared'[op.key] = Outcome(w) /\ \A k \in Keys \ {op.key} : shared'[k] = shared[k]
        /\ dropped' = CASE op.do = "add"  -> dropped \ {op.token}
                        [] op.do = "init" -> {}
                        [] OTHER          -> dropped
    BY <1>9 DEF Applies, Effected, op
  <2>2. /\ op.do # "clear" => Outcome(w) = Result(w, op, shared[op.key])
        /\ op.do \in {"add", "remove", "init"} => op.key \in {"avail", "unavail"}
        /\ op.do = "init" => op.key = "avail"
        /\ op.do \notin {"add", "remove", "init", "clear"} => op.key \notin {"avail", "unavail"}
        /\ op.key \in Keys
    BY <1>2, <1>3, AtHand DEF Outcome, PlainOps, ResetOps, Op, op
  <2>3. ASSUME Coming(t)
        PROVE  Coming(t)' \/ op.do = "init" \/ (op.do = "add" /\ op.token = t)
    <3>1. ASSUME NEW i \in 1..Len(todo[w]),
                 todo[w][i].do = "init" \/ (todo[w][i].do = "add" /\ todo[w][i].token = t)
          PROVE  Coming(t)' \/ op.do = "init" \/ (op.do = "add" /\ op.token = t)
      <4>1. CASE i = 1
        BY <1>3, <3>1, <4>1
      <4>2. CASE i # 1
        BY <1>2, <2>1, <3>1, <4>2, RestComing
      <4>. QED BY <4>1, <4>2
    <3>. QED BY <1>6, <2>3, <3>1 DEF Coming
  <2>4. CASE op.do = "add"
    <3>1. /\ shared'[op.key] = shared[op.key] \union {op.token} /\ op.key \in {"avail", "unavail"}
          /\ dropped' = dropped \ {op.token}
      BY <2>1, <2>2, <2>4 DEF Result
    <3>2. /\ shared.avail \union shared.unavail \subseteq shared'.avail \union shared'.unavail
          /\ op.token \in shared'.avail \union shared'.unavail
      BY <2>1, <3>1 DEF Keys
    <3>. QED BY <1>4, <2>3, <2>4, <3>1, <3>2 DEF Kept
  <2>5. CASE op.do = "remove"
    <3>1. /\ shared'[op.key] = shared[op.key] \ {op.token} /\ op.key \in {"avail", "unavail"}
          /\ dropped' = dropped
      BY <2>1, <2>2, <2>5 DEF Result
    <3>2. shared.avail \union shared.unavail \subseteq shared'.avail \union shared'.unavail \union {op.token}
      BY <2>1, <3>1 DEF Keys
    <3>3. op.token = t => Coming(t)'
      <4>1. \E j \in (1 + 1)..Len(todo[w]) : todo[w][j].do = "add" /\ todo[w][j].token = op.token
        BY <1>2, <1>3, <2>5 DEF Orderly
      <4>. QED BY <2>1, <4>1, RestComing
    <3>. QED BY <1>4, <2>3, <2>5, <3>1, <3>2, <3>3 DEF Kept
  <2>6. CASE op.do = "init"
    <3>1. shared'.avail = Configs[gen[w]]
      BY <2>1, <2>2, <2>6 DEF Result
    <3>2. gen[w] # Len(Configs) => Outdated'
      BY <1>1 DEF Outdated, Operates
    <3>. QED BY <3>1, <3>2
  <2>7. CASE op.do = "clear"
    <3>1. \E j \in (1 + 1)..Len(todo[w]) : todo[w][j].do = "init"
      BY <1>2, <1>3, <2>7 DEF Orderly
    <3>. QED BY <2>1, <3>1, RestComing
  <2>8. CASE op.do \notin {"add", "remove", "init", "clear"}
    <3>1. shared'.avail = shared.avail /\ shared'.unavail = shared.unavail /\ dropped' = dropped
      BY <2>1, <2>2, <2>8 DEF Keys
    <3>. QED BY <1>4, <2>3, <2>8, <3>1 DEF Kept
  <2>. QED BY <2>4, <2>5, <2>6, <2>7, <2>8
<1>. QED BY <1>5, <1>7, <1>8, <1>9 DEF Operates

LEMMA StepKept == Typed /\ Kept /\ [Next]_vars => Kept'
<1>. SUFFICES ASSUME Typed, Kept, [Next]_vars PROVE Kept'
  OBVIOUS
<1>1. CASE Rests
  BY <1>1 DEF Rests, worker, history, Kept, Coming, Outdated, Configs
<1>2. CASE \E w \in Worker : Handles(w) \/ Operates(w)
  BY <1>2, HandlesKeep, OperatesKeep
<1>. QED BY <1>1, <1>2, StepTyped

\* A worker takes a token out of one list before it puts it into the other, and
\* a reset clears the lists before it fills them, while others do the same: but
\* whoever took a token out still has to put it back, whoever cleared a list to
\* fill it, and a write that lost all its races is on record (failover.go, the
\* loops of casMaxRetries, resetSharedData, initApiTokens).
THEOREM TokensKept == Spec => []NoTokenLost
<1>1. Init => Kept
  <2>. SUFFICES ASSUME Init PROVE Kept
    OBVIOUS
  <2>1. gen = [w \in Worker |-> 1] /\ shared.avail = Configs[1]
    BY DEF Init
  <2>2. Len(Configs) # 1 => Outdated
    BY <2>1, FailoverAssumption, TokenAssumption DEF Outdated
  <2>. QED BY <2>1, <2>2 DEF Kept
<1>2. Typed /\ Kept => NoTokenLost
  <2>. SUFFICES ASSUME Typed, Kept, Quiet, \A w \in Worker : gen[w] = Len(Configs),
                       NEW t \in Configs[Len(Configs)]
                PROVE  t \in shared.avail \union shared.unavail \union dropped
    BY DEF NoTokenLost
  <2>1. \A w \in Worker : todo[w] = <<>> /\ pc[w] # "refused"
    BY Standing DEF Quiet
  <2>2. ~ Coming(t) /\ ~ Outdated
    BY <2>1 DEF Coming, Outdated
  <2>. QED BY <2>2 DEF Kept
<1>. QED BY <1>1, <1>2, StepKept, AlwaysTyped, PTL DEF Spec
-----------------------------------------------------------------------------
(***************************************************************************)
(* What the plans write.                                                   *)
(***************************************************************************)
LEMMA TakeOutWrites ==
  ASSUME NEW t, NEW o \in Range(TakeOut(t))
  PROVE  o \in {Op("avail", "remove", t), Op("unavail", "add", t), Op("failures", "uncount", t),
                Op("since", "stamp", t)}
BY DEF TakeOut, Range

LEMMA RestoreWrites ==
  ASSUME NEW t, NEW o \in Range(Restore(t))
  PROVE  o \in {Op("unavail", "remove", t), Op("avail", "add", t), Op("successes", "uncount", t)}
BY DEF Restore, Range

LEMMA RecoverWrites ==
  ASSUME NEW S \in SUBSET Token, NEW ts \in Seq(S), NEW o \in Range(RecoverAll(ts))
  PROVE  \E t \in S : o \in {Op("unavail", "remove", t), Op("avail", "add", t),
                             Op("since", "unstamp", t), Op("failures", "uncount", t)}
<1>1. RecoverAll(ts) \in Seq(PlainOps)
  BY RecoverPlan DEF PlainPlans
<1>2. PICK i \in 1..Len(RecoverAll(ts)) : o = RecoverAll(ts)[i]
  BY <1>1 DEF Range
<1>3. PICK t \in S : o \in Range(Recover(t))
  BY <1>2, RecoverPlan
<1>. QED BY <1>3 DEF Recover, Range

LEMMA ResetWrites ==
  ASSUME NEW o \in Range(Reset)
  PROVE  o.do \in {"clear", "init"}
<1>1. Reset \in Seq(ResetOps)
  BY ResetPlan DEF ResetPlans
<1>2. o \in ResetOps
  BY <1>1 DEF Range
<1>. QED BY <1>2 DEF ResetOps, Op

LEMMA OneWrite ==
  ASSUME NEW o
  PROVE  Range(<<o>>) = {o} /\ Range(<<>>) = {}
BY DEF Range

LEMMA PlanWrites ==
  ASSUME NEW S, NEW s \in Seq(S), s # <<>>
  PROVE  Head(s) \in Range(s) /\ Range(Tail(s)) \subseteq Range(s)
<1>1. DOMAIN s = 1..Len(s) /\ DOMAIN Tail(s) = 1..(Len(s) - 1) /\ Head(s) = s[1] /\ 1 \in 1..Len(s)
  OBVIOUS
<1>2. \A i \in 1..(Len(s) - 1) : Tail(s)[i] = s[i + 1] /\ i + 1 \in 1..Len(s)
  OBVIOUS
<1>. QED BY <1>1, <1>2 DEF Range
\* Which handler writes what tells for or against a token.
Writes(w, plan) ==
  \A o \in Range(plan) :
    /\ (o.key = "failures" /\ o.do = "count") \/ (o.key = "avail" /\ o.do = "remove") => Guard(w)
    /\ o.key = "successes" /\ o.do = "count" => \E t \in Token : ProbeOk(w, t)
    /\ o.key = "avail" /\ o.do = "add" => Decide(w) \/ \E t \in Token : ProbeOk(w, t)

LEMMA HandlerWrites ==
  ASSUME Typed, NEW w \in Worker, HandlerStep(w), Handles(w)
  PROVE  /\ Writes(w, todo'[w])
         /\ (fails' = fails /\ pc'[w] # "guard") \/ \E r \in Req : Fail(w, r)
         /\ good' = good \/ \E t \in Token : ProbeOk(w, t)
<1>0. /\ todo[w] = <<>> /\ pc \in [Worker -> Pcs] /\ w \in DOMAIN todo
      /\ todo' = todo => Writes(w, todo'[w])
  BY OneWrite DEF Handles, Typed, Controls, Writes
<1>1. CASE Pick(w) \/ (\E r \in Req : Arrive(w, r)) \/ \E t \in Token : ProbeFails(w, t)
  BY <1>0, <1>1 DEF Pick, Idle, Forget, Arrive, Reads, ProbeFails, worker, history
<1>2. CASE \E r \in Req : Fail(w, r)
  BY <1>0, <1>2 DEF Fail
<1>3. CASE TickLease(w) \/ SetLease(w) \/ Scan(w)
  BY <1>0, <1>3 DEF TickLease, SetLease, Scan, Idle, Forget, Reads, history
<1>4. ASSUME NEW r \in Req, Succeed(w, r)
      PROVE  Writes(w, todo'[w]) /\ fails' = fails /\ good' = good /\ pc'[w] # "guard"
  <2>1. todo' = todo \/ todo'[w] = <<Op("failures", "uncount", req[r].token)>>
    BY <1>0, <1>4 DEF Succeed
  <2>2. Writes(w, <<Op("failures", "uncount", req[r].token)>>)
    BY OneWrite DEF Writes, Op
  <2>3. pc'[w] # "guard" /\ UNCHANGED <<fails, good>>
    BY <1>0, <1>4 DEF Succeed, history
  <2>. QED BY <1>0, <2>1, <2>2, <2>3
<1>5. ASSUME Guard(w)
      PROVE  Writes(w, todo'[w]) /\ fails' = fails /\ good' = good /\ pc'[w] # "guard"
  <2>1. PICK plan \in PlainPlans :
          /\ Do(w, plan)
          /\ plan = <<>> \/ plan = TakeOut(hand[w]) \/ plan = <<Op("failures", "count", hand[w])>>
    BY <1>5, GuardPlan
  <2>2. /\ hand[w] \in Token /\ pc[w] = "guard" /\ gen' = gen /\ UNCHANGED <<fails, good>>
        /\ hand[w] # "reload"
    BY <1>5, GuardPlan, Strings DEF Guard, history
  <2>3. todo'[w] = plan /\ pc'[w] # "guard"
    BY <1>0, <2>1, <2>2, Doing DEF Turns, Typed, Controls
  <2>4. \A o \in Range(plan) :
          o \in {Op("avail", "remove", hand[w]), Op("unavail", "add", hand[w]),
                 Op("failures", "uncount", hand[w]), Op("since", "stamp", hand[w]),
                 Op("failures", "count", hand[w])}
    <3>1. CASE plan = TakeOut(hand[w])
      BY <3>1, TakeOutWrites
    <3>2. CASE plan # TakeOut(hand[w])
      BY <2>1, <3>2, OneWrite
    <3>. QED BY <3>1, <3>2
  <2>5. Writes(w, plan)
    BY <1>5, <2>4 DEF Writes, Op
  <2>. QED BY <2>2, <2>3, <2>5
<1>6. ASSUME Decide(w)
      PROVE  Writes(w, todo'[w]) /\ fails' = fails /\ good' = good /\ pc'[w] # "guard"
  <2>1. PICK ts \in Seq(CooledOf(w)) : RecoverAll(ts) \in PlainPlans /\ Do(w, RecoverAll(ts))
    BY <1>6, DecidePlan
  <2>2. /\ pc[w] = "decide" /\ gen' = gen /\ UNCHANGED <<fails, good>> /\ hand[w] # "reload"
        /\ CooledOf(w) \subseteq Token
    BY <1>6, Standing DEF Decide, history, Fits, CooledOf
  <2>3. todo'[w] = RecoverAll(ts) /\ pc'[w] # "guard"
    <3>. DEFINE plan == RecoverAll(ts)
    <3>1. plan \in PlainPlans /\ Do(w, plan) /\ todo[w] = <<>> /\ pc[w] # "refused"
      BY <1>0, <2>1, <2>2
    <3>. HIDE DEF plan
    <3>2. todo'[w] = plan /\ pc'[w] # "guard"
      <4>1. \/ plan = <<>> /\ Turns(w, "idle", <<>>, NoToken, {}, 0, gen[w])
            \/ plan # <<>> /\ Turns(w, "run", plan, hand[w], {}, 0, gen[w])
        BY <2>2, <3>1, Doing
      <4>. QED BY <1>0, <4>1 DEF Turns
    <3>. QED BY <3>2 DEF plan
  <2>4. Writes(w, RecoverAll(ts))
    BY <1>6, <2>2, RecoverWrites DEF Writes, Op
  <2>. QED BY <2>2, <2>3, <2>4
<1>7. ASSUME NEW t \in Token, ProbeOk(w, t)
      PROVE  Writes(w, todo'[w]) /\ fails' = fails /\ pc'[w] # "guard"
  <2>1. PICK plan \in PlainPlans : /\ todo' = [todo EXCEPT ![w] = plan]
                                   /\ plan = Restore(t) \/ plan = <<Op("successes", "count", t)>>
    BY <1>7, ProbePlan
  <2>2. \A o \in Range(plan) :
          o \in {Op("unavail", "remove", t), Op("avail", "add", t), Op("successes", "uncount", t),
                 Op("successes", "count", t)}
    BY <2>1, RestoreWrites, OneWrite
  <2>3. Writes(w, plan)
    BY <1>7, <2>2 DEF Writes, Op
  <2>4. todo'[w] = plan /\ pc'[w] # "guard" /\ fails' = fails
    BY <1>0, <1>7, <2>1 DEF ProbeOk
  <2>. QED BY <2>3, <2>4
<1>8. ASSUME Reload(w)
      PROVE  Writes(w, todo'[w]) /\ fails' = fails /\ good' = good /\ pc'[w] # "guard"
  <2>1. Writes(w, Reset)
    BY ResetWrites DEF Writes
  <2>2. todo'[w] = Reset /\ pc'[w] # "guard" /\ UNCHANGED <<fails, good>>
    BY <1>0, <1>8 DEF Reload, history
  <2>. QED BY <2>1, <2>2
<1>. QED BY <1>1, <1>2, <1>3, <1>4, <1>5, <1>6, <1>7, <1>8 DEF HandlerStep
-----------------------------------------------------------------------------
(***************************************************************************)
(* A failure counts once.                                                  *)
(***************************************************************************)
\* Who has seen a failure of the token and has not counted it yet.
Charging(t) ==
  {w \in Worker : \/ pc[w] = "guard" /\ hand[w] = t
                  \/ Op("failures", "count", t) \in Range(todo[w])}

Charged == \A t \in Token : shared.failures[t] + Cardinality(Charging(t)) <= fails[t]

Seen == \A w \in Worker : pc[w] = "guard" => count[w] + 1 <= fails[hand[w]]

Struck ==
  \A w \in Worker, t \in Token :
    Op("avail", "remove", t) \in Range(todo[w]) => fails[t] >= FailureThreshold

Blame == Charged /\ Seen /\ Struck

LEMMA Workers ==
  ASSUME NEW T \in SUBSET Worker, NEW S \in SUBSET T
  PROVE  /\ Cardinality(S) \in Nat /\ Cardinality(T) \in Nat /\ Cardinality(S) <= Cardinality(T)
         /\ \A w \in T \ S : Cardinality(S) + 1 <= Cardinality(T)
         /\ \A w : S \subseteq T /\ T \subseteq S \union {w} => Cardinality(T) <= Cardinality(S) + 1
<1>1. IsFiniteSet(T) /\ IsFiniteSet(S) /\ Cardinality(S) <= Cardinality(T)
  BY FailoverAssumption, TokenAssumption, FS_Subset
<1>2. Cardinality(S) \in Nat /\ Cardinality(T) \in Nat
  BY <1>1, FS_CardinalityType
<1>3. ASSUME NEW w \in T \ S PROVE Cardinality(S) + 1 <= Cardinality(T)
  <2>1. IsFiniteSet(S \union {w}) /\ Cardinality(S \union {w}) = Cardinality(S) + 1
    BY <1>1, <1>3, FS_AddElement
  <2>2. Cardinality(S \union {w}) <= Cardinality(T)
    BY <1>1, <1>3, FS_Subset
  <2>. QED BY <2>1, <2>2
<1>4. ASSUME NEW w, T \subseteq S \union {w} PROVE Cardinality(T) <= Cardinality(S) + 1
  <2>1. IsFiniteSet(S \union {w}) /\ Cardinality(S \union {w}) <= Cardinality(S) + 1
    <3>1. IsFiniteSet(S \union {w})
          /\ Cardinality(S \union {w}) = IF w \in S THEN Cardinality(S) ELSE Cardinality(S) + 1
      BY <1>1, FS_AddElement
    <3>. QED BY <1>2, <3>1
  <2>2. Cardinality(T) <= Cardinality(S \union {w}) /\ Cardinality(S \union {w}) \in Nat
    BY <1>4, <2>1, FS_Subset, FS_CardinalityType
  <2>. QED BY <1>2, <2>1, <2>2
<1>. QED BY <1>1, <1>2, <1>3, <1>4

\* A step that brings no failure.
LEMMA NothingNew ==
  ASSUME Typed, Typed', Blame, NEW w \in Worker, setup' = setup, fails' = fails,
         shared'.failures = shared.failures,
         \A x \in Worker \ {w} :
           pc'[x] = pc[x] /\ todo'[x] = todo[x] /\ hand'[x] = hand[x] /\ count'[x] = count[x],
         pc'[w] # "guard",
         \A t \in Token : Op("failures", "count", t) \in Range(todo'[w]) => w \in Charging(t),
         \A t \in Token : Op("avail", "remove", t) \in Range(todo'[w]) => fails[t] >= FailureThreshold
  PROVE  Blame'
<1>1. Charged'
  <2>. SUFFICES ASSUME NEW t \in Token PROVE shared'.failures[t] + Cardinality(Charging(t)') <= fails'[t]
    BY DEF Charged
  <2>1. Charging(t)' \subseteq Charging(t) /\ Charging(t) \subseteq Worker
    BY DEF Charging
  <2>2. /\ Cardinality(Charging(t)') \in Nat /\ Cardinality(Charging(t)) \in Nat
        /\ Cardinality(Charging(t)') <= Cardinality(Charging(t))
    BY <2>1, Workers
  <2>3. shared.failures[t] \in Nat /\ fails[t] \in Nat
        /\ shared.failures[t] + Cardinality(Charging(t)) <= fails[t]
    BY DEF Typed, SharedTyped, Histories, Blame, Charged
  <2>. QED BY <2>2, <2>3
<1>2. Seen'
  BY DEF Blame, Seen
<1>3. Struck'
  BY DEF Blame, Struck, FailureThreshold
<1>. QED BY <1>1, <1>2, <1>3 DEF Blame

LEMMA GuardBlames ==
  ASSUME Typed, Typed', Blame, setup' = setup, NEW w \in Worker, Guard(w), Handles(w)
  PROVE  Blame'
<1>. DEFINE t == hand[w]
<1>1. PICK plan \in PlainPlans :
        /\ Do(w, plan)
        /\ \/ plan = <<>>
           \/ plan = TakeOut(t) /\ Strikes(count[w])
           \/ plan = <<Op("failures", "count", t)>>
  BY GuardPlan
<1>2. /\ t \in Token /\ todo[w] = <<>> /\ pc[w] = "guard" /\ hand[w] # "reload" /\ gen' = gen
      /\ UNCHANGED <<shared, fails>>
  BY GuardPlan, Strings DEF Guard, history
<1>3. pc'[w] # "guard" /\ todo'[w] = plan
  BY <1>1, <1>2, Doing, TurnOthers DEF Typed, Turns, Controls
<1>4. fails[t] >= FailureThreshold \/ ~ Strikes(count[w])
  <2>1. count[w] + 1 <= fails[t] /\ count[w] \in Nat /\ fails[t] \in Nat /\ FailureThreshold \in Nat
    BY <1>2, Standing, SetupTyped DEF Blame, Seen, Typed, Histories
  <2>. QED BY <2>1 DEF Strikes
<1>5. w \in Charging(t)
  BY <1>2 DEF Charging
<1>. HIDE DEF t
<1>6. ASSUME NEW u \in Token
      PROVE  /\ Op("failures", "count", u) \in Range(plan) => u = t
             /\ Op("avail", "remove", u) \in Range(plan) => u = t /\ Strikes(count[w])
  <2>1. CASE plan = TakeOut(t)
    <3>1. \A o \in Range(plan) :
            o \in {Op("avail", "remove", t), Op("unavail", "add", t), Op("failures", "uncount", t),
                   Op("since", "stamp", t)}
      BY <2>1, TakeOutWrites
    <3>2. Strikes(count[w])
      <4>1. Len(TakeOut(t)) # 0 /\ Len(TakeOut(t)) # 1
        BY DEF TakeOut
      <4>2. Len(<<>>) = 0 /\ Len(<<Op("failures", "count", t)>>) = 1
        OBVIOUS
      <4>3. TakeOut(t) # <<>> /\ TakeOut(t) # <<Op("failures", "count", t)>>
        BY <4>1, <4>2, Zenon
      <4>. QED BY <1>1, <2>1, <4>3
    <3>. HIDE <2>1
    <3>. QED BY <3>1, <3>2 DEF Op
  <2>2. CASE plan = <<>>
    BY <2>2, OneWrite
  <2>3. CASE plan = <<Op("failures", "count", t)>>
    BY <2>3, OneWrite DEF Op
  <2>. QED BY <1>1, <2>1, <2>2, <2>3
<1>. QED BY <1>2, <1>3, <1>4, <1>5, <1>6, NothingNew DEF Handles

LEMMA FailBlames ==
  ASSUME Typed, Typed', Blame, setup' = setup, NEW w \in Worker, NEW r \in Req, Fail(w, r), Handles(w)
  PROVE  Blame'
<1>. DEFINE t == req[r].token
<1>1. pc[w] = "idle" /\ todo[w] = <<>> /\ todo' = todo /\ shared' = shared
  BY Standing DEF Fail
<1>2. CASE t = NoToken
  <2>1. pc'[w] # "guard" /\ fails' = fails
    BY <1>1, <1>2 DEF Fail
  <2>. QED BY <1>1, <2>1, NothingNew, OneWrite DEF Handles
<1>3. CASE t # NoToken
  <2>1. /\ t \in Token /\ pc'[w] = "guard" /\ hand'[w] = t /\ count'[w] = shared.failures[t]
        /\ fails' = [fails EXCEPT ![t] = @ + 1]
    BY <1>1, <1>3, Standing DEF Fail, Typed, Requests, Controls
  <2>. HIDE DEF t
  <2>2. /\ shared.failures \in [Token -> Nat] /\ fails \in [Token -> Nat]
        /\ \A u \in Token : shared.failures[u] + Cardinality(Charging(u)) <= fails[u]
        /\ \A u \in Token : fails'[u] = IF u = t THEN fails[u] + 1 ELSE fails[u]
    BY <2>1 DEF Typed, SharedTyped, Histories, Blame, Charged
  <2>3. \A u \in Token : /\ Charging(u) \subseteq Charging(u)' /\ Charging(u)' \subseteq Worker
                         /\ Charging(u)' \subseteq Charging(u) \union {w}
                         /\ u # t => Charging(u)' = Charging(u)
    BY <1>1, <2>1, OneWrite DEF Charging, Handles
  <2>4. \A u \in Token : /\ Cardinality(Charging(u)) \in Nat /\ Cardinality(Charging(u)') \in Nat
                         /\ Cardinality(Charging(u)') <= Cardinality(Charging(u)) + 1
    BY <2>3, Workers
  <2>5. Charged'
    BY <1>1, <2>2, <2>3, <2>4 DEF Charged
  <2>6. Seen'
    <3>1. ASSUME NEW x \in Worker, pc'[x] = "guard", x # w PROVE count'[x] + 1 <= fails'[hand'[x]]
      <4>1. pc[x] = "guard" /\ hand[x] \in Token /\ hand'[x] = hand[x] /\ count'[x] = count[x]
        BY <3>1, Standing DEF Handles, Fits
      <4>2. count[x] + 1 <= fails[hand[x]] /\ count[x] \in Nat /\ fails[hand[x]] \in Nat
        BY <2>2, <4>1, Standing DEF Blame, Seen
      <4>. QED BY <2>2, <4>1, <4>2
    <3>2. count'[w] + 1 <= fails'[hand'[w]]
      BY <2>1, <2>2, <2>4
    <3>. QED BY <3>1, <3>2 DEF Seen
  <2>7. Struck'
    BY <1>1, <2>2, SetupTyped DEF Blame, Struck, FailureThreshold, Typed
  <2>. QED BY <2>5, <2>6, <2>7 DEF Blame
<1>. QED BY <1>2, <1>3

LEMMA HandlesBlames ==
  ASSUME Typed, Typed', Blame, setup' = setup, NEW w \in Worker, HandlerStep(w), Handles(w)
  PROVE  Blame'
<1>1. CASE Guard(w) \/ \E r \in Req : Fail(w, r)
  BY <1>1, GuardBlames, FailBlames
<1>2. CASE ~(Guard(w) \/ \E r \in Req : Fail(w, r))
  <2>1. Writes(w, todo'[w]) /\ fails' = fails /\ pc'[w] # "guard"
    BY <1>2, HandlerWrites
  <2>2. \A t \in Token : /\ Op("failures", "count", t) \notin Range(todo'[w])
                         /\ Op("avail", "remove", t) \notin Range(todo'[w])
    BY <1>2, <2>1 DEF Writes, Op
  <2>. QED BY <2>1, <2>2, NothingNew DEF Handles, Keys
<1>. QED BY <1>1, <1>2

\* An operation adds to no plan.
LEMMA OperationShrinks ==
  ASSUME Typed, NEW w \in Worker, Operates(w)
  PROVE  /\ \A x \in Worker : Range(todo'[x]) \subseteq Range(todo[x])
         /\ Head(todo[w]) \in Range(todo[w])
         /\ Head(todo[w]).do = "count" => todo'[w] = todo[w] \/ Range(todo'[w]) = {}
<1>1. todo[w] # <<>> /\ Orderly(todo[w]) /\ todo[w] \in Seq(PlainOps \union ResetOps)
  BY PlanOrder DEF Operates
<1>2. todo'[w] \in {todo[w], Tail(todo[w]), <<>>}
  BY DEF Operates, Applies, Drops, Stays, Refuses
<1>3. Head(todo[w]) \in Range(todo[w]) /\ Range(Tail(todo[w])) \subseteq Range(todo[w]) /\ Range(<<>>) = {}
  BY <1>1, PlanWrites, OneWrite
<1>4. Head(todo[w]).do = "count" => Tail(todo[w]) = <<>>
  BY <1>1 DEF Orderly
<1>. QED BY <1>2, <1>3, <1>4 DEF Operates

\* What an operation does to the failures on record, and to those of history.
LEMMA OperationFailures ==
  ASSUME Typed, NEW w \in Worker, Operates(w), NEW t \in Token
  PROVE  LET counts == Head(todo[w]) = Op("failures", "count", t) /\ todo'[w] = Tail(todo[w])
         IN /\ \/ shared'.failures[t] <= shared.failures[t]
               \/ shared'.failures[t] = shared.failures[t] + 1 /\ counts
            /\ \/ fails'[t] = fails[t]
               \/ fails'[t] = 0 /\ ~ Blamed(t) /\ shared'.failures = shared.failures
<1>. DEFINE op == Head(todo[w])
<1>1. /\ op \in PlainOps \union ResetOps /\ op.key \in Keys
      /\ shared.failures \in [Token -> Nat] /\ fails \in [Token -> Nat]
  BY AtHand DEF Operates, Typed, SharedTyped, Histories
<1>. HIDE DEF op
<1>2. CASE ~ Applies(w)
  <2>1. shared' = shared /\ fails' = fails
    BY <1>2 DEF Operates, Drops, Stays, Refuses, history
  <2>. QED BY <1>1, <2>1
<1>3. CASE Applies(w)
  <2>1. /\ shared'[op.key] = Outcome(w) /\ \A k \in Keys \ {op.key} : shared'[k] = shared[k]
        /\ todo'[w] = Tail(todo[w])
        /\ Outcome(w) = IF op.do = "clear" THEN Empty[op.key] ELSE Result(w, op, shared[op.key])
        /\ IF op.key = "avail" /\ op.do \in {"add", "remove"}
             THEN Record(shared.avail, Outcome(w)) ELSE fails' = fails
    BY <1>3 DEF Applies, Outcome, op
  <2>2. CASE op.key = "failures"
    <3>1. fails' = fails /\ shared'.failures = Outcome(w)
      BY <2>1, <2>2
    <3>2. op.do \in {"count", "uncount", "clear"}
      BY <1>1, <2>2 DEF PlainOps, ResetOps, Op
    <3>3. CASE op.do = "clear"
      BY <1>1, <2>1, <2>2, <3>1, <3>3, EmptyTyped
    <3>4. CASE op.do = "uncount"
      BY <1>1, <2>1, <2>2, <3>1, <3>4 DEF Result
    <3>5. CASE op.do = "count"
      <4>1. Outcome(w) = [shared.failures EXCEPT ![op.token] = @ + 1] /\ op.token \in Token
        BY <1>1, <2>1, <2>2, <3>5 DEF Result, PlainOps, ResetOps, Op
      <4>2. op.token = t => op = Op("failures", "count", t)
        BY <1>1, <2>2, <3>5 DEF PlainOps, ResetOps, Op
      <4>. QED BY <1>1, <2>1, <3>1, <4>1, <4>2 DEF op
    <3>. QED BY <3>2, <3>3, <3>4, <3>5
  <2>3. CASE op.key # "failures"
    <3>1. shared'.failures = shared.failures
      BY <2>1, <2>3 DEF Keys
    <3>2. fails'[t] = fails[t] \/ (fails'[t] = 0 /\ ~ Blamed(t))
      BY <2>1 DEF Record
    <3>. QED BY <1>1, <3>1, <3>2
  <2>. QED BY <2>2, <2>3
<1>. QED BY <1>2, <1>3

LEMMA OperatesBlames ==
  ASSUME Typed, Typed', Blame, setup' = setup, NEW w \in Worker, Operates(w)
  PROVE  Blame'
<1>1. /\ shared.failures \in [Token -> Nat] /\ shared'.failures \in [Token -> Nat]
      /\ fails \in [Token -> Nat] /\ fails' \in [Token -> Nat]
      /\ FailureThreshold \in Nat /\ FailureThreshold' = FailureThreshold
  BY SetupTyped DEF Typed, SharedTyped, Histories, FailureThreshold
<1>2. \A x \in Worker : Range(todo'[x]) \subseteq Range(todo[x])
  BY OperationShrinks
<1>3. \A x \in Worker : pc'[x] = "guard" =>
        x # w /\ pc[x] = "guard" /\ hand'[x] = hand[x] /\ count'[x] = count[x]
  BY DEF Operates
<1>4. ASSUME NEW t \in Token
      PROVE  /\ Cardinality(Charging(t)) \in Nat /\ Cardinality(Charging(t)') \in Nat
             /\ Cardinality(Charging(t)') <= Cardinality(Charging(t))
             /\ \A x \in Charging(t) \ Charging(t)' : Cardinality(Charging(t)') + 1 <= Cardinality(Charging(t))
  <2>1. Charging(t)' \subseteq Charging(t) /\ Charging(t) \subseteq Worker
    BY <1>2, <1>3 DEF Charging
  <2>. QED BY <2>1, Workers
<1>5. Charged'
  <2>. SUFFICES ASSUME NEW t \in Token PROVE shared'.failures[t] + Cardinality(Charging(t)') <= fails'[t]
    BY DEF Charged
  <2>1. shared.failures[t] + Cardinality(Charging(t)) <= fails[t]
    BY DEF Blame, Charged
  <2>2. ASSUME ~ Blamed(t) PROVE shared.failures[t] = 0 /\ Charging(t) = {} /\ Cardinality(Charging(t)) = 0
    <3>1. shared.failures[t] = 0 /\ Charging(t) = {}
      BY <1>1, <2>2 DEF Blamed, Awaited, Charging
    <3>. QED BY <3>1, FS_EmptySet
  <2>3. ASSUME Head(todo[w]) = Op("failures", "count", t), todo'[w] = Tail(todo[w])
        PROVE  w \in Charging(t) \ Charging(t)'
    <3>1. Head(todo[w]) \in Range(todo[w])
      BY OperationShrinks
    <3>2. Range(todo'[w]) = {} /\ pc'[w] # "guard"
      <4>1. Head(todo[w]).do = "count"
        BY <2>3 DEF Op
      <4>2. todo'[w] # todo[w]
        <5>1. todo[w] # <<>> /\ todo[w] \in Seq(PlainOps \union ResetOps)
          BY PlanOrder DEF Operates
        <5>2. Len(Tail(todo[w])) # Len(todo[w])
          BY <5>1
        <5>. QED BY <2>3, <5>2
      <4>. QED BY <1>3, <4>1, <4>2, OperationShrinks
    <3>. QED BY <2>3, <3>1, <3>2 DEF Charging
  <2>4. /\ \/ shared'.failures[t] <= shared.failures[t]
           \/ shared'.failures[t] = shared.failures[t] + 1 /\ w \in Charging(t) \ Charging(t)'
        /\ \/ fails'[t] = fails[t]
           \/ fails'[t] = 0 /\ ~ Blamed(t) /\ shared'.failures = shared.failures
    BY <2>3, OperationFailures
  <2>. QED BY <1>1, <1>4, <2>1, <2>2, <2>4
<1>6. Seen'
  <2>. SUFFICES ASSUME NEW x \in Worker, pc'[x] = "guard" PROVE count'[x] + 1 <= fails'[hand'[x]]
    BY DEF Seen
  <2>1. pc[x] = "guard" /\ hand'[x] = hand[x] /\ count'[x] = count[x] /\ hand[x] \in Token
    BY <1>3, Standing DEF Fits
  <2>2. Blamed(hand[x])
    BY <2>1 DEF Blamed
  <2>3. fails'[hand[x]] = fails[hand[x]]
    BY <2>1, <2>2, OperationFailures
  <2>. QED BY <2>1, <2>3 DEF Blame, Seen
<1>7. Struck'
  <2>. SUFFICES ASSUME NEW x \in Worker, NEW t \in Token, Op("avail", "remove", t) \in Range(todo'[x])
                PROVE  fails'[t] >= FailureThreshold
    BY <1>1 DEF Struck
  <2>1. Op("avail", "remove", t) \in Range(todo[x])
    BY <1>2
  <2>2. Blamed(t)
    BY <2>1 DEF Blamed, Awaited
  <2>3. fails'[t] = fails[t]
    BY <2>2, OperationFailures
  <2>. QED BY <2>1, <2>3 DEF Blame, Struck
<1>. QED BY <1>5, <1>6, <1>7 DEF Blame

LEMMA StepBlame == Typed /\ Blame /\ [Next]_vars => Blame'
<1>. SUFFICES ASSUME Typed, Blame, [Next]_vars PROVE Blame'
  OBVIOUS
<1>1. Typed' /\ setup' = setup
  BY StepTyped
<1>2. CASE Rests
  BY <1>2 DEF Rests, worker, history, Blame, Charged, Charging, Seen, Struck, FailureThreshold
<1>3. CASE \E w \in Worker : (HandlerStep(w) /\ Handles(w)) \/ Operates(w)
  BY <1>1, <1>3, HandlesBlames, OperatesBlames
<1>. QED BY <1>2, <1>3, StepTyped

LEMMA InitBlame == Init => Blame
<1>. SUFFICES ASSUME Init PROVE Blame
  OBVIOUS
<1>1. \A t \in Token : Charging(t) = {}
  BY OneWrite DEF Init, Charging
<1>2. \A t \in Token : Cardinality(Charging(t)) = 0
  BY <1>1, FS_EmptySet
<1>3. \A t \in Token : shared.failures[t] = 0 /\ fails[t] = 0
  BY DEF Init
<1>4. Charged
  BY <1>2, <1>3 DEF Charged
<1>. QED BY <1>4, OneWrite DEF Init, Blame, Seen, Struck

\* Only who takes a token out, or clears the list, makes it unavailable.
LEMMA TakenOut ==
  ASSUME Typed, Typed', Blame, [Next]_vars, NEW w \in Worker, NEW t \in Token, todo'[w] # todo[w],
         hand[w] = t, t \in shared.avail \ shared'.avail
  PROVE  fails[t] >= FailureThreshold
<1>. DEFINE op == Head(todo[w])
<1>1. PICK x \in Worker : Operates(x)
  BY StepTyped DEF Rests, Handles, Keys
<1>2. x = w /\ Applies(w) /\ op.key = "avail"
  <2>1. x = w
    BY <1>1 DEF Operates
  <2>2. Applies(w)
    BY <1>1, <2>1 DEF Operates, Drops, Stays, Refuses
  <2>. QED BY <2>1, <2>2 DEF Applies, Keys
<1>3. op \in PlainOps /\ op.do \notin {"clear", "init"}
  BY <1>1, <1>2, AtHand, Strings DEF Operates
<1>4. op.do \in {"add", "remove"}
  BY <1>2, <1>3 DEF PlainOps
<1>5. shared'.avail = Result(w, op, shared.avail)
  BY <1>2, <1>3 DEF Applies, Outcome
<1>6. op.do = "remove" /\ op.token = t
  BY <1>4, <1>5 DEF Result
<1>7. op = Op("avail", "remove", t)
  BY <1>2, <1>3, <1>6 DEF PlainOps, Op
<1>8. op \in Range(todo[w])
  BY <1>1, <1>2, OperationShrinks
<1>. QED BY <1>7, <1>8 DEF Blame, Struck

\* Whatever other workers count, take out and restore meanwhile, a token taken
\* out has failed as often as the threshold asks: each failure is in the count
\* once, as one on record or as one about to be (failover.go,
\* handleUnavailableApiToken).
THEOREM TakenOutForCause == Spec => FailuresNeeded
<1>1. Typed /\ Typed' /\ Blame /\ [Next]_vars =>
        [\A t \in Token, w \in Worker :
           todo'[w] # todo[w] /\ hand[w] = t /\ t \in shared.avail \ shared'.avail =>
             fails[t] >= FailureThreshold]_vars
  BY TakenOut
<1>. QED BY <1>1, InitBlame, StepBlame, AlwaysTyped, PTL DEF Spec, FailuresNeeded
-----------------------------------------------------------------------------
(***************************************************************************)
(* A return is earned.                                                     *)
(***************************************************************************)
First == \A x \in Worker : gen[x] = 1

\* Who will record a successful check of the token.
Crediting(t) == {w \in Worker : Op("successes", "count", t) \in Range(todo[w])}

Stamped ==
  \A t \in Token : shared.since[t] # Never => outAt[t] <= shared.since[t] /\ shared.since[t] <= now

Credited == \A t \in Token : shared.successes[t] + Cardinality(Crediting(t)) <= good[t]

Deserved ==
  \A w \in Worker, t \in Token : Op("avail", "add", t) \in Range(todo[w]) => Earned(t)

Merit == Stamped /\ Credited /\ Deserved

\* A push is the end of First.
LEMMA StillFirst ==
  ASSUME Typed, [Next]_vars, First'
  PROVE  First
<1>1. Typed'
  BY StepTyped
<1>2. CASE Rests
  BY <1>2 DEF Rests, worker, First
<1>3. ASSUME NEW w \in Worker, Operates(w) PROVE First
  BY <1>3 DEF Operates, First
<1>4. ASSUME NEW w \in Worker, Handles(w) PROVE First
  <2>1. todo'[w] # Reset
    <3>1. Fits(pc[w], todo[w], hand[w], gen[w])' /\ gen'[w] = 1
      BY <1>1 DEF Typed, Controls, First
    <3>2. todo'[w] \in PlainPlans
      BY <3>1 DEF Fits
    <3>. QED BY <3>2, ResetPlan, PlanOps
  <2>. QED BY <1>4, <2>1 DEF Handles, First
<1>. QED BY <1>2, <1>3, <1>4, StepTyped

LEMMA FirstPlans ==
  ASSUME Typed, First, NEW w \in Worker, todo[w] # <<>>
  PROVE  Head(todo[w]) \in PlainOps /\ Head(todo[w]).do \notin {"clear", "init"}
<1>1. Fits(pc[w], todo[w], hand[w], gen[w]) /\ gen[w] = 1
  BY Standing DEF First
<1>. QED BY <1>1, AtHand DEF Fits

\* What speaks for a return, and is typed.
LEMMA MeritTyped ==
  ASSUME Typed
  PROVE  /\ now \in Nat /\ SuccessThreshold \in Nat /\ Cooldown \in Nat
         /\ \A t \in Token : /\ shared.successes[t] \in Nat /\ good[t] \in Nat
                             /\ shared.since[t] \in Int /\ outAt[t] \in Int /\ outAt[t] <= now
                             /\ Never \in Int
BY SetupTyped DEF Typed, SharedTyped, Histories, Never

\* A step that brings no check, and nobody's return.
LEMMA NothingEarned ==
  ASSUME Typed, Typed', Merit, NEW w \in Worker, UNCHANGED <<setup, now, outAt, good>>,
         shared'.since = shared.since, shared'.successes = shared.successes,
         \A x \in Worker \ {w} : todo'[x] = todo[x],
         \A t \in Token : Op("successes", "count", t) \in Range(todo'[w]) => w \in Crediting(t),
         \A t \in Token : Op("avail", "add", t) \in Range(todo'[w]) => Earned(t)
  PROVE  Merit'
<1>1. Stamped'
  BY DEF Merit, Stamped
<1>2. Credited'
  <2>. SUFFICES ASSUME NEW t \in Token PROVE shared'.successes[t] + Cardinality(Crediting(t)') <= good'[t]
    BY DEF Credited
  <2>1. Crediting(t)' \subseteq Crediting(t) /\ Crediting(t) \subseteq Worker
    BY DEF Crediting
  <2>2. /\ Cardinality(Crediting(t)') \in Nat /\ Cardinality(Crediting(t)) \in Nat
        /\ Cardinality(Crediting(t)') <= Cardinality(Crediting(t))
    BY <2>1, Workers
  <2>3. shared.successes[t] + Cardinality(Crediting(t)) <= good[t]
    BY DEF Merit, Credited
  <2>. QED BY <2>2, <2>3, MeritTyped
<1>3. \A t \in Token : Earned(t)' = Earned(t)
  BY DEF Earned, Cooldown, SuccessThreshold
<1>4. Deserved'
  BY <1>3 DEF Merit, Deserved
<1>. QED BY <1>1, <1>2, <1>4 DEF Merit

\* The tick recovers what has cooled down since it was taken out.
LEMMA DecideEarns ==
  ASSUME Typed, Typed', Merit, setup' = setup, NEW w \in Worker, Decide(w), Handles(w)
  PROVE  Merit'
<1>1. PICK ts \in Seq(CooledOf(w)) : RecoverAll(ts) \in PlainPlans /\ Do(w, RecoverAll(ts))
  BY DecidePlan
<1>2. /\ hand[w] # "reload" /\ gen' = gen /\ UNCHANGED <<shared, good>> /\ todo[w] = <<>> /\ pc[w] # "refused"
      /\ CooledOf(w) \subseteq Token
  BY Standing DEF Decide, Fits, history, CooledOf
<1>3. todo'[w] = RecoverAll(ts)
  <2>. DEFINE plan == RecoverAll(ts)
  <2>1. plan \in PlainPlans /\ Do(w, plan)
    BY <1>1
  <2>. HIDE DEF plan
  <2>2. \/ plan = <<>> /\ Turns(w, "idle", <<>>, NoToken, {}, 0, gen[w])
        \/ plan # <<>> /\ Turns(w, "run", plan, hand[w], {}, 0, gen[w])
    BY <1>2, <2>1, Doing
  <2>3. todo'[w] = plan
    BY <2>2 DEF Turns, Typed, Controls
  <2>. QED BY <2>3 DEF plan
<1>4. ASSUME NEW t \in Token, Op("avail", "add", t) \in Range(RecoverAll(ts)) PROVE Earned(t)
  <2>1. t \in CooledOf(w)
    BY <1>2, <1>4, RecoverWrites DEF Op
  <2>2. Cooldown > 0 /\ shared.since[t] # Never /\ now - shared.since[t] >= Cooldown
    BY <2>1 DEF CooledOf, Cooled
  <2>3. outAt[t] <= shared.since[t]
    BY <2>2 DEF Merit, Stamped
  <2>. QED BY <2>2, <2>3, MeritTyped DEF Earned
<1>5. \A t \in Token : Op("successes", "count", t) \notin Range(RecoverAll(ts))
  BY <1>2, RecoverWrites DEF Op
<1>. QED BY <1>2, <1>3, <1>4, <1>5, NothingEarned DEF Handles, Keys

\* A check counts once, and at the threshold restores.
LEMMA ProbeEarns ==
  ASSUME Typed, Typed', Merit, setup' = setup, NEW w \in Worker, NEW t \in Token, ProbeOk(w, t), Handles(w)
  PROVE  Merit'
<1>1. /\ good' = [good EXCEPT ![t] = @ + 1] /\ shared' = shared /\ UNCHANGED <<now, outAt>>
      /\ todo[w] = <<>> /\ good \in [Token -> Nat]
  BY Standing DEF ProbeOk, Typed, Histories
<1>2. PICK plan \in PlainPlans :
        /\ todo' = [todo EXCEPT ![w] = plan]
        /\ \/ plan = Restore(t) /\ Enough(shared.successes[t])
           \/ plan = <<Op("successes", "count", t)>>
  BY ProbePlan
<1>3. todo'[w] = plan /\ \A x \in Worker \ {w} : todo'[x] = todo[x]
  BY <1>2 DEF Typed, Controls
<1>4. ASSUME NEW u \in Token
      PROVE  /\ Op("successes", "count", u) \in Range(plan) => u = t
             /\ Op("avail", "add", u) \in Range(plan) => u = t /\ Enough(shared.successes[t])
  <2>1. CASE plan = Restore(t)
    <3>1. \A o \in Range(plan) :
            o \in {Op("unavail", "remove", t), Op("avail", "add", t), Op("successes", "uncount", t)}
      BY <2>1, RestoreWrites
    <3>2. Enough(shared.successes[t])
      BY <1>2, <2>1 DEF Restore, Op
    <3>. HIDE <2>1
    <3>. QED BY <3>1, <3>2 DEF Op
  <2>2. CASE plan = <<Op("successes", "count", t)>>
    BY <2>2, OneWrite DEF Op
  <2>. QED BY <1>2, <2>1, <2>2
<1>5. \A u \in Token : /\ good'[u] = IF u = t THEN good[u] + 1 ELSE good[u]
                       /\ shared.successes[u] + Cardinality(Crediting(u)) <= good[u]
  BY <1>1 DEF Merit, Credited
<1>6. \A u \in Token : /\ Crediting(u) \subseteq Crediting(u)' /\ Crediting(u)' \subseteq Worker
                       /\ Crediting(u)' \subseteq Crediting(u) \union {w}
                       /\ u # t => Crediting(u)' = Crediting(u)
  BY <1>1, <1>3, <1>4, OneWrite DEF Crediting
<1>7. \A u \in Token : /\ Cardinality(Crediting(u)) \in Nat /\ Cardinality(Crediting(u)') \in Nat
                       /\ Cardinality(Crediting(u)') <= Cardinality(Crediting(u)) + 1
  BY <1>6, Workers
<1>8. Credited'
  BY <1>1, <1>5, <1>6, <1>7, MeritTyped DEF Credited
<1>9. Stamped'
  BY <1>1 DEF Merit, Stamped
<1>10. ASSUME NEW u \in Token, Earned(u) PROVE Earned(u)'
  BY <1>1, <1>5, <1>10, MeritTyped DEF Earned, Cooldown, SuccessThreshold
<1>11. Enough(shared.successes[t]) => Earned(t)'
  BY <1>1, <1>5, <1>7, MeritTyped DEF Enough, Earned, SuccessThreshold
<1>12. Deserved'
  BY <1>3, <1>4, <1>10, <1>11 DEF Merit, Deserved
<1>. QED BY <1>8, <1>9, <1>12 DEF Merit

LEMMA HandlesEarns ==
  ASSUME Typed, Typed', Merit, setup' = setup, NEW w \in Worker, HandlerStep(w), Handles(w)
  PROVE  Merit'
<1>1. CASE Decide(w) \/ \E t \in Token : ProbeOk(w, t)
  BY <1>1, DecideEarns, ProbeEarns
<1>2. CASE ~(Decide(w) \/ \E t \in Token : ProbeOk(w, t))
  <2>1. Writes(w, todo'[w]) /\ good' = good
    BY <1>2, HandlerWrites
  <2>2. \A t \in Token : /\ Op("successes", "count", t) \notin Range(todo'[w])
                         /\ Op("avail", "add", t) \notin Range(todo'[w])
    BY <1>2, <2>1 DEF Writes, Op
  <2>. QED BY <2>1, <2>2, NothingEarned DEF Handles, Keys
<1>. QED BY <1>1, <1>2

\* What an operation does to the checks and times on record, and to history.
LEMMA OperationMerits ==
  ASSUME Typed, First, NEW w \in Worker, Operates(w), NEW t \in Token
  PROVE  LET counts == Head(todo[w]) = Op("successes", "count", t) /\ todo'[w] = Tail(todo[w])
         IN /\ \/ shared'.successes[t] <= shared.successes[t]
               \/ shared'.successes[t] = shared.successes[t] + 1 /\ counts
            /\ \/ shared'.since[t] \in {shared.since[t], Never}
               \/ shared'.since[t] = now /\ outAt'[t] = outAt[t]
            /\ \/ outAt'[t] = outAt[t] /\ good'[t] = good[t]
               \/ /\ outAt'[t] = now /\ good'[t] = 0 /\ ~ Pardoned(t)
                  /\ shared'.successes = shared.successes /\ shared'.since = shared.since
<1>. DEFINE op == Head(todo[w])
<1>1. /\ op \in PlainOps /\ op.do \notin {"clear", "init"}
      /\ shared.successes \in [Token -> Nat] /\ shared.since \in [Token -> Nat \union {Never}]
  BY FirstPlans DEF Operates, Typed, SharedTyped
<1>. HIDE DEF op
<1>2. CASE ~ Applies(w)
  <2>1. shared' = shared /\ outAt' = outAt /\ good' = good
    BY <1>2 DEF Operates, Drops, Stays, Refuses, history
  <2>. QED BY <1>1, <2>1
<1>3. CASE Applies(w)
  <2>1. /\ shared'[op.key] = Result(w, op, shared[op.key])
        /\ \A k \in Keys \ {op.key} : shared'[k] = shared[k]
        /\ todo'[w] = Tail(todo[w])
        /\ IF op.key = "avail" /\ op.do \in {"add", "remove"}
             THEN Record(shared.avail, Outcome(w)) ELSE UNCHANGED <<outAt, good>>
    BY <1>1, <1>3 DEF Applies, Outcome, op
  <2>2. CASE op.key = "successes"
    <3>1. UNCHANGED <<outAt, good>> /\ shared'.since = shared.since
      BY <2>1, <2>2 DEF Keys
    <3>2. op.do \in {"count", "uncount"} /\ op.token \in Token
      BY <1>1, <2>2 DEF PlainOps
    <3>3. CASE op.do = "uncount"
      BY <1>1, <2>1, <2>2, <3>1, <3>3 DEF Result
    <3>4. CASE op.do = "count"
      <4>1. shared'.successes = [shared.successes EXCEPT ![op.token] = @ + 1]
        BY <2>1, <2>2, <3>4 DEF Result
      <4>2. op.token = t => op = Op("successes", "count", t)
        BY <1>1, <2>2, <3>4 DEF PlainOps, Op
      <4>. QED BY <1>1, <2>1, <3>1, <3>2, <4>1, <4>2 DEF op
    <3>. QED BY <3>2, <3>3, <3>4
  <2>3. CASE op.key = "since"
    <3>1. UNCHANGED <<outAt, good>> /\ shared'.successes = shared.successes
      BY <2>1, <2>3 DEF Keys
    <3>2. op.do \in {"stamp", "unstamp"} /\ op.token \in Token
      BY <1>1, <2>3 DEF PlainOps
    <3>3. shared'.since[t] \in {shared.since[t], Never, now}
      BY <1>1, <2>1, <2>3, <3>2 DEF Result
    <3>. QED BY <1>1, <3>1, <3>3
  <2>4. CASE op.key \notin {"successes", "since"}
    <3>1. shared'.successes = shared.successes /\ shared'.since = shared.since
      BY <2>1, <2>4 DEF Keys
    <3>2. \/ outAt'[t] = outAt[t] /\ good'[t] = good[t]
          \/ outAt'[t] = now /\ good'[t] = 0 /\ ~ Pardoned(t)
      BY <2>1 DEF Record
    <3>. QED BY <1>1, <3>1, <3>2
  <2>. QED BY <2>2, <2>3, <2>4
<1>. QED BY <1>2, <1>3

LEMMA OperatesEarns ==
  ASSUME Typed, Typed', First, Merit, setup' = setup, NEW w \in Worker, Operates(w)
  PROVE  Merit'
<1>1. \A x \in Worker : Range(todo'[x]) \subseteq Range(todo[x])
  BY OperationShrinks
<1>2. now' = now /\ SuccessThreshold' = SuccessThreshold /\ Cooldown' = Cooldown
  BY DEF Operates, SuccessThreshold, Cooldown
<1>3. /\ \A t \in Token : /\ shared.successes[t] \in Nat /\ good[t] \in Nat
                          /\ shared'.successes[t] \in Nat /\ good'[t] \in Nat
                          /\ shared.since[t] \in Int /\ outAt[t] \in Int /\ outAt[t] <= now
      /\ now \in Nat /\ Never \in Int
  <2>1. shared'.successes \in [Token -> Nat] /\ good' \in [Token -> Nat]
    BY DEF Typed, SharedTyped, Histories
  <2>. QED BY <2>1, MeritTyped DEF Never
<1>4. ASSUME NEW t \in Token
      PROVE  /\ Cardinality(Crediting(t)) \in Nat /\ Cardinality(Crediting(t)') \in Nat
             /\ Cardinality(Crediting(t)') <= Cardinality(Crediting(t))
             /\ \A x \in Crediting(t) \ Crediting(t)' : Cardinality(Crediting(t)') + 1 <= Cardinality(Crediting(t))
  <2>1. Crediting(t)' \subseteq Crediting(t) /\ Crediting(t) \subseteq Worker
    BY <1>1 DEF Crediting
  <2>. QED BY <2>1, Workers
<1>5. Credited'
  <2>. SUFFICES ASSUME NEW t \in Token PROVE shared'.successes[t] + Cardinality(Crediting(t)') <= good'[t]
    BY DEF Credited
  <2>1. shared.successes[t] + Cardinality(Crediting(t)) <= good[t]
    BY DEF Merit, Credited
  <2>2. ASSUME ~ Pardoned(t) PROVE shared.successes[t] = 0 /\ Cardinality(Crediting(t)) = 0
    <3>1. shared.successes[t] = 0 /\ Crediting(t) = {}
      BY <1>3, <2>2 DEF Pardoned, Awaited, Crediting
    <3>. QED BY <3>1, FS_EmptySet
  <2>3. ASSUME Head(todo[w]) = Op("successes", "count", t), todo'[w] = Tail(todo[w])
        PROVE  w \in Crediting(t) \ Crediting(t)'
    <3>1. Head(todo[w]) \in Range(todo[w]) /\ Head(todo[w]).do = "count"
      BY <2>3, OperationShrinks DEF Op
    <3>2. todo'[w] # todo[w]
      <4>1. todo[w] # <<>> /\ todo[w] \in Seq(PlainOps \union ResetOps)
        BY PlanOrder DEF Operates
      <4>2. Len(Tail(todo[w])) # Len(todo[w])
        BY <4>1
      <4>. QED BY <2>3, <4>2
    <3>3. Range(todo'[w]) = {}
      BY <3>1, <3>2, OperationShrinks
    <3>. QED BY <2>3, <3>1, <3>3 DEF Crediting
  <2>4. /\ \/ shared'.successes[t] <= shared.successes[t]
           \/ shared'.successes[t] = shared.successes[t] + 1 /\ w \in Crediting(t) \ Crediting(t)'
        /\ \/ good'[t] = good[t]
           \/ good'[t] = 0 /\ ~ Pardoned(t) /\ shared'.successes = shared.successes
    BY <2>3, OperationMerits
  <2>5. shared'.successes[t] + Cardinality(Crediting(t)') <= shared.successes[t] + Cardinality(Crediting(t))
    BY <1>3, <1>4, <2>4
  <2>6. CASE good'[t] = good[t]
    BY <1>3, <1>4, <2>1, <2>5, <2>6
  <2>7. CASE good'[t] = 0 /\ ~ Pardoned(t) /\ shared'.successes = shared.successes
    BY <1>3, <1>4, <2>2, <2>7
  <2>. QED BY <2>4, <2>6, <2>7
<1>6. Stamped'
  <2>. SUFFICES ASSUME NEW t \in Token, shared'.since[t] # Never
                PROVE  outAt'[t] <= shared'.since[t] /\ shared'.since[t] <= now
    BY <1>2 DEF Stamped
  <2>1. shared.since[t] # Never => outAt[t] <= shared.since[t] /\ shared.since[t] <= now
    BY DEF Merit, Stamped
  <2>2. ~ Pardoned(t) => shared.since[t] = Never
    BY DEF Pardoned
  <2>3. /\ shared'.since[t] = shared.since[t] \/ (shared'.since[t] = now /\ outAt'[t] = outAt[t])
        /\ outAt'[t] = outAt[t] \/ (~ Pardoned(t) /\ shared'.since = shared.since)
    BY OperationMerits
  <2>. QED BY <1>3, <2>1, <2>2, <2>3
<1>7. Deserved'
  <2>. SUFFICES ASSUME NEW x \in Worker, NEW t \in Token, Op("avail", "add", t) \in Range(todo'[x])
                PROVE  Earned(t)'
    BY DEF Deserved
  <2>1. Op("avail", "add", t) \in Range(todo[x])
    BY <1>1
  <2>2. Pardoned(t)
    BY <2>1 DEF Pardoned, Awaited
  <2>3. outAt'[t] = outAt[t] /\ good'[t] = good[t]
    BY <2>2, OperationMerits
  <2>. QED BY <1>2, <2>1, <2>3 DEF Merit, Deserved, Earned
<1>. QED BY <1>5, <1>6, <1>7 DEF Merit

LEMMA StepMerit == Typed /\ (First => Merit) /\ [Next]_vars => (First => Merit)'
<1>. SUFFICES ASSUME Typed, First => Merit, [Next]_vars, First' PROVE Merit'
  OBVIOUS
<1>1. Typed' /\ setup' = setup /\ First /\ Merit
  BY StepTyped, StillFirst
<1>2. CASE Rests
  <2>1. /\ UNCHANGED <<setup, shared, todo, outAt, good>> /\ now' >= now /\ now' \in Nat
    BY <1>2 DEF Rests, worker, history
  <2>2. Stamped'
    BY <1>1, <2>1, MeritTyped DEF Merit, Stamped
  <2>3. Credited'
    BY <1>1, <2>1 DEF Merit, Credited, Crediting
  <2>4. \A t \in Token : Earned(t) => Earned(t)'
    BY <2>1, MeritTyped DEF Earned, Cooldown, SuccessThreshold
  <2>5. Deserved'
    BY <1>1, <2>1, <2>4 DEF Merit, Deserved
  <2>. QED BY <2>2, <2>3, <2>5 DEF Merit
<1>3. CASE \E w \in Worker : (HandlerStep(w) /\ Handles(w)) \/ Operates(w)
  BY <1>1, <1>3, HandlesEarns, OperatesEarns
<1>. QED BY <1>2, <1>3, StepTyped

LEMMA InitMerit == Init => Merit
<1>. SUFFICES ASSUME Init PROVE Merit
  OBVIOUS
<1>1. \A t \in Token : Crediting(t) = {}
  BY OneWrite DEF Init, Crediting
<1>2. \A t \in Token : Cardinality(Crediting(t)) = 0
  BY <1>1, FS_EmptySet
<1>3. \A t \in Token : shared.successes[t] = 0 /\ good[t] = 0 /\ shared.since[t] = Never
  BY DEF Init
<1>4. Credited /\ Stamped
  BY <1>2, <1>3 DEF Credited, Stamped
<1>5. Deserved
  BY OneWrite DEF Init, Deserved
<1>. QED BY <1>4, <1>5 DEF Merit

\* Only who adds a token to the list makes it available.
LEMMA Returns ==
  ASSUME Typed, Typed', First, Merit, [Next]_vars, NEW t \in Token, Returned(t)
  PROVE  Earned(t)
<1>1. t \in shared'.avail \ shared.avail
  BY DEF Returned
<1>2. PICK w \in Worker : Operates(w)
  BY <1>1, StepTyped DEF Rests, Handles, Keys
<1>. DEFINE op == Head(todo[w])
<1>3. op \in PlainOps /\ op.do \notin {"clear", "init"}
  BY <1>2, FirstPlans DEF Operates
<1>4. Applies(w) /\ op.key = "avail"
  BY <1>1, <1>2 DEF Operates, Applies, Drops, Stays, Refuses, Keys
<1>5. op.do \in {"add", "remove"} /\ shared'.avail = Result(w, op, shared.avail)
  BY <1>3, <1>4 DEF PlainOps, Applies, Outcome
<1>6. op.do = "add" /\ op.token = t
  BY <1>1, <1>5 DEF Result
<1>7. op = Op("avail", "add", t)
  BY <1>3, <1>4, <1>6 DEF PlainOps, Op
<1>8. op \in Range(todo[w])
  BY <1>2, OperationShrinks
<1>. QED BY <1>7, <1>8 DEF Merit, Deserved

\* Until a config is pushed, a token comes back by a cooldown that has passed
\* since it was taken out, or by as many checks since as the threshold asks,
\* however the recoveries of several workers interleave (failover.go,
\* handleAvailableApiToken and the tick of SetApiTokensFailover).
THEOREM ReturnsEarned == Spec => EarnedReturn
<1>1. Typed /\ Typed' /\ (First => Merit) /\ [Next]_vars =>
        [(\A w \in Worker : gen'[w] = 1) => \A t \in Token : Returned(t) => Earned(t)]_vars
  BY StillFirst, Returns DEF First
<1>2. Init => (First => Merit)
  BY InitMerit
<1>. QED BY <1>1, <1>2, StepMerit, AlwaysTyped, PTL DEF Spec, EarnedReturn
-----------------------------------------------------------------------------
(***************************************************************************)
(* One worker runs the tick.                                               *)
(***************************************************************************)
\* Whoever runs the tick holds the lease.
Holds ==
  \A w \in Worker : hand[w] = "tick" /\ pc[w] # "lease" =>
    shared.lease = [vm |-> w, at |-> now]

\* Whoever is about to write the lease has found it free, unless it is too late.
Waits ==
  \A w \in Worker : pc[w] = "lease" => loaded[w] = "lease" /\ (fresh[w] => LeaseFree(w))

\* A step of w that is neither the tick's nor a write of the lease.
LEMMA OthersKeep ==
  ASSUME Holds, Waits, NEW w \in Worker, now' = now, shared'.lease = shared.lease,
         \A x \in Worker \ {w} : /\ pc'[x] = pc[x] /\ hand'[x] = hand[x]
                                 /\ loaded'[x] = loaded[x] /\ (fresh'[x] => fresh[x]),
         pc'[w] # "lease",
         hand'[w] = "tick" => hand[w] = "tick" /\ pc[w] # "lease"
  PROVE  Holds' /\ Waits'
<1>1. \A x \in Worker : LeaseFree(x)' = LeaseFree(x)
  BY DEF LeaseFree
<1>. QED BY <1>1 DEF Holds, Waits

LEMMA TickLeaseWaits ==
  ASSUME Typed, Typed', Holds, Waits, NEW w \in Worker, TickLease(w), Handles(w)
  PROVE  Holds' /\ Waits'
<1>1. /\ LeaseFree(w) /\ UNCHANGED <<now, shared>>
      /\ pc' = [pc EXCEPT ![w] = "lease"] /\ loaded' = [loaded EXCEPT ![w] = "lease"]
  BY DEF TickLease
<1>2. pc'[w] = "lease" /\ loaded'[w] = "lease"
  BY <1>1 DEF Typed, Controls, Copies
<1>3. \A x \in Worker : LeaseFree(x)' = LeaseFree(x)
  BY <1>1 DEF LeaseFree
<1>4. Holds'
  BY <1>1, <1>2 DEF Holds, Handles
<1>5. Waits'
  BY <1>1, <1>2, <1>3 DEF Waits, Handles
<1>. QED BY <1>4, <1>5

LEMMA SetLeaseHolds ==
  ASSUME Typed, Typed', Holds, Waits, NEW w \in Worker, SetLease(w), Handles(w)
  PROVE  Holds' /\ Waits'
<1>1. pc[w] = "lease" /\ hand[w] = "tick" /\ now' = now
  BY Standing DEF SetLease, Fits, Handles
<1>2. CASE Stores(w)
  <2>. DEFINE mine == [vm |-> w, at |-> now]
  <2>1. /\ shared' = [shared EXCEPT !["lease"] = mine]
        /\ fresh' = [x \in Worker |-> fresh[x] /\ x # w /\ loaded[x] # "lease"]
        /\ pc' = [pc EXCEPT ![w] = "scan"] /\ hand' = hand
    BY <1>2 DEF SetLease, Write
  <2>2. shared'.lease = mine /\ pc'[w] = "scan" /\ hand'[w] = "tick"
    BY <1>1, <2>1 DEF Typed, SharedTyped, Controls, Keys
  <2>3. LeaseFree(w)
    BY <1>1, <1>2 DEF Waits, Stores
  <2>4. ASSUME NEW x \in Worker, x # w, hand[x] = "tick", pc[x] # "lease" PROVE FALSE
    <3>1. shared.lease = [vm |-> x, at |-> now]
      BY <2>4 DEF Holds
    <3>2. LeaseTime \in Nat /\ now \in Nat
      BY FailoverAssumption, TokenAssumption DEF Typed
    <3>. QED BY <2>3, <2>4, <3>1, <3>2 DEF LeaseFree, NoLease, Never
  <2>5. Holds'
    BY <1>1, <2>2, <2>4 DEF Holds, Handles
  <2>6. \A x \in Worker : pc'[x] = "lease" =>
          x # w /\ pc[x] = "lease" /\ loaded[x] = "lease" /\ loaded'[x] = loaded[x]
    BY <2>2 DEF Handles, Waits
  <2>7. \A x \in Worker : fresh'[x] => loaded[x] # "lease"
    BY <2>1, Zenon
  <2>8. Waits'
    BY <2>6, <2>7 DEF Waits
  <2>. QED BY <2>5, <2>8
<1>3. CASE ~ Stores(w)
  <2>1. shared' = shared /\ hand' = [hand EXCEPT ![w] = NoToken] /\ pc' = [pc EXCEPT ![w] = "idle"]
    BY <1>3 DEF SetLease, Idle
  <2>2. hand'[w] = NoToken /\ pc'[w] = "idle"
    BY <2>1 DEF Typed, Controls
  <2>. QED BY <1>1, <2>1, <2>2, OthersKeep, Strings DEF Handles
<1>. QED BY <1>2, <1>3

\* No other handler is about the tick, unless it is the tick's.
LEMMA TickIsNew ==
  ASSUME Typed, NEW w \in Worker, HandlerStep(w), ~(TickLease(w) \/ SetLease(w))
  PROVE  \/ \E p \in Pcs \ {"lease"}, h \in (Hands \ {"tick"}) \union {hand[w]} :
              pc' = [pc EXCEPT ![w] = p] /\ hand' = [hand EXCEPT ![w] = h]
         \/ UNCHANGED <<pc, hand>>
<1>. DEFINE Goal == \/ \E p \in Pcs \ {"lease"}, h \in (Hands \ {"tick"}) \union {hand[w]} :
                         pc' = [pc EXCEPT ![w] = p] /\ hand' = [hand EXCEPT ![w] = h]
                    \/ UNCHANGED <<pc, hand>>
<1>0. /\ {"idle", "pick", "guard", "decide", "run"} \subseteq Pcs \ {"lease"}
      /\ {NoToken, "reload"} \union Token \union Req \subseteq Hands \ {"tick"}
      /\ hand = [hand EXCEPT ![w] = hand[w]]
  BY Strings, Standing DEF Pcs, Hands
<1>1. ASSUME NEW plan, Do(w, plan) PROVE Goal
  BY <1>0, <1>1 DEF Do, Idle
<1>2. CASE Guard(w) \/ Decide(w)
  BY <1>1, <1>2 DEF Guard, Decide
<1>3. CASE Pick(w) \/ Scan(w) \/ Reload(w)
  BY <1>0, <1>3 DEF Pick, Scan, Idle, Reads, Reload
<1>4. ASSUME NEW r \in Req, Arrive(w, r) PROVE Goal
  BY <1>0, <1>4 DEF Arrive, Reads
<1>5. ASSUME NEW r \in Req, Succeed(w, r) \/ Fail(w, r) PROVE Goal
  <2>. DEFINE t == req[r].token
  <2>1. t \in Token \union {NoToken}
    BY DEF Typed, Requests
  <2>2. \/ UNCHANGED <<pc, hand>>
        \/ hand' = [hand EXCEPT ![w] = t] /\ pc' \in {[pc EXCEPT ![w] = "run"], [pc EXCEPT ![w] = "guard"]}
    BY <1>5 DEF Succeed, Fail
  <2>. HIDE DEF t
  <2>. QED BY <1>0, <2>1, <2>2
<1>6. ASSUME NEW t \in Token, ProbeOk(w, t) \/ ProbeFails(w, t) PROVE Goal
  BY <1>0, <1>6 DEF ProbeOk, ProbeFails, worker
<1>. QED BY <1>2, <1>3, <1>4, <1>5, <1>6 DEF HandlerStep

LEMMA HandlesHolds ==
  ASSUME Typed, Typed', Holds, Waits, NEW w \in Worker, HandlerStep(w), Handles(w)
  PROVE  Holds' /\ Waits'
<1>1. CASE TickLease(w) \/ SetLease(w)
  BY <1>1, TickLeaseWaits, SetLeaseHolds
<1>2. CASE ~(TickLease(w) \/ SetLease(w))
  <2>1. shared' = shared /\ pc[w] # "lease"
    BY <1>2, Zenon DEF HandlerStep, Pick, Guard, Scan, Decide, Reload, Arrive, Succeed, Fail, ProbeOk, ProbeFails
  <2>2. \/ \E p \in Pcs \ {"lease"}, h \in (Hands \ {"tick"}) \union {hand[w]} :
             pc' = [pc EXCEPT ![w] = p] /\ hand' = [hand EXCEPT ![w] = h]
        \/ UNCHANGED <<pc, hand>>
    BY <1>2, <2>1, TickIsNew
  <2>3. pc'[w] # "lease" /\ (hand'[w] = "tick" => hand[w] = "tick")
    BY <2>1, <2>2 DEF Typed, Controls
  <2>. QED BY <2>1, <2>3, OthersKeep DEF Handles
<1>. QED BY <1>1, <1>2

LEMMA OperatesHolds ==
  ASSUME Typed, First, Holds, Waits, NEW w \in Worker, Operates(w)
  PROVE  Holds' /\ Waits'
<1>1. Head(todo[w]).key # "lease"
  BY FirstPlans DEF Operates, PlainOps
<1>2. shared'.lease = shared.lease
  BY <1>1 DEF Operates, Applies, Drops, Stays, Refuses, Keys
<1>. QED BY <1>2, OthersKeep, Strings DEF Operates

LEMMA StepLease == Typed /\ (First => Holds /\ Waits) /\ [Next]_vars => (First => Holds /\ Waits)'
<1>. SUFFICES ASSUME Typed, First => Holds /\ Waits, [Next]_vars, First' PROVE Holds' /\ Waits'
  OBVIOUS
<1>1. Typed' /\ First /\ Holds /\ Waits
  BY StepTyped, StillFirst
<1>2. CASE Rests
  <2>1. UNCHANGED <<shared, pc, hand, loaded, fresh>>
    BY <1>2 DEF Rests, worker
  <2>2. CASE now' = now
    BY <1>1, <2>1, <2>2 DEF Holds, Waits, LeaseFree
  <2>3. CASE now' # now
    <3>1. \A w \in Worker : pc[w] # "lease" /\ hand[w] # "tick"
      BY <1>2, <2>3, Standing, Strings DEF Rests, Fits
    <3>. QED BY <2>1, <3>1 DEF Holds, Waits
  <2>. QED BY <2>2, <2>3
<1>3. CASE \E w \in Worker : (HandlerStep(w) /\ Handles(w)) \/ Operates(w)
  BY <1>1, <1>3, HandlesHolds, OperatesHolds
<1>. QED BY <1>2, <1>3, StepTyped

\* The tick of failover.go is run by one worker at a time, however the reads and
\* writes of their leases interleave, until a push clears the lease: so no token
\* is recovered twice over, or probed by two workers.
THEOREM OneHolder == Spec => []LeaseExclusive
<1>1. Init => Holds /\ Waits
  BY Strings DEF Init, Holds, Waits
<1>2. (First => Holds /\ Waits) => LeaseExclusive
  <2>1. ASSUME Holds, NEW v \in Worker, NEW w \in Worker, v # w,
               hand[v] = "tick", hand[w] = "tick", pc[v] # "lease", pc[w] # "lease"
        PROVE  FALSE
    <3>1. shared.lease = [vm |-> v, at |-> now] /\ shared.lease = [vm |-> w, at |-> now]
      BY <2>1 DEF Holds
    <3>. QED BY <2>1, <3>1
  <2>. QED BY <2>1, Zenon DEF First, LeaseExclusive
<1>. QED BY <1>1, <1>2, StepLease, AlwaysTyped, PTL DEF Spec
-----------------------------------------------------------------------------
(***************************************************************************)
(* Retries.                                                                *)
(***************************************************************************)
SentPhases == {"upstream", "paused", "passed", "resumed", "replied"}

UsedTokens == {t \in Token : used[t] > 0}

\* The inductive invariant.
Waiting ==
  /\ phase = "waiting" => pending > 0
  /\ phase \in {"new", "list", "body"} => pending = 0 /\ ~spoiled
  /\ phase \in SentPhases => pending = 0 /\ ~spoiled

SentIffOut == sent # {} <=> phase \in SentPhases

SentTokens ==
  /\ phase \notin SentPhases => \A t \in Token : used[t] = 0
  /\ \A t \in Token : used[t] <= 1
  /\ phase \in {"upstream", "paused"} => \A t \in UsedTokens : t \notin list \ {inUse}

Counted ==
  /\ phase \notin {"paused", "passed", "resumed", "replied"} => retryCount = 0
  /\ phase \in SentPhases => Cardinality(UsedTokens) <= retryCount + 1

RetryInv == RetryTypeOK /\ Waiting /\ SentIffOut /\ SentTokens /\ Counted

LEMMA RetryConstants ==
  /\ IsFiniteSet(Token) /\ Token # {} /\ NoToken \notin Token
  /\ MaxRetries \in Nat /\ MaxRetries > 0 /\ MaxCallouts \in Nat
BY RetryAssumption, TokenAssumption

LEMMA InitRetry == RetryInit => RetryInv
<1>. SUFFICES ASSUME RetryInit PROVE RetryInv
  OBVIOUS
<1>1. RetryTypeOK
  <2>1. spoiled \in BOOLEAN /\ changes \in SUBSET Changes
    BY Zenon DEF RetryInit
  <2>2. pending \in 0..MaxCallouts /\ retryCount \in 0..MaxRetries /\ used \in [Token -> Nat]
    BY RetryConstants DEF RetryInit
  <2>3. avail \subseteq Token /\ list \subseteq Token /\ sent \subseteq SUBSET Changes
    BY DEF RetryInit
  <2>. QED BY <2>1, <2>2, <2>3 DEF RetryInit, RetryTypeOK
<1>2. Waiting /\ SentIffOut /\ SentTokens /\ Counted
  BY RetryConstants DEF RetryInit, Waiting, SentIffOut, SentTokens, Counted, SentPhases
<1>. QED BY <1>1, <1>2 DEF RetryInv

\* Sending with a token counts it, once.
LEMMA SendCounts ==
  ASSUME RetryTypeOK, NEW t \in Token \union {NoToken}, NEW made \in SUBSET Changes, Send(t, made)
  PROVE  /\ used' \in [Token -> Nat] /\ sent' # {} /\ sent' \subseteq sent \union {made}
         /\ \A x \in Token : used'[x] = IF x = t THEN used[x] + 1 ELSE used[x]
         /\ UsedTokens' \subseteq UsedTokens \union {t}
         /\ Cardinality(UsedTokens) \in Nat /\ Cardinality(UsedTokens') \in Nat
         /\ Cardinality(UsedTokens') <= Cardinality(UsedTokens) + 1
<1>1. /\ used' \in [Token -> Nat]
      /\ \A x \in Token : used'[x] = IF x = t THEN used[x] + 1 ELSE used[x]
  BY RetryConstants DEF Send, RetryTypeOK
<1>2. UsedTokens' \subseteq UsedTokens \union {t}
  BY <1>1 DEF UsedTokens
<1>3. /\ IsFiniteSet(UsedTokens) /\ Cardinality(UsedTokens) \in Nat
      /\ IsFiniteSet(UsedTokens') /\ Cardinality(UsedTokens') \in Nat
  BY RetryConstants, FS_Subset, FS_CardinalityType DEF UsedTokens
<1>4. /\ IsFiniteSet(UsedTokens \union {t}) /\ Cardinality(UsedTokens \union {t}) \in Nat
      /\ Cardinality(UsedTokens \union {t}) <= Cardinality(UsedTokens) + 1
  <2>1. CASE t \in UsedTokens
    <3>1. UsedTokens \union {t} = UsedTokens
      BY <2>1
    <3>2. Cardinality(UsedTokens) <= Cardinality(UsedTokens) + 1
      BY <1>3
    <3>. HIDE DEF UsedTokens
    <3>. QED BY <1>3, <3>1, <3>2
  <2>2. CASE t \notin UsedTokens
    BY <1>3, <2>2, FS_AddElement
  <2>. QED BY <2>1, <2>2
<1>5. Cardinality(UsedTokens') <= Cardinality(UsedTokens \union {t})
  BY <1>2, <1>3, <1>4, FS_Subset
<1>6. sent' # {} /\ sent' \subseteq sent \union {made}
  BY DEF Send
<1>. QED BY <1>1, <1>2, <1>3, <1>4, <1>5, <1>6

\* The request itself goes out, at once or after its callouts.
LEMMA FirstSend ==
  ASSUME RetryInv, phase \in {"body", "waiting"}, phase' = "upstream", Send(inUse, changes),
         pending' = 0, spoiled' = FALSE,
         UNCHANGED <<avail, inUse, list, retryCount, failed, request>>
  PROVE  RetryInv'
<1>. USE DEF RetryInv
<1>1. inUse \in Token \union {NoToken} /\ changes \in SUBSET Changes
  BY DEF RetryTypeOK
<1>2. /\ used' \in [Token -> Nat] /\ sent' # {} /\ sent' \subseteq sent \union {changes}
      /\ \A x \in Token : used'[x] = IF x = inUse THEN used[x] + 1 ELSE used[x]
      /\ Cardinality(UsedTokens) \in Nat /\ Cardinality(UsedTokens') \in Nat
      /\ Cardinality(UsedTokens') <= Cardinality(UsedTokens) + 1
  BY <1>1, SendCounts
<1>3. \A t \in Token : used[t] = 0
  BY DEF SentTokens, SentPhases
<1>4. Cardinality(UsedTokens) = 0
  <2>1. UsedTokens = {}
    BY <1>3 DEF UsedTokens
  <2>. QED BY <2>1, FS_EmptySet
<1>5. RetryTypeOK'
  <2>1. 0 \in 0..MaxCallouts
    BY RetryConstants
  <2>. QED BY <1>1, <1>2, <2>1 DEF RetryTypeOK, request
<1>6. Waiting' /\ SentIffOut'
  BY <1>2 DEF Waiting, SentIffOut, SentPhases
<1>7. SentTokens'
  BY <1>2, <1>3 DEF SentTokens, UsedTokens, SentPhases
<1>8. Counted'
  BY <1>2, <1>4 DEF Counted, SentPhases
<1>. QED BY <1>5, <1>6, <1>7, <1>8

\* A retry goes out with a token of the list that has not been sent.
LEMMA RetrySend ==
  ASSUME RetryInv, phase \in {"upstream", "paused"}, phase' = "paused", SendRetry,
         retryCount' = retryCount + 1, retryCount + 1 <= MaxRetries,
         UNCHANGED <<avail, waits, request>>
  PROVE  RetryInv'
<1>. USE DEF RetryInv
<1>1. PICK t \in Remaining(list, inUse) : inUse' = t /\ Send(t, {})
  BY DEF SendRetry
<1>2. list' = list \ {inUse} /\ t \in list' /\ t \in Token
  BY <1>1 DEF SendRetry, Remaining, RetryTypeOK
<1>3. /\ used' \in [Token -> Nat] /\ sent' # {} /\ sent' \subseteq sent \union {{}}
      /\ \A x \in Token : used'[x] = IF x = t THEN used[x] + 1 ELSE used[x]
      /\ Cardinality(UsedTokens) \in Nat /\ Cardinality(UsedTokens') \in Nat
      /\ Cardinality(UsedTokens') <= Cardinality(UsedTokens) + 1
  BY <1>1, <1>2, SendCounts
<1>4. used[t] = 0
  BY <1>2 DEF SentTokens, UsedTokens, RetryTypeOK
<1>5. retryCount \in Nat
  BY DEF RetryTypeOK
<1>6. RetryTypeOK'
  BY <1>1, <1>2, <1>3, <1>5, RetryConstants DEF RetryTypeOK, waits, request
<1>7. Waiting' /\ SentIffOut'
  BY <1>3 DEF Waiting, SentIffOut, SentPhases, waits
<1>8. SentTokens'
  BY <1>1, <1>2, <1>3, <1>4 DEF SentTokens, UsedTokens, SentPhases
<1>9. Counted'
  <2>1. Cardinality(UsedTokens) <= retryCount + 1
    BY DEF Counted, SentPhases
  <2>. QED BY <1>3, <1>5, <2>1 DEF Counted, SentPhases
<1>. QED BY <1>6, <1>7, <1>8, <1>9

\* The client is answered; no token is used after that.
LEMMA AnswerStep ==
  ASSUME RetryInv, phase \in {"upstream", "paused"}, phase' \in {"passed", "resumed", "replied"},
         inUse' \in Token \union {NoToken}, retryCount' \in {retryCount, retryCount + 1},
         retryCount' <= MaxRetries,
         UNCHANGED <<avail, waits, list, used, request, sent>>
  PROVE  RetryInv'
<1>. USE DEF RetryInv
<1>1. retryCount \in Nat /\ retryCount' \in 0..MaxRetries /\ retryCount <= retryCount'
  BY RetryConstants DEF RetryTypeOK
<1>2. RetryTypeOK'
  BY <1>1 DEF RetryTypeOK, waits, request
<1>3. Waiting' /\ SentIffOut' /\ SentTokens'
  BY DEF Waiting, SentIffOut, SentTokens, SentPhases, waits
<1>4. Counted'
  <2>1. Cardinality(UsedTokens) \in Nat /\ UsedTokens' = UsedTokens
    BY RetryConstants, FS_Subset, FS_CardinalityType DEF UsedTokens
  <2>2. Cardinality(UsedTokens) <= retryCount + 1
    BY DEF Counted, SentPhases
  <2>. QED BY <1>1, <2>1, <2>2 DEF Counted, SentPhases
<1>. QED BY <1>2, <1>3, <1>4

\* Nothing has been sent, and nothing is.
LEMMA UnsentStep ==
  ASSUME RetryInv, phase \notin SentPhases, phase' \notin SentPhases, RetryTypeOK', Waiting',
         UNCHANGED <<retryCount, used, sent>>
  PROVE  RetryInv'
BY DEF RetryInv, SentIffOut, SentTokens, Counted, SentPhases, UsedTokens

LEMMA StepRetry == RetryInv /\ [RetryNext]_retryVars => RetryInv'
<1>. SUFFICES ASSUME RetryInv, [RetryNext]_retryVars PROVE RetryInv'
  OBVIOUS
<1>. USE DEF RetryInv
<1>1. CASE SetApiTokenInUse
  BY <1>1, UnsentStep DEF SetApiTokenInUse, RetryTypeOK, Waiting, SentPhases, waits, request
<1>2. CASE SetAvailableApiTokens
  BY <1>2, UnsentStep DEF SetAvailableApiTokens, RetryTypeOK, Waiting, SentPhases, waits, request
<1>3. CASE RefuseBody
  BY <1>3, UnsentStep DEF RefuseBody, RetryTypeOK, Waiting, SentPhases, waits, request
<1>4. CASE SendBody
  <2>1. pending = 0 /\ ~spoiled /\ spoiled \in BOOLEAN
    BY <1>4 DEF SendBody, Waiting, RetryTypeOK
  <2>2. pending' = 0 /\ spoiled' = FALSE
    BY <1>4, <2>1 DEF SendBody, waits
  <2>. QED BY <1>4, <2>2, FirstSend DEF SendBody
<1>5. CASE WaitForCallouts
  <2>1. PICK n \in 0..MaxCallouts, d \in 0..MaxCallouts :
          /\ pending' = n /\ spoiled' = (d > 0)
          /\ phase' = IF n = 0 THEN "refused" ELSE "waiting"
    BY <1>5 DEF WaitForCallouts
  <2>2. RetryTypeOK'
    BY <1>5, <2>1 DEF WaitForCallouts, RetryTypeOK, request
  <2>3. Waiting' /\ phase \notin SentPhases /\ phase' \notin SentPhases
    BY <1>5, <2>1 DEF WaitForCallouts, Waiting, SentPhases
  <2>. QED BY <1>5, <2>2, <2>3, UnsentStep DEF WaitForCallouts
<1>6. ASSUME NEW ok \in BOOLEAN, CalloutDone(ok)
      PROVE  RetryInv'
  <2>1. phase = "waiting" /\ pending > 0 /\ pending \in 0..MaxCallouts
    BY <1>6 DEF CalloutDone, Waiting, RetryTypeOK
  <2>2. spoiled' \in BOOLEAN /\ pending' \in 0..MaxCallouts
    BY <1>6, <2>1, RetryConstants DEF CalloutDone, Spoils, RetryTypeOK
  <2>3. CASE pending > 1 \/ Spoils(ok)
    <3>1. UNCHANGED <<used, sent>> /\ phase' \in {"waiting", "refused"}
      BY <1>6, <2>1, <2>3 DEF CalloutDone
    <3>2. RetryTypeOK'
      BY <1>6, <2>1, <2>2, <3>1 DEF CalloutDone, RetryTypeOK, request
    <3>3. Waiting'
      BY <1>6, <2>1, <2>3, <3>1 DEF CalloutDone, Waiting, SentPhases
    <3>. QED BY <1>6, <2>1, <3>1, <3>2, <3>3, UnsentStep DEF CalloutDone, SentPhases
  <2>4. CASE ~(pending > 1 \/ Spoils(ok))
    <3>1. phase' = "upstream" /\ Send(inUse, changes) /\ pending' = 0 /\ spoiled' = FALSE
      BY <1>6, <2>1, <2>4 DEF CalloutDone, Spoils, RetryTypeOK
    <3>. QED BY <1>6, <2>1, <3>1, FirstSend DEF CalloutDone
  <2>. QED BY <2>3, <2>4
<1>7. CASE UpstreamOk
  BY <1>7, AnswerStep DEF UpstreamOk, RetryTypeOK
<1>8. CASE RetryFailedRequest
  <2>1. retryCount = 0 /\ 1 <= MaxRetries /\ retryCount + 1 = 1
    BY <1>8, RetryConstants DEF RetryFailedRequest, Counted
  <2>. QED BY <1>8, <2>1, RetrySend DEF RetryFailedRequest
<1>9. CASE RetryNotSent
  <2>1. retryCount = 0 /\ 1 <= MaxRetries /\ retryCount + 1 = 1
    BY <1>9, RetryConstants DEF RetryNotSent, Counted
  <2>2. inUse' \in Token \union {NoToken}
    BY <1>9 DEF RetryNotSent, SendFails, Remaining, RetryTypeOK
  <2>. QED BY <1>9, <2>1, <2>2, AnswerStep DEF RetryNotSent
<1>10. CASE RetrySucceeded
  BY <1>10, AnswerStep DEF RetrySucceeded, RetryTypeOK
<1>11. CASE RetryAgain
  BY <1>11, RetrySend DEF RetryAgain, MayRetry
<1>12. CASE RetryGivesUp
  <2>1. inUse' \in Token \union {NoToken}
    BY <1>12 DEF RetryGivesUp, Resumes, SendFails, Remaining, RetryTypeOK
  <2>2. /\ phase = "paused" /\ phase' = "resumed" /\ retryCount' <= MaxRetries
        /\ retryCount' \in {retryCount, retryCount + 1}
    BY <1>12 DEF RetryGivesUp, Resumes, MayRetry, RetryTypeOK
  <2>. QED BY <1>12, <2>1, <2>2, AnswerStep DEF RetryGivesUp
<1>13. CASE Failovers
  BY <1>13, UnsentStep DEF Failovers, RetryTypeOK, Waiting, SentPhases, waits, request
<1>14. CASE UNCHANGED retryVars
  BY <1>14 DEF retryVars, waits, request, RetryTypeOK, Waiting, SentIffOut, SentTokens, Counted, UsedTokens
<1>. QED BY <1>1, <1>2, <1>3, <1>4, <1>5, <1>6, <1>7, <1>8, <1>9, <1>10, <1>11, <1>12,
            <1>13, <1>14 DEF RetryNext, RetryCall, Over

\* A request goes out once with a token, no more often than maxRetries allows,
\* and only when all of its callouts have succeeded.
THEOREM SentOnce == RetrySpec => []SentSoundly
<1>1. RetryInv => SentSoundly
  <2>. SUFFICES ASSUME RetryInv PROVE SentSoundly
    OBVIOUS
  <2>. USE DEF RetryInv
  <2>1. Cardinality(UsedTokens) \in Nat /\ Cardinality(UsedTokens) <= MaxRetries + 1
    <3>1. CASE phase \in SentPhases
      <4>1. Cardinality(UsedTokens) \in Nat
        BY RetryConstants, FS_Subset, FS_CardinalityType DEF UsedTokens
      <4>. QED BY <3>1, <4>1, RetryConstants DEF Counted, RetryTypeOK
    <3>2. CASE phase \notin SentPhases
      <4>1. UsedTokens = {}
        BY <3>2 DEF SentTokens, UsedTokens
      <4>. QED BY <4>1, FS_EmptySet, RetryConstants
    <3>. QED BY <3>1, <3>2
  <2>. QED BY <2>1 DEF SentSoundly, SentTokens, SentIffOut, Waiting, SentPhases, UsedTokens
<1>. QED BY <1>1, InitRetry, StepRetry, PTL DEF RetrySpec
=================================================================================
