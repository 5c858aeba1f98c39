--------------------------- MODULE DecisionCallout ---------------------------
(***************************************************************************)
(* gpustack-lb-decision-service asks a decision service for a ranking of   *)
(* the candidate models (main.go).  The request is paused for the callout; *)
(* an answer 401, 403 or 429 marks the credential in shared data and tries *)
(* the next one from inside the callback, any other answer ends the pause, *)
(* with a rank entry if it is a verdict.                                   *)
(*                                                                         *)
(* Worker threads share one map of the credentials that cool down, under   *)
(* the host's compare-and-swap, where a write with cas 0 is unconditional. *)
(* A worker runs one handler at a time; another worker can step in between *)
(* the read of the map and its write.                                      *)
(***************************************************************************)
EXTENDS Naturals, Sequences, FiniteSets, SequencesExt

CONSTANTS
  Worker, Req, Token,
  None,          \* no worker, config or map yet; the anonymous credential
  Config,        \* the configurations a worker may be given
  Query,         \* the requests that may arrive
  MaxRetries,    \* tokenStateCasMaxRetries
  Established,   \* whether a global load has created the shared key
  MaxTime,       \* bound on the clock
  MaxLoads       \* bound on the config loads of each worker

ASSUME DecisionAssumption ==
  /\ None \notin Token \union Worker
  /\ \A c \in Config : /\ c.tokens \in Seq(Token) /\ IsInjective(c.tokens)
                       /\ c.cooldown \in Nat
                       /\ {c.selects, c.serves, c.global} \subseteq BOOLEAN
  /\ MaxRetries \in Nat \ {0} /\ Established \in BOOLEAN
  /\ MaxTime \in Nat /\ MaxLoads \in Nat

Failures == {"401", "403", "429"}    \* tokenFailureStatuses
\* What the decision service may answer: a status without a verdict, no answer
\* before decisionTimeoutMs, or 200 with an answer readAnswer rejects, one
\* that matches no candidate, or a verdict.
Answers == Failures \union {"5xx", "none", "malformed", "nomatch", "verdict"}

VARIABLES
  now,      \* currentTimeMillis
  kv,       \* the shared entry: its cas, and since when each token cools down
  conf,     \* each worker's configuration
  loads,    \* config loads of each worker so far
  req,      \* requests, see NewReq
  failedAt  \* history: the last failure recorded of each token since a reset

vars == <<now, kv, conf, loads, req, failedAt>>

\* pc: "new", "body" (headers stopped for the body), "paused" (a callout is
\* out), "load" and "store" (inside the callback), "gone" (resumed or passed).
\* left: the places in conf.tokens of the credentials left, the one in use first.
NewReq == [pc |-> "new", on |-> None, conf |-> None, left |-> {}, calls |-> 0, paused |-> FALSE, resumes |-> 0, ranks |-> 0,
           seen |-> None, attempt |-> 0]

Empty == [t \in {} |-> 0]

Init ==
  /\ now = 0
  /\ kv = [cas |-> IF Established THEN 1 ELSE 0, since |-> Empty]
  /\ conf \in [Worker -> Config]
  /\ loads = [w \in Worker |-> 0]
  /\ req = [r \in Req |-> NewReq]
  /\ failedAt = Empty

Idle(w) == \A r \in Req : req[r].on = w => req[r].pc \notin {"load", "store"}

\* onHttpRequestHeaders: what makes the plugin buffer the body.
Arms(c, q) ==
  /\ ~q.fallback
  /\ c.selects /\ c.serves
  /\ q.models >= 2 /\ ~q.weighted
  /\ q.body

Headers(r, w, q) ==
  /\ req[r].pc = "new" /\ Idle(w)
  /\ req' = [req EXCEPT ![r] = [@ EXCEPT !.on = w, !.conf = conf[w],
                                !.pc = IF Arms(conf[w], q) THEN "body" ELSE "gone"]]
  /\ UNCHANGED <<now, kv, conf, loads, failedAt>>

Cooled(since, t, at, cooldown) == t \notin DOMAIN since \/ at - since[t] >= cooldown

\* activeTokens, by their places: those that do not cool down; all if all do.
ActiveTokens(c) ==
  LET live == {i \in DOMAIN c.tokens : Cooled(kv.since, c.tokens[i], now, c.cooldown)}
  IN  IF c.cooldown = 0 \/ Len(c.tokens) <= 1 \/ live = {} THEN DOMAIN c.tokens ELSE live

\* onHttpRequestBody: the callout is sent, or nothing is and the request
\* goes on: no usable question, or a dispatch that fails.
Body(r) ==
  /\ req[r].pc = "body" /\ Idle(req[r].on)
  /\ \/ req' = [req EXCEPT ![r] = [@ EXCEPT !.pc = "paused", !.paused = TRUE, !.calls = 1,
                                           !.left = ActiveTokens(req[r].conf)]]
     \/ req' = [req EXCEPT ![r].pc = "gone"]
  /\ UNCHANGED <<now, kv, conf, loads, failedAt>>

TokenOf(q) == IF q.left # {} THEN q.conf.tokens[Min(q.left)] ELSE None

Others(q) == {i \in q.left : \E j \in q.left : j < i}

\* ResumeHttpRequest; what the plugin kept of the request is of no more use.
Resumed(q) == [NewReq EXCEPT !.pc = "gone", !.paused = q.paused, !.calls = q.calls,
                             !.resumes = q.resumes + 1, !.ranks = q.ranks]

\* applyVerdict(readAnswer): only a verdict is ranked, the request goes on.
Applied(q, a) == Resumed([q EXCEPT !.ranks = IF a = "verdict" THEN @ + 1 ELSE @])

\* The callback after a credential failure: the next token, or the end.
Sent(q) == [q EXCEPT !.pc = "paused", !.left = Others(q), !.calls = @ + 1, !.attempt = 0]
\* fault: the failed dispatch of a retry is left to the caller, as the first is
NextTokenStuck(q, a) ==
  IF Others(q) # {} THEN {Sent(q), [q EXCEPT !.pc = "paused", !.attempt = 0]}
  ELSE {Applied(q, a)}
\* fault: the verdict is applied after the retry was sent
NextTokenTwice(q, a) ==
  IF Others(q) # {} THEN {[Sent(q) EXCEPT !.resumes = @ + 1], Resumed(q)}
  ELSE {Applied(q, a)}
NextToken(q, a) ==
  IF Others(q) # {} THEN {Sent(q), Resumed(q)} ELSE {Applied(q, a)}

\* The status is kept in seen while the callback marks the token.
Answer(r, a) ==
  LET q == [req[r] EXCEPT !.calls = @ - 1] IN
  /\ q.pc = "paused" /\ req[r].calls > 0 /\ Idle(q.on)
  /\ IF a \notin Failures
     THEN req' = [req EXCEPT ![r] = Applied(q, a)]
     ELSE IF TokenOf(q) # None /\ q.conf.cooldown > 0
     THEN req' = [req EXCEPT ![r] = [q EXCEPT !.pc = "load", !.attempt = 1]]
     ELSE \E n \in NextToken(q, a) : req' = [req EXCEPT ![r] = n]
  /\ UNCHANGED <<now, kv, conf, loads, failedAt>>

\* markTokenUnavailable, one round: the map read, stamped and pruned ...
Merged(c, t) ==
  LET since == [x \in DOMAIN kv.since \union {t} |-> IF x = t THEN now ELSE kv.since[x]]
      kept == {x \in DOMAIN since : x \in ToSet(c.tokens) /\ ~Cooled(since, x, now, c.cooldown)}
  IN  [x \in kept |-> since[x]]

MarkLoad(r) ==
  /\ req[r].pc = "load"
  /\ req' = [req EXCEPT ![r] = [@ EXCEPT !.pc = "store",
       !.seen = [cas |-> kv.cas, since |-> Merged(req[r].conf, TokenOf(req[r])), at |-> now]]]
  /\ UNCHANGED <<now, kv, conf, loads, failedAt>>

Swaps(cas) == TRUE   \* fault: written whatever has been written since
Swappable(cas) == cas = 0 \/ cas = kv.cas

Marked(q) == {[n EXCEPT !.seen = None] : n \in NextToken(q, "429")}

\* ... and written.  A write that lost the race starts over, MaxRetries times
\* at most; one the host refuses is given up.
MarkStore(r) ==
  LET q == req[r] IN
  /\ q.pc = "store"
  /\ \/ /\ Swappable(q.seen.cas)
        /\ kv' = [cas |-> kv.cas + 1, since |-> q.seen.since]
        /\ failedAt' = [x \in DOMAIN failedAt \union {TokenOf(q)} |->
                          IF x = TokenOf(q) THEN q.seen.at ELSE failedAt[x]]
        /\ \E n \in Marked(q) : req' = [req EXCEPT ![r] = n]
     \/ /\ ~Swappable(q.seen.cas)
        /\ IF q.attempt < MaxRetries
           THEN req' = [req EXCEPT ![r] = [q EXCEPT !.pc = "load", !.attempt = @ + 1,
                                           !.seen = None]]
           ELSE \E n \in Marked(q) : req' = [req EXCEPT ![r] = n]
        /\ UNCHANGED <<kv, failedAt>>
     \/ /\ \E n \in Marked(q) : req' = [req EXCEPT ![r] = n]
        /\ UNCHANGED <<kv, failedAt>>
  /\ UNCHANGED <<now, conf, loads>>

\* parseConfigInto on a config push.  A global config resets the shared map.
Load(w, c) ==
  /\ Idle(w) /\ loads[w] < MaxLoads
  /\ conf' = [conf EXCEPT ![w] = c]
  /\ loads' = [loads EXCEPT ![w] = @ + 1]
  /\ IF c.global
     THEN kv' = [cas |-> kv.cas + 1, since |-> Empty] /\ failedAt' = Empty
     ELSE UNCHANGED <<kv, failedAt>>
  /\ UNCHANGED <<now, req>>

Tick == now < MaxTime /\ now' = now + 1 /\ UNCHANGED <<kv, conf, loads, req, failedAt>>

Over == (\A r \in Req : req[r].pc = "gone") /\ UNCHANGED vars

Callback(r) == (\E a \in Answers : Answer(r, a)) \/ MarkLoad(r) \/ MarkStore(r)

Next ==
  \/ \E r \in Req : \/ \E w \in Worker, q \in Query : Headers(r, w, q)
                    \/ Body(r) \/ Callback(r)
  \/ \E w \in Worker, c \in Config : Load(w, c)
  \/ Tick
  \/ Over

\* The host ends every callout with an answer or a timeout, and a callback
\* runs to its end.
Spec == Init /\ [][Next]_vars /\ \A r \in Req : WF_vars(Callback(r))
-----------------------------------------------------------------------------
\* A request that has been paused has exactly one way on: its callout, the
\* callback at work on it, or the one resume.  The recursion in the callback
\* neither resumes under a callout that is out nor ends without a resume, and
\* no request is ranked twice.
OneWayOn == \A r \in Req :
  LET q == req[r] IN
  /\ q.paused => q.calls + q.resumes + (IF q.pc \in {"load", "store"} THEN 1 ELSE 0) = 1
  /\ q.ranks <= q.resumes

\* A credential whose failure was recorded is not what the next request is sent
\* with while it cools down, unless all of them do: no record is lost to the
\* concurrent records of other workers.
CoolsDown(c, t) == t \in DOMAIN failedAt /\ now - failedAt[t] < c.cooldown
NoWastedCallout == \A w \in Worker :
  LET c == conf[w] IN
  Len(c.tokens) > 1 /\ CoolsDown(c, c.tokens[Min(ActiveTokens(c))]) =>
    \A t \in ToSet(c.tokens) : CoolsDown(c, t)

\* Whatever the service answers to whichever token, a paused request goes on.
NeverParked == \A r \in Req : req[r].pc \in {"paused", "load", "store"} ~> req[r].pc = "gone"
===============================================================================
