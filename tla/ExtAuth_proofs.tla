----------------------------- MODULE ExtAuth_proofs -----------------------------
(***************************************************************************)
(* Theorems about ExtAuth, for any keys, requests, workers and plans.      *)
(*                                                                         *)
(* ConsumerExact and RevokedStaysOut speak of requests that are on their   *)
(* way to the model, LocalVerdictExact of decisions without the server;    *)
(* whom those stand for was decided earlier, by a marker of the first      *)
(* pass, a cache entry of another request, or an answer given while tables *)
(* changed.  The invariant says of each of these what it can say: it names *)
(* nobody but the client it is about, and it calls a key by another name   *)
(* only if the server will not admit that key again.                       *)
(* FallbackSurvives compares two passes of one request; Passes says what   *)
(* the first leaves for the second.                                        *)
(***************************************************************************)
EXTENDS ExtAuth, TLAPS

Fields == {"pc", "pass", "worker", "shape", "cf", "at", "id", "mark", "answer",
           "consumer", "how", "when", "status", "was"}

\* The server does not admit k any more, and never will.
Gone(k) == k \in srv.dead \/ ~(now < Expiry[k])

\* A client without a credential.
Anonymous(q) == q.shape.session = "none" /\ q.shape.key = Nobody

\* Who is called c is who, unless his key is gone.
Certain(who, c, q) ==
  /\ who = Anon => Anonymous(q)
  /\ who \in Key => c \in {Nobody, who} \/ Gone(who)

\* A marker that came with q.
MarkOK(m, q) ==
  m.by # "none" => /\ m.consumer \in {Anon, Claims(q)} /\ m.consumer # Nobody
                   /\ m.who \in {Nobody, Anon, Claims(q)}
                   /\ m.by = "plugin" => m.who # Nobody /\ Certain(m.who, m.consumer, q)

\* Tables that the server has had.
TablesOK(c) ==
  c \in Config /\ c.live \intersect c.dead = {} /\ c.live \subseteq srv.live \union srv.dead

ShapeOK(s) == s \in Shape /\ (s.secret \/ s.key \in Digest)

Base(q) ==
  /\ DOMAIN q = Fields
  /\ q.pass \in {1, 2} /\ q.worker \in Worker /\ ShapeOK(q.shape) /\ TablesOK(q.cf)
  /\ MarkOK(q.mark, q)

\* What the tiers, and the server's answer, have made of the caller.
IdNames(q) ==
  /\ DOMAIN q.id = {"state", "who", "consumer"}
  /\ q.id.who \in {Nobody, Anon, Claims(q)} /\ q.id.consumer \in {Nobody, Anon, Claims(q)}
  /\ Certain(q.id.who, q.id.consumer, q)

\* Only the server's word may stand for a caller that the tables do not hold.
IdOK(q) ==
  /\ IdNames(q)
  /\ q.how # "server" =>
       IF q.id.state = "resolved"
         THEN q.id.who = Anon \/ (q.id.who \in Key /\ Live(q.cf, q.id.who, q.at))
         ELSE q.id.who = Nobody /\ q.id.consumer = Nobody

\* An answer to q, if there is one yet.
AnswerFits(v, q) ==
  /\ v.status \in {0, 200, 400, 401, 403, 500} /\ (v.status = 0 => v = NoAnswer)
  /\ v.status = 200 => /\ v.consumer \in {Anon, Claims(q)} /\ v.consumer # Nobody
                       /\ Asserts(q) => Certain(q.id.who, v.consumer, q)
                       /\ v.consumer # Anon => v.mark.by = "server"
  /\ v.ref # Nobody => /\ v.ref \in Key \ Digest /\ v.ref = v.consumer
                       /\ v.ref = Presented(q).key /\ v.ref = Claims(q)
  /\ v.mark.by # "plugin" /\ MarkOK(v.mark, q)

AnswerOK(q) == AnswerFits(q.answer, q)

Passed(q) ==
  q.pc = "upstream" =>
    /\ q.consumer \in {Nobody, Anon, Claims(q)}
    /\ q.consumer = Nobody => q.how = "waived"
    /\ \/ q.how = "server" /\ q.answer.status = 200
       \/ q.how = "waived" /\ q.answer.status \in {0, 500} /\ mode # "closed"
       \/ q.how = "local" /\ q.id.state = "resolved"

Good(q) ==
  q.pc # "idle" =>
    /\ Base(q) /\ IdOK(q) /\ AnswerOK(q) /\ Passed(q)
    /\ q.how = "server" => q.pc = "upstream"
    /\ q.pc \in {"evicting", "paused"} => q.how = "none"
    /\ q.pc = "evicting" => q.answer = NoAnswer /\ q.id = Unresolved

IInv ==
  /\ now \in Nat
  /\ TablesOK(srv) /\ DOMAIN conf = Worker /\ \A w \in Worker : TablesOK(conf[w])
  /\ \A r \in Req : \A s \in offers[r] : ShapeOK(s)
  /\ cache \subseteq Key \ Digest
  /\ DOMAIN req = Req /\ \A r \in Req : Good(req[r])

LEMMA Names ==
  /\ User \notin Key /\ Nobody \notin Key /\ Anon \notin Key /\ Unknown \notin Key
  /\ User # Nobody /\ User # Anon /\ Anon # Nobody /\ Unknown # Nobody
  /\ Digest \subseteq Key
BY ExtAuthAssumption

LEMMA InitIInv == Init => IInv
<1>. SUFFICES ASSUME Init PROVE IInv
  OBVIOUS
<1>1. PICK p \in Plans : srv = p.srv /\ mode = p.mode /\ offers = p.offers
  BY DEF Init
<1>2. /\ p.srv \in Config /\ p.srv.live \intersect p.srv.dead = {}
      /\ p.offers \in [Req -> SUBSET Shape]
      /\ \A r \in Req : \A s \in p.offers[r] : s.secret \/ s.key \in Digest
  BY ExtAuthAssumption
<1>3. Idle.pc = "idle"
  BY DEF Idle, Blank
<1>. QED BY <1>1, <1>2, <1>3 DEF Init, IInv, TablesOK, ShapeOK, Good

-----------------------------------------------------------------------------
(***************************************************************************)
(* The tiers.                                                              *)
(***************************************************************************)
\* Whoever presents a live key of the tables, with its secret, claims it.
LEMMA Presents ==
  ASSUME NEW q, Base(q), Presented(q).session = "none", Presented(q).key \in Key,
         Presented(q).secret
  PROVE  q.pass = 1 /\ Presented(q).key = Claims(q)
<1>1. q.shape = [session |-> q.shape.session, key |-> q.shape.key, secret |-> q.shape.secret,
                 model |-> q.shape.model, conn |-> q.shape.conn, failing |-> q.shape.failing]
  BY DEF Base, ShapeOK, Shape
<1>2. q.pass = 1
  BY <1>1, Names DEF Base, Presented
<1>. QED BY <1>1, <1>2 DEF Presented, Claims

LEMMA Resolves ==
  ASSUME NEW q, Base(q), cache \subseteq Key \ Digest
  PROVE  LET id == Resolve(q) IN
         /\ DOMAIN id = {"state", "who", "consumer"}
         /\ id.who \in {Nobody, Anon, Claims(q)} /\ id.consumer \in {Nobody, Anon, Claims(q)}
         /\ Certain(id.who, id.consumer, q)
         /\ IF id.state = "resolved"
              THEN id.who = Anon \/ (id.who \in Key /\ Live(q.cf, id.who, q.at))
              ELSE id.who = Nobody /\ id.consumer = Nobody
         /\ id.state = "rejected" => q.shape.session = "none" /\ ~q.shape.secret
<1>. USE Names
<1>0. q.shape = [session |-> q.shape.session, key |-> q.shape.key, secret |-> q.shape.secret,
                 model |-> q.shape.model, conn |-> q.shape.conn, failing |-> q.shape.failing]
      /\ (q.shape.secret \/ q.shape.key \in Digest) /\ q.cf.live \subseteq Key
  BY DEF Base, ShapeOK, Shape, TablesOK, Config
<1>1. CASE MarkerHolds(q)
  <2>1. Resolve(q) = Named(q.mark.who, q.mark.consumer)
    BY <1>1 DEF Resolve
  <2>2. q.mark.who = Anon \/ (q.mark.who \in Key /\ Live(q.cf, q.mark.who, q.at))
    BY <1>0, <1>1 DEF MarkerHolds, Live
  <2>3. MarkOK(q.mark, q) /\ q.mark.by = "plugin"
    BY <1>1 DEF Base, MarkerHolds
  <2>. QED BY <2>1, <2>2, <2>3 DEF Named, MarkOK
<1>2. CASE ~MarkerHolds(q) /\ ServerFirst(q)
  BY <1>2 DEF Resolve, Unresolved, Certain
<1>3. CASE ~MarkerHolds(q) /\ ~ServerFirst(q) /\ InKeys(q)
  <2>1. Presented(q).key \in Key /\ Live(q.cf, Presented(q).key, q.at)
    BY <1>3 DEF InKeys
  <2>2. Resolve(q) = FromKeys(q)
    BY <1>3 DEF Resolve
  <2>3. CASE Presented(q).secret
    BY <1>3, <2>1, <2>2, <2>3, Presents DEF FromKeys, Named, ServerFirst, Certain
  <2>4. CASE ~Presented(q).secret
    <3>1. q.shape.session = "none" /\ ~q.shape.secret
      BY <1>0, <1>3, <2>4 DEF Presented, ServerFirst
    <3>. QED BY <2>2, <2>4, <3>1 DEF FromKeys, Rejected, Unresolved, Certain
  <2>. QED BY <2>3, <2>4
<1>4. CASE ~MarkerHolds(q) /\ ~ServerFirst(q) /\ ~InKeys(q)
  <2>1. CASE CacheHit(q) /\ Live(q.cf, Presented(q).key, q.at)
    <3>1. Presented(q).key \in Key \ Digest
      BY <2>1 DEF CacheHit
    <3>2. Presented(q).secret
      BY <1>0, <3>1 DEF Presented
    <3>3. Resolve(q) = FromCache(q)
      BY <1>4, <2>1 DEF Resolve
    <3>. QED
      BY <1>4, <2>1, <3>1, <3>2, <3>3, Presents DEF FromCache, Named, ServerFirst, Certain
  <2>2. CASE ~(CacheHit(q) /\ Live(q.cf, Presented(q).key, q.at)) /\ IsAnonymous(q)
    <3>1. Anonymous(q)
      BY <1>0, <1>4, <2>2 DEF IsAnonymous, Anonymous, Presented, ServerFirst
    <3>. QED BY <1>4, <2>2, <3>1 DEF Resolve, Named, Certain
  <2>3. CASE ~(CacheHit(q) /\ Live(q.cf, Presented(q).key, q.at)) /\ ~IsAnonymous(q)
    BY <1>4, <2>3 DEF Resolve, Unresolved, Certain
  <2>. QED BY <2>1, <2>2, <2>3
<1>. QED BY <1>1, <1>2, <1>3, <1>4
-----------------------------------------------------------------------------
(***************************************************************************)
(* The answer that the server would give to the client itself.             *)
(***************************************************************************)
\* By the credentials alone.
ByCredentials(s, p, t) ==
  IF p.session = "valid" THEN User
  ELSE IF p.session = "none" /\ p.key \in Key /\ p.secret /\ Live(s, p.key, t) THEN p.key
  ELSE Nobody

LEMMA AuthenticatedBy ==
  ASSUME NEW q, NEW s, NEW t, ~Asserts(q), q.shape \in Shape
  PROVE  Authenticated(s, q, t) = ByCredentials(s, Presented(q), t)
<1>1. q.shape = [session |-> q.shape.session, key |-> q.shape.key, secret |-> q.shape.secret,
                 model |-> q.shape.model, conn |-> q.shape.conn, failing |-> q.shape.failing]
      /\ q.shape.session \in {"none", "valid", "expired"}
  BY DEF Shape
<1>. DEFINE p == Presented(q)
<1>2. p.session \in {"none", "valid", "expired"}
  BY <1>1 DEF Presented
<1>. HIDE DEF p
<1>3. Authenticated(s, q, t) =
        IF p.session = "valid" THEN User
        ELSE IF p.session = "expired" THEN Nobody
        ELSE IF p.key \in Key /\ p.secret /\ Live(s, p.key, t) THEN p.key ELSE Nobody
  BY <1>2 DEF Authenticated, p
<1>. QED BY <1>2, <1>3 DEF ByCredentials, p

LEMMA FreshVerdict ==
  ASSUME NEW o, NEW s, NEW t, o.shape \in Shape, o.pass = 1, o.id = Unresolved, o.mark = NoMarker
  PROVE  LET v   == Verdict(s, o, t)
             who == ByCredentials(s, o.shape, t)
         IN /\ v.status = Status(s, o, who)
            /\ v.status = 200 => v.consumer = IF who = Nobody THEN Anon ELSE who
<1>. DEFINE who == ByCredentials(s, o.shape, t)
            v   == Verdict(s, o, t)
            st  == Status(s, o, who)
<1>1. Presented(o) = o.shape /\ ~Asserts(o) /\ ~OwnMarker(o, t)
  BY DEF Presented, Asserts, OwnMarker, Unresolved, NoMarker
<1>2. Authenticated(s, o, t) = who
  BY <1>1, AuthenticatedBy
<1>. HIDE DEF who
<1>3. v = IF st # 200 THEN [NoAnswer EXCEPT !.status = st]
          ELSE [status |-> 200, consumer |-> IF who = Nobody THEN Anon ELSE who,
                ref |-> IF who \in Key \ Digest THEN who ELSE Nobody,
                mark |-> IF who = Nobody THEN NoMarker
                         ELSE [by |-> "server", who |-> Nobody, consumer |-> who,
                               exp |-> t + MarkerTTL]]
  BY <1>1, <1>2 DEF Verdict
<1>. HIDE DEF v, st
<1>4. v.status = st /\ (v.status = 200 => v.consumer = IF who = Nobody THEN Anon ELSE who)
  BY <1>3 DEF NoAnswer
<1>. QED BY <1>4 DEF v, st, who

LEMMA OriginalVerdict ==
  ASSUME NEW q, NEW s, NEW t, q.shape \in Shape
  PROVE  LET v   == Verdict(s, Original(q), t)
             who == ByCredentials(s, q.shape, t)
         IN /\ v.status = Status(s, Original(q), who)
            /\ v.status = 200 => v.consumer = IF who = Nobody THEN Anon ELSE who
<1>. DEFINE o == Original(q)
<1>1. /\ o.shape = q.shape /\ o.pass = 1 /\ o.id = Unresolved /\ o.mark = NoMarker
  BY DEF Original, Blank
<1>. HIDE DEF o
<1>2. LET v   == Verdict(s, o, t)
          who == ByCredentials(s, o.shape, t)
      IN /\ v.status = Status(s, o, who)
         /\ v.status = 200 => v.consumer = IF who = Nobody THEN Anon ELSE who
  BY <1>1, FreshVerdict
<1>. QED BY <1>1, <1>2 DEF o

\* What a worker decides by itself is what the server would have said.
Exact(a) ==
  LET v == Verdict(srv, Original(a), a.at) IN
  a.how = "local" /\ a.cf = srv =>
    IF a.pc = "closed" THEN v.status = 401
    ELSE a.pc = "upstream" => v.status = 200 /\ v.consumer = a.consumer

LEMMA RefusesExactly ==
  ASSUME NEW q, Base(q), q.shape.session = "none", ~q.shape.secret, srv.policy # "public"
  PROVE  Verdict(srv, Original(q), q.at).status = 401
<1>1. q.shape \in Shape /\ ByCredentials(srv, q.shape, q.at) = Nobody
  BY DEF Base, ShapeOK, ByCredentials
<1>2. Status(srv, Original(q), Nobody) = 401
  BY DEF Status
<1>. QED BY <1>1, <1>2, OriginalVerdict

LEMMA AdmitsExactly ==
  ASSUME NEW q, Base(q), IdOK(q), q.how # "server", q.cf = srv, q.at = now, LocalSkip(q)
  PROVE  LET v == Verdict(srv, Original(q), q.at) IN
         v.status = 200 /\ v.consumer = LocalConsumer(q.id)
<1>. USE Names
<1>. DEFINE who == ByCredentials(srv, q.shape, q.at)
<1>1. q.shape \in Shape /\ srv.live \intersect srv.dead = {} /\ srv.live \subseteq Key
      /\ q.shape.session \in {"none", "valid", "expired"}
  BY DEF Base, ShapeOK, TablesOK, Config, Shape
<1>2. q.id.state = "resolved" /\ LocalConsumer(q.id) # Nobody
  BY DEF LocalSkip, LocalConsumer
<1>3. CASE q.id.who = Anon
  <2>1. LocalConsumer(q.id) = Anon
    BY <1>2, <1>3 DEF LocalConsumer
  <2>2. who = Nobody
    BY <1>3 DEF ByCredentials, IdOK, IdNames, Certain, Anonymous
  <2>3. srv.policy = "public"
    BY <1>3 DEF LocalSkip, AuthedSkipEligible
  <2>4. Status(srv, Original(q), who) = 200
    BY <2>3 DEF Status
  <2>. QED BY <1>1, <2>1, <2>2, <2>4, OriginalVerdict
<1>4. CASE q.id.who # Anon
  <2>1. q.id.who \in Key /\ Live(srv, q.id.who, now) /\ q.id.who = Claims(q)
    BY <1>2, <1>4 DEF IdOK, IdNames
  <2>2. ~Gone(q.id.who)
    BY <1>1, <2>1 DEF Gone, Live
  <2>3. LocalConsumer(q.id) = q.id.who
    BY <1>2, <1>4, <2>1, <2>2 DEF LocalConsumer, IdOK, IdNames, Certain
  <2>4. q.shape.session = "none" /\ q.shape.key = q.id.who /\ q.shape.secret
    BY <1>1, <2>1 DEF Claims
  <2>5. who = q.id.who
    BY <2>1, <2>4 DEF ByCredentials
  <2>6. Original(q).shape = q.shape
    BY DEF Original, Blank
  <2>7. Status(srv, Original(q), q.id.who) = 200
    BY <1>4, <2>1, <2>6 DEF Status, LocalSkip, AuthedSkipEligible
  <2>. QED BY <1>1, <2>1, <2>3, <2>5, <2>7, OriginalVerdict
<1>. QED BY <1>3, <1>4
-----------------------------------------------------------------------------
(***************************************************************************)
(* What follows for the request.                                           *)
(***************************************************************************)
\* These look at the shape and the pass only.
LEMMA SameClient ==
  ASSUME NEW q, NEW a, a.shape = q.shape, a.pass = q.pass
  PROVE  /\ Claims(a) = Claims(q) /\ Presented(a) = Presented(q)
         /\ \A w, c : Certain(w, c, a) <=> Certain(w, c, q)
         /\ \A m : MarkOK(m, a) <=> MarkOK(m, q)
<1>1. Claims(a) = Claims(q) /\ Presented(a) = Presented(q) /\ (Anonymous(a) <=> Anonymous(q))
  BY DEF Claims, Presented, Anonymous
<1>2. \A w, c : Certain(w, c, a) <=> Certain(w, c, q)
  BY <1>1 DEF Certain
<1>. QED BY <1>1, <1>2 DEF MarkOK

LEMMA SameAnswer ==
  ASSUME NEW q, NEW a, a.shape = q.shape, a.pass = q.pass, a.id = q.id
  PROVE  /\ IdNames(a) <=> IdNames(q)
         /\ \A v : AnswerFits(v, a) <=> AnswerFits(v, q)
BY SameClient DEF IdNames, AnswerFits, Asserts

LEMMA SameOriginal ==
  ASSUME NEW q, NEW a, a.shape = q.shape, a.worker = q.worker, a.cf = q.cf, a.at = q.at
  PROVE  Original(a) = Original(q)
BY DEF Original

LEMMA Admits ==
  ASSUME NEW q, Base(q), IdNames(q), AnswerOK(q), NEW how,
         how = "server" \/ (IdOK(q) /\ q.how # "server"),
         NEW c \in {Nobody, Anon, Claims(q)}, NEW t,
         Certain(q.id.who, c, q), c = Nobody => how = "waived",
         \/ how = "server" /\ q.answer.status = 200
         \/ how = "waived" /\ q.answer.status \in {0, 500} /\ mode # "closed"
         \/ how = "local" /\ q.id.state = "resolved"
  PROVE  LET a == Admit(q, how, c, t) IN
         /\ Good(a)
         /\ a.shape = q.shape /\ a.worker = q.worker /\ a.cf = q.cf /\ a.at = q.at
         /\ a.pc = "upstream" /\ a.how = how /\ a.consumer = c
<1>. DEFINE a == Admit(q, how, c, t)
            named == [q EXCEPT !.consumer = c]
<1>1. DOMAIN q = Fields
  BY DEF Base
<1>2. /\ DOMAIN named = Fields /\ named.consumer = c
      /\ \A f \in Fields \ {"consumer"} : named[f] = q[f]
  BY <1>1 DEF Fields
<1>3. a = [named EXCEPT !.pc = "upstream", !.how = how, !.when = t, !.mark = Mint(named, t)]
  BY DEF Admit
<1>4. Mint(named, t) = q.mark \/
        /\ q.id.who # Nobody /\ c # Nobody
        /\ Mint(named, t) = [by |-> "plugin", who |-> q.id.who, consumer |-> c,
                             exp |-> t + MarkerTTL]
  <2>. HIDE DEF named
  <2>. QED BY <1>2 DEF Mint, Fields
<1>. HIDE DEF named
<1>5. /\ DOMAIN a = Fields /\ a.pc = "upstream" /\ a.how = how /\ a.consumer = c
      /\ a.id = q.id /\ a.answer = q.answer /\ a.shape = q.shape /\ a.pass = q.pass
      /\ a.worker = q.worker
      /\ a.cf = q.cf /\ a.at = q.at /\ a.mark = Mint(named, t)
  <2>. DEFINE m == Mint(named, t)
  <2>. HIDE DEF m
  <2>1. a = [named EXCEPT !.pc = "upstream", !.how = how, !.when = t, !.mark = m]
    BY <1>3 DEF m
  <2>. HIDE DEF a
  <2>2. DOMAIN a = Fields /\ a.pc = "upstream" /\ a.how = how /\ a.mark = m
    BY <1>2, <2>1 DEF Fields
  <2>3. \A f \in Fields \ {"pc", "how", "when", "mark"} : a[f] = named[f]
    BY <1>2, <2>1 DEF Fields
  <2>4. \A f \in Fields \ {"pc", "how", "when", "mark", "consumer"} : a[f] = q[f]
    BY <1>2, <2>3
  <2>. QED BY <1>2, <2>2, <2>3, <2>4 DEF Fields, m
<1>. HIDE DEF a
<1>6. Claims(a) = Claims(q)
  BY <1>5, SameClient
<1>7. Base(a)
  <2>1. MarkOK(q.mark, q)
    BY DEF Base
  <2>2. MarkOK(a.mark, q)
    BY <1>4, <1>5, <2>1 DEF MarkOK, IdNames
  <2>3. MarkOK(a.mark, a)
    BY <1>5, <2>2, SameClient
  <2>. QED BY <1>5, <2>3 DEF Base
<1>8. IdOK(a)
  <2>1. IdNames(a)
    BY <1>5, SameAnswer
  <2>. QED BY <1>5, <2>1 DEF IdOK
<1>9. AnswerOK(a)
  BY <1>5, SameAnswer DEF AnswerOK
<1>10. Passed(a)
  BY <1>5, <1>6 DEF Passed
<1>. QED BY <1>5, <1>7, <1>8, <1>9, <1>10 DEF Good, a

\* A request before the callback, changed in the fields that nothing is said of.
LEMMA Closes ==
  ASSUME NEW q, Base(q), IdOK(q), AnswerOK(q), q.how # "server",
         NEW a, DOMAIN a = Fields, a.pc # "upstream", a.how # "server",
         a.pc \in {"evicting", "paused"} => a.how = "none",
         a.pc = "evicting" => a.answer = NoAnswer /\ a.id = Unresolved,
         a.shape = q.shape, a.pass = q.pass, a.worker = q.worker, a.cf = q.cf, a.at = q.at,
         a.id = q.id, a.mark = q.mark, a.answer = q.answer
  PROVE  Good(a)
<1>1. Base(a)
  BY SameClient DEF Base
<1>2. IdOK(a)
  <2>1. IdNames(a)
    BY SameAnswer DEF IdOK
  <2>. QED BY <2>1 DEF IdOK
<1>3. AnswerOK(a)
  BY SameAnswer DEF AnswerOK
<1>. QED BY <1>1, <1>2, <1>3 DEF Good, Passed

LEMMA LocalName ==
  ASSUME NEW q, IdOK(q)
  PROVE  /\ LocalConsumer(q.id) \in {Nobody, Anon, Claims(q)}
         /\ LocalConsumer(q.id) # Nobody => q.id.state = "resolved"
         /\ Certain(q.id.who, LocalConsumer(q.id), q)
BY Names DEF LocalConsumer, IdOK, IdNames, Certain

LEMMA Fails ==
  ASSUME NEW q, Base(q), IdOK(q), AnswerOK(q), q.how # "server", q.pc # "upstream",
         q.pc \in {"evicting", "paused"} => q.how = "none",
         NEW status \in {400, 401, 403, 500}, NEW t,
         status = 500 => q.answer.status \in {0, 500}
  PROVE  LET a == OnFailure(q, status, t) IN Good(a) /\ (q.how # "local" => a.how # "local")
<1>1. CASE Waives(q, status)
  <2>1. status = 500 /\ mode # "closed"
    BY <1>1 DEF Waives
  <2>. DEFINE a == Admit(q, "waived", LocalConsumer(q.id), t)
  <2>2. OnFailure(q, status, t) = a
    BY <1>1 DEF OnFailure
  <2>3. Good(a) /\ a.how = "waived"
    BY <2>1, LocalName, Admits DEF IdOK
  <2>. HIDE DEF a
  <2>. QED BY <2>2, <2>3
<1>2. CASE ~Waives(q, status)
  <2>. DEFINE a == [q EXCEPT !.pc = "closed", !.status = status]
  <2>1. /\ DOMAIN a = Fields /\ a.pc = "closed"
        /\ \A f \in Fields \ {"pc", "status"} : a[f] = q[f]
    BY DEF Base, Fields
  <2>2. OnFailure(q, status, t) = a
    BY <1>2 DEF OnFailure
  <2>. HIDE DEF a
  <2>3. Good(a) /\ a.how = q.how
    BY <2>1, Closes DEF Fields
  <2>. QED BY <2>2, <2>3
<1>. QED BY <1>1, <1>2

\* The request hook, once the tiers have spoken: with what they have just said,
\* or after an eviction with nothing.
LEMMA Handles ==
  ASSUME NEW q, Base(q), IdOK(q), q.answer = NoAnswer, q.how = "none", q.pc # "upstream",
         q.at = now \/ q.id = Unresolved,
         q.id.state = "rejected" => q.shape.session = "none" /\ ~q.shape.secret,
         NEW r \in Req, Handle(r, q)
  PROVE  \E a : Good(a) /\ Exact(a) /\ req' = [req EXCEPT ![r] = a]
<1>. DEFINE asked == IF q.id.state = "rejected" THEN [q EXCEPT !.id = Unresolved] ELSE q
<1>1. AnswerOK(q)
  BY Names DEF AnswerOK, AnswerFits, NoAnswer, NoMarker, MarkOK
<1>2. /\ DOMAIN asked = Fields
      /\ asked.id = IF q.id.state = "rejected" THEN Unresolved ELSE q.id
      /\ \A f \in Fields \ {"id"} : asked[f] = q[f]
  BY DEF Base, Fields
<1>. HIDE DEF asked
<1>3. /\ asked.shape = q.shape /\ asked.pass = q.pass /\ asked.worker = q.worker
      /\ asked.cf = q.cf /\ asked.at = q.at
      /\ asked.mark = q.mark /\ asked.answer = q.answer /\ asked.how = "none"
      /\ asked.pc = q.pc
  BY <1>2 DEF Fields
<1>4. Base(asked)
  BY <1>2, <1>3, SameClient DEF Base
<1>5. IdOK(asked)
  <2>1. CASE asked.id = q.id
    BY <1>3, <2>1, SameAnswer DEF IdOK
  <2>2. CASE asked.id = Unresolved
    BY <1>3, <2>2, Names DEF IdOK, IdNames, Unresolved, Certain
  <2>. QED BY <1>2, <2>1, <2>2
<1>6. AnswerOK(asked)
  BY <1>3, Names DEF AnswerOK, AnswerFits, NoAnswer, NoMarker, MarkOK
<1>7. CASE q.id.state = "rejected" /\ q.cf.policy # "public"
  <2>. DEFINE a == [q EXCEPT !.pc = "closed", !.how = "local", !.status = 401]
  <2>1. /\ DOMAIN a = Fields /\ a.pc = "closed" /\ a.how = "local"
        /\ \A f \in Fields \ {"pc", "how", "status"} : a[f] = q[f]
    BY DEF Base, Fields
  <2>2. req' = [req EXCEPT ![r] = a]
    BY <1>7 DEF Handle
  <2>. HIDE DEF a
  <2>3. Good(a)
    BY <1>1, <2>1, Closes DEF Fields
  <2>4. a.shape = q.shape /\ a.worker = q.worker /\ a.cf = q.cf /\ a.at = q.at
    BY <2>1 DEF Fields
  <2>5. Exact(a)
    <3>1. Original(a) = Original(q)
      BY <2>4, SameOriginal
    <3>2. q.cf = srv => Verdict(srv, Original(q), q.at).status = 401
      BY <1>7, RefusesExactly
    <3>. QED BY <2>1, <2>4, <3>1, <3>2 DEF Exact
  <2>. QED BY <2>2, <2>3, <2>5
<1>8. CASE ~(q.id.state = "rejected" /\ q.cf.policy # "public")
  <2>1. CASE LocalSkip(asked)
    <3>. DEFINE a == Admit(asked, "local", LocalConsumer(asked.id), q.at)
    <3>1. req' = [req EXCEPT ![r] = a]
      BY <1>8, <2>1 DEF Handle, asked
    <3>2. LocalConsumer(asked.id) # Nobody /\ asked.id.state = "resolved"
      BY <2>1 DEF LocalSkip, LocalConsumer
    <3>3. /\ Good(a) /\ a.pc = "upstream" /\ a.consumer = LocalConsumer(asked.id)
          /\ a.shape = asked.shape /\ a.worker = asked.worker /\ a.cf = asked.cf
          /\ a.at = asked.at
      <4>. HIDE DEF a
      <4>1. IdNames(asked)
        BY <1>5 DEF IdOK
      <4>. QED BY <1>3, <1>4, <1>5, <1>6, <3>2, <4>1, LocalName, Admits DEF a
    <3>4. q.at = now
      BY <1>2, <3>2 DEF Unresolved
    <3>. HIDE DEF a
    <3>5. Exact(a)
      BY <1>3, <1>4, <1>5, <2>1, <3>3, <3>4, SameOriginal, AdmitsExactly DEF Exact
    <3>. QED BY <3>1, <3>3, <3>5
  <2>2. CASE ~LocalSkip(asked)
    <3>1. \/ req' = [req EXCEPT ![r] = [asked EXCEPT !.pc = "paused"]]
          \/ req' = [req EXCEPT ![r] = OnFailure(asked, 500, now)]
      BY <1>8, <2>2 DEF Handle, asked
    <3>2. LET a == OnFailure(asked, 500, now) IN Good(a) /\ a.how # "local"
      BY <1>3, <1>4, <1>5, <1>6, Fails DEF NoAnswer
    <3>. DEFINE a == [asked EXCEPT !.pc = "paused"]
    <3>3. DOMAIN a = Fields /\ a.pc = "paused" /\ \A f \in Fields \ {"pc"} : a[f] = asked[f]
      BY <1>2 DEF Fields
    <3>4. Good(a) /\ a.how # "local"
      <4>. HIDE DEF a
      <4>. QED BY <1>3, <1>4, <1>5, <1>6, <3>3, Closes DEF Fields
    <3>. QED BY <3>1, <3>2, <3>4, ZenonT(30) DEF Exact
  <2>. QED BY <2>1, <2>2
<1>. QED BY <1>7, <1>8

LEMMA Enters ==
  ASSUME NEW q, Base(q), q.id = Unresolved, q.answer = NoAnswer, q.how = "none", q.pc = "idle",
         q.at = now, cache \subseteq Key \ Digest, NEW r \in Req, Enter(r, q)
  PROVE  \E a : Good(a) /\ Exact(a) /\ req' = [req EXCEPT ![r] = a]
<1>1. IdOK(q) /\ AnswerOK(q)
  BY Names
     DEF IdOK, IdNames, Unresolved, AnswerOK, AnswerFits, NoAnswer, NoMarker, MarkOK, Certain
<1>2. ASSUME NEW a, DOMAIN a = Fields, a.pc \in {"closed", "evicting"},
             \A f \in Fields \ {"pc", "status"} : a[f] = q[f]
      PROVE  Good(a) /\ Exact(a)
  BY <1>1, <1>2, Closes DEF Fields, Exact
<1>3. CASE req' = [req EXCEPT ![r] = [q EXCEPT !.pc = "closed", !.status = 0]]
  <2>. DEFINE a == [q EXCEPT !.pc = "closed", !.status = 0]
  <2>1. DOMAIN a = Fields /\ a.pc = "closed" /\ \A f \in Fields \ {"pc", "status"} : a[f] = q[f]
    BY DEF Base, Fields
  <2>. HIDE DEF a
  <2>2. Good(a) /\ Exact(a)
    BY <1>2, <2>1
  <2>. QED BY <1>3, <2>2 DEF a
<1>4. CASE req' = [req EXCEPT ![r] = [q EXCEPT !.pc = "evicting"]]
  <2>. DEFINE a == [q EXCEPT !.pc = "evicting"]
  <2>1. DOMAIN a = Fields /\ a.pc = "evicting" /\ \A f \in Fields \ {"pc", "status"} : a[f] = q[f]
    BY DEF Base, Fields
  <2>. HIDE DEF a
  <2>2. Good(a) /\ Exact(a)
    BY <1>2, <2>1
  <2>. QED BY <1>4, <2>2 DEF a
<1>5. CASE Handle(r, [q EXCEPT !.id = Resolve(q)])
  <2>. DEFINE a == [q EXCEPT !.id = Resolve(q)]
              id == Resolve(q)
  <2>1. /\ DOMAIN id = {"state", "who", "consumer"}
        /\ id.who \in {Nobody, Anon, Claims(q)} /\ id.consumer \in {Nobody, Anon, Claims(q)}
        /\ Certain(id.who, id.consumer, q)
        /\ IF id.state = "resolved"
             THEN id.who = Anon \/ (id.who \in Key /\ Live(q.cf, id.who, q.at))
             ELSE id.who = Nobody /\ id.consumer = Nobody
        /\ id.state = "rejected" => q.shape.session = "none" /\ ~q.shape.secret
    <3>. HIDE DEF id
    <3>. QED BY Resolves DEF id
  <2>2. Handle(r, a)
    BY <1>5
  <2>. HIDE DEF id
  <2>3. DOMAIN a = Fields /\ a.id = id /\ \A f \in Fields \ {"id"} : a[f] = q[f]
    BY DEF Base, Fields, id
  <2>. HIDE DEF a
  <2>4. /\ a.shape = q.shape /\ a.pass = q.pass /\ a.worker = q.worker /\ a.cf = q.cf /\ a.at = q.at
        /\ a.mark = q.mark /\ a.answer = NoAnswer /\ a.how = "none" /\ a.pc = "idle"
    BY <2>3 DEF Fields
  <2>5. Base(a)
    BY <2>3, <2>4, SameClient DEF Base
  <2>6. IdOK(a)
    <3>1. Claims(a) = Claims(q) /\ Certain(id.who, id.consumer, a)
      BY <2>1, <2>4, SameClient
    <3>. QED BY <2>1, <2>3, <2>4, <3>1 DEF IdOK, IdNames
  <2>. QED BY <2>1, <2>2, <2>3, <2>4, <2>5, <2>6, Handles
<1>. QED BY <1>3, <1>4, <1>5 DEF Enter
-----------------------------------------------------------------------------
(***************************************************************************)
(* The server's answer.                                                    *)
(***************************************************************************)
LEMMA Recognizes ==
  ASSUME NEW q, Base(q), IdNames(q), NEW s, NEW t
  PROVE  /\ Authenticated(s, q, t) \in {Nobody, Claims(q)}
         /\ ~Asserts(q) /\ Authenticated(s, q, t) \in Key =>
              Authenticated(s, q, t) = Presented(q).key
<1>. USE Names
<1>1. CASE Asserts(q)
  BY <1>1 DEF Authenticated, Asserts, IdNames
<1>2. CASE ~Asserts(q)
  <2>1. Authenticated(s, q, t) = ByCredentials(s, Presented(q), t)
    BY <1>2, AuthenticatedBy DEF Base, ShapeOK
  <2>2. Presented(q).session = "valid" => Claims(q) = User
    <3>1. q.shape = [session |-> q.shape.session, key |-> q.shape.key,
                     secret |-> q.shape.secret, model |-> q.shape.model,
                     conn |-> q.shape.conn, failing |-> q.shape.failing]
      BY DEF Base, ShapeOK, Shape
    <3>. QED BY <3>1 DEF Presented, Claims
  <2>. QED BY <2>1, <2>2, Presents DEF ByCredentials
<1>. QED BY <1>1, <1>2

LEMMA Answers ==
  ASSUME NEW q, Base(q), IdOK(q), q.how # "server"
  PROVE  AnswerFits(Verdict(srv, q, now), q)
<1>. USE Names
<1>. DEFINE own == OwnMarker(q, now)
            who == IF own THEN q.mark.consumer ELSE Authenticated(srv, q, now)
            status == IF own THEN 200 ELSE Status(srv, q, who)
            form   == ~Asserts(q) /\ ~own
            v == Verdict(srv, q, now)
            named == [status   |-> 200,
                      consumer |-> IF who = Nobody THEN Anon ELSE who,
                      ref      |-> IF form /\ who \in Key \ Digest THEN who ELSE Nobody,
                      mark     |-> IF who = Nobody THEN NoMarker
                                   ELSE [by |-> "server", who |-> Nobody, consumer |-> who,
                                         exp |-> now + MarkerTTL]]
<1>0. IdNames(q)
  BY DEF IdOK
<1>1. who \in {Nobody, Anon, Claims(q)}
  BY <1>0, Recognizes DEF OwnMarker, Base, MarkOK
<1>2. form /\ who \in Key => who = Presented(q).key /\ who = Claims(q)
  BY <1>0, Recognizes
<1>3. status \in {200, 400, 401, 403}
  BY DEF Status
<1>4. v = IF status # 200 THEN [NoAnswer EXCEPT !.status = status] ELSE named
  BY DEF Verdict
<1>5. Asserts(q) => Certain(q.id.who, IF who = Nobody THEN Anon ELSE who, q)
  <2>. SUFFICES ASSUME Asserts(q) PROVE Certain(q.id.who, IF who = Nobody THEN Anon ELSE who, q)
    OBVIOUS
  <2>1. q.id.who \in Key /\ Live(q.cf, q.id.who, q.at)
    BY DEF Asserts, IdOK
  <2>2. who = IF Live(srv, q.id.who, now) THEN q.id.who ELSE Nobody
    BY DEF OwnMarker, Authenticated
  <2>3. ~Live(srv, q.id.who, now) => Gone(q.id.who)
    BY <2>1 DEF Base, TablesOK, Live, Gone
  <2>. HIDE DEF who
  <2>. QED BY <2>1, <2>2, <2>3 DEF Certain
<1>. HIDE DEF who, status, form, v
<1>6. CASE status # 200
  <2>1. v = [status |-> status, consumer |-> Nobody, ref |-> Nobody, mark |-> NoMarker]
    BY <1>4, <1>6 DEF NoAnswer
  <2>. QED BY <1>3, <1>6, <2>1 DEF AnswerFits, MarkOK, NoMarker, v
<1>7. CASE status = 200
  BY <1>1, <1>2, <1>4, <1>5, <1>7 DEF AnswerFits, MarkOK, NoMarker, v
<1>. QED BY <1>6, <1>7

\* An answer that arrives changes nothing else.
LEMMA Hears ==
  ASSUME NEW q, Good(q), q.pc = "paused", NEW v, AnswerFits(v, q)
  PROVE  LET a == [q EXCEPT !.answer = v] IN Good(a) /\ a.how # "local"
<1>. DEFINE a == [q EXCEPT !.answer = v]
<1>1. DOMAIN a = Fields /\ a.answer = v /\ \A f \in Fields \ {"answer"} : a[f] = q[f]
  BY DEF Good, Base, Fields
<1>. HIDE DEF a
<1>2. /\ a.shape = q.shape /\ a.pass = q.pass /\ a.worker = q.worker /\ a.cf = q.cf /\ a.at = q.at /\ a.id = q.id
      /\ a.mark = q.mark /\ a.how = "none" /\ a.pc = "paused" /\ q.how = "none"
  BY <1>1 DEF Fields, Good
<1>3. Base(a)
  BY <1>1, <1>2, SameClient DEF Good, Base
<1>4. IdOK(a)
  BY <1>2, SameAnswer DEF Good, IdOK
<1>5. AnswerOK(a)
  BY <1>1, <1>2, SameAnswer DEF AnswerOK
<1>. QED BY <1>2, <1>3, <1>4, <1>5 DEF Good, Passed, a

\* The callback of an answer with status 200: what the answer adds.
LEMMA Relays ==
  ASSUME NEW q, Base(q), IdOK(q), q.how # "server", AnswerOK(q), q.answer.status = 200
  PROVE  \E a : /\ OnSuccess(q) = Admit(a, "server", q.answer.consumer, now)
                /\ Base(a) /\ IdNames(a) /\ AnswerOK(a) /\ a.id = Learned(q)
                /\ a.mark = IF q.answer.mark = NoMarker THEN q.mark ELSE q.answer.mark
                /\ a.answer = q.answer /\ a.pass = q.pass /\ a.at = q.at
                /\ q.answer.consumer \in {Anon, Claims(a)} /\ q.answer.consumer # Nobody
                /\ Certain(a.id.who, q.answer.consumer, a)
<1>. USE Names
<1>. DEFINE id == Learned(q)
            m == IF q.answer.mark = NoMarker THEN q.mark ELSE q.answer.mark
            c == q.answer.consumer
            a == [q EXCEPT !.mark = m, !.id = id]
<1>1. OnSuccess(q) = Admit(a, "server", c, now)
  BY DEF OnSuccess
<1>2. /\ DOMAIN id = {"state", "who", "consumer"} /\ id.state = q.id.state
      /\ id.who \in {Nobody, Anon, Claims(q)} /\ id.consumer \in {Nobody, Anon, Claims(q)}
      /\ Asserts(q) => id = q.id
  BY DEF Learned, IdOK, IdNames, AnswerOK, AnswerFits, Asserts
<1>3. MarkOK(m, q)
  BY DEF Base, AnswerOK, AnswerFits
<1>4. c \in {Anon, Claims(q)} /\ c # Nobody /\ (Asserts(q) => Certain(q.id.who, c, q))
  BY DEF AnswerOK, AnswerFits
<1>5. Certain(id.who, id.consumer, q) /\ Certain(id.who, c, q)
  <2>1. CASE q.id.state = "resolved"
    BY <1>4, <2>1 DEF Learned, IdOK, IdNames, Asserts, Certain
  <2>2. CASE q.id.state # "resolved" /\ q.answer.ref = Nobody
    BY <2>2 DEF Learned, IdOK, Certain
  <2>3. CASE q.id.state # "resolved" /\ q.answer.ref # Nobody
    <3>1. q.answer.ref \in Key /\ q.answer.ref = c /\ q.id.consumer = Nobody
      BY <2>3 DEF IdOK, AnswerOK, AnswerFits
    <3>2. id.who = c /\ id.consumer = Nobody
      BY <2>3, <3>1 DEF Learned, IdOK, IdNames
    <3>. HIDE DEF id, c
    <3>. QED BY <3>1, <3>2 DEF Certain, c
  <2>. QED BY <2>1, <2>2, <2>3
<1>. HIDE DEF id, m, c
<1>6. DOMAIN a = Fields /\ a.id = id /\ a.mark = m /\ \A f \in Fields \ {"id", "mark"} : a[f] = q[f]
  BY DEF Base, Fields
<1>. HIDE DEF a
<1>7. a.shape = q.shape /\ a.pass = q.pass /\ a.worker = q.worker /\ a.cf = q.cf /\ a.answer = q.answer
      /\ a.at = q.at
  BY <1>6 DEF Fields
<1>8. Claims(a) = Claims(q) /\ MarkOK(m, a) /\ Certain(id.who, id.consumer, a)
      /\ Certain(id.who, c, a)
  BY <1>3, <1>5, <1>7, SameClient
<1>9. Base(a) /\ IdNames(a)
  BY <1>2, <1>6, <1>7, <1>8 DEF Base, IdNames
<1>10. AnswerOK(a)
  <2>1. Asserts(a) => Certain(a.id.who, a.answer.consumer, a)
    BY <1>6, <1>7, <1>8 DEF c
  <2>2. MarkOK(a.answer.mark, a) /\ Presented(a) = Presented(q)
    BY <1>7, SameClient DEF AnswerOK, AnswerFits
  <2>. QED BY <1>7, <1>8, <2>1, <2>2 DEF AnswerOK, AnswerFits
<1>11. /\ OnSuccess(q) = Admit(a, "server", q.answer.consumer, now)
       /\ Base(a) /\ IdNames(a) /\ AnswerOK(a) /\ a.id = Learned(q)
       /\ a.mark = IF q.answer.mark = NoMarker THEN q.mark ELSE q.answer.mark
       /\ a.answer = q.answer /\ a.pass = q.pass /\ a.at = q.at
       /\ q.answer.consumer \in {Anon, Claims(a)} /\ q.answer.consumer # Nobody
       /\ Certain(a.id.who, q.answer.consumer, a)
  BY <1>1, <1>4, <1>6, <1>7, <1>8, <1>9, <1>10 DEF m, id, c
<1>. QED BY <1>11

LEMMA Succeeds ==
  ASSUME NEW q, Base(q), IdOK(q), q.how # "server", AnswerOK(q), q.answer.status = 200
  PROVE  Good(OnSuccess(q)) /\ OnSuccess(q).how = "server"
<1>1. PICK a : /\ OnSuccess(q) = Admit(a, "server", q.answer.consumer, now)
               /\ Base(a) /\ IdNames(a) /\ AnswerOK(a) /\ a.answer = q.answer
               /\ q.answer.consumer \in {Anon, Claims(a)} /\ q.answer.consumer # Nobody
               /\ Certain(a.id.who, q.answer.consumer, a)
  BY Relays
<1>2. LET x == Admit(a, "server", q.answer.consumer, now) IN Good(x) /\ x.how = "server"
  BY <1>1, Admits
<1>. QED BY <1>1, <1>2

\* The cache keeps the credentials of keys without a digest.
LEMMA Stores ==
  ASSUME NEW q, Base(q), AnswerOK(q), Storable(q)
  PROVE  Presented(q).key \in Key \ Digest
BY DEF Storable, AnswerOK, AnswerFits
-----------------------------------------------------------------------------
(***************************************************************************)
(* Steps.                                                                  *)
(***************************************************************************)
LEMMA Replaced ==
  ASSUME IInv, NEW r \in Req, NEW a, Good(a), req' = [req EXCEPT ![r] = a],
         UNCHANGED <<now, srv, mode>>
  PROVE  DOMAIN req' = Req /\ \A x \in Req : Good(req[x])'
<1>1. DOMAIN req' = Req /\ \A x \in Req : req'[x] = IF x = r THEN a ELSE req[x]
  BY DEF IInv
<1>2. \A x \in Req : Good(IF x = r THEN a ELSE req[x])
  BY DEF IInv
<1>3. \A x \in Req : Good(req'[x])
  BY <1>1, <1>2
<1>4. \A who, c, q : Certain(who, c, q)' <=> Certain(who, c, q)
  BY DEF Certain, Gone
<1>5. \A m, q : MarkOK(m, q)' <=> MarkOK(m, q)
  BY <1>4 DEF MarkOK
<1>6. \A q : Base(q) => Base(q)'
  BY <1>5 DEF Base, TablesOK
<1>7. \A q : IdOK(q) => IdOK(q)'
  BY <1>4 DEF IdOK, IdNames
<1>8. \A q : AnswerOK(q) => AnswerOK(q)'
  BY <1>4, <1>5 DEF AnswerOK, AnswerFits
<1>9. \A q : Good(q) => Good(q)'
  BY <1>6, <1>7, <1>8 DEF Good, Passed
<1>. QED BY <1>1, <1>3, <1>9

\* The server's tables may change, and the clock, but what is gone stays gone.
LEMMA Outlives ==
  ASSUME IInv, UNCHANGED <<offers, mode, cache, req>>, now' \in Nat,
         TablesOK(srv)', DOMAIN conf' = Worker, \A w \in Worker : TablesOK(conf[w])',
         srv.live \union srv.dead \subseteq srv'.live \union srv'.dead,
         \A k \in Key : Gone(k) => Gone(k)'
  PROVE  IInv'
<1>1. \A c : TablesOK(c) => TablesOK(c)'
  BY DEF TablesOK
<1>2. \A who, c, q : Certain(who, c, q) => Certain(who, c, q)'
  BY DEF Certain
<1>3. \A m, q : MarkOK(m, q) => MarkOK(m, q)'
  BY <1>2 DEF MarkOK
<1>4. \A q : Base(q) => Base(q)'
  BY <1>1, <1>3 DEF Base
<1>5. \A q : IdOK(q) => IdOK(q)'
  BY <1>2 DEF IdOK, IdNames
<1>6. \A q : AnswerOK(q) => AnswerOK(q)'
  BY <1>2, <1>3 DEF AnswerOK, AnswerFits
<1>7. \A q : Good(q) => Good(q)'
  BY <1>4, <1>5, <1>6 DEF Good, Passed
<1>. QED BY <1>7 DEF IInv

\* No step changes what a decision taken in it is measured by.
Decides == \A r \in Req : req'[r] # req[r] => Exact(req'[r])

LEMMA StepIInv == IInv /\ [Next]_vars => IInv' /\ Decides
<1>. SUFFICES ASSUME IInv, [Next]_vars PROVE IInv' /\ Decides
  OBVIOUS
<1>0. DOMAIN req = Req /\ \A r \in Req : Good(req[r])
  BY DEF IInv
<1>a. ASSUME NEW r \in Req, NEW a, Good(a), Exact(a), req' = [req EXCEPT ![r] = a],
             UNCHANGED <<now, srv, conf, offers, mode>>, cache' \subseteq Key \ Digest
      PROVE  IInv' /\ Decides
  <2>1. DOMAIN req' = Req /\ \A x \in Req : Good(req[x])'
    BY <1>a, Replaced
  <2>2. Decides
    BY <1>0, <1>a DEF Decides
  <2>. QED BY <1>a, <2>1, <2>2 DEF IInv, TablesOK
<1>b. ASSUME UNCHANGED req PROVE Decides
  BY <1>b DEF Decides
<1>c. ASSUME UNCHANGED <<now, conf, offers, mode, cache, req>>, TablesOK(srv)',
             srv.dead \subseteq srv'.dead,
             srv.live \union srv.dead \subseteq srv'.live \union srv'.dead
      PROVE  IInv' /\ Decides
  <2>1. \A k \in Key : Gone(k) => Gone(k)'
    BY <1>c DEF Gone
  <2>2. DOMAIN conf' = Worker /\ \A w \in Worker : TablesOK(conf[w])'
    BY <1>c DEF IInv, TablesOK
  <2>3. now' \in Nat
    BY <1>c DEF IInv
  <2>. QED BY <1>b, <1>c, <2>1, <2>2, <2>3, Outlives
<1>1. ASSUME NEW r \in Req, Arrive(r) PROVE IInv' /\ Decides
  <2>1. PICK s \in offers[r], w \in Worker : Enter(r, [Blank(s, w, conf[w]) EXCEPT !.at = now])
    BY <1>1 DEF Arrive
  <2>. DEFINE q == [Blank(s, w, conf[w]) EXCEPT !.at = now]
  <2>2. /\ DOMAIN q = Fields /\ q.pass = 1 /\ q.worker = w /\ q.shape = s /\ q.cf = conf[w] /\ q.at = now /\ q.mark = NoMarker
        /\ q.id = Unresolved /\ q.answer = NoAnswer /\ q.how = "none" /\ q.pc = "idle"
    BY DEF Blank, Fields
  <2>3. Enter(r, q)
    BY <2>1
  <2>. HIDE DEF q
  <2>4. Base(q)
    BY <2>2 DEF Base, IInv, MarkOK, NoMarker
  <2>5. cache \subseteq Key \ Digest
    BY DEF IInv
  <2>6. PICK a : Good(a) /\ Exact(a) /\ req' = [req EXCEPT ![r] = a]
    BY <2>2, <2>3, <2>4, <2>5, Enters
  <2>7. UNCHANGED <<now, srv, conf, offers, mode, cache>>
    BY <1>1 DEF Arrive
  <2>. QED BY <1>a, <2>5, <2>6, <2>7
<1>2. ASSUME NEW r \in Req, Evict(r) PROVE IInv' /\ Decides
  <2>1. /\ req[r].pc = "evicting" /\ Handle(r, req[r])
        /\ UNCHANGED <<now, srv, conf, offers, mode>> /\ cache' \subseteq Key \ Digest
    BY <1>2 DEF Evict, IInv
  <2>2. /\ Base(req[r]) /\ IdOK(req[r]) /\ req[r].answer = NoAnswer /\ req[r].how = "none"
        /\ req[r].id = Unresolved /\ req[r].id.state # "rejected"
    BY <1>0, <2>1 DEF Good, Unresolved
  <2>3. PICK a : Good(a) /\ Exact(a) /\ req' = [req EXCEPT ![r] = a]
    BY <2>1, <2>2, Handles
  <2>. QED BY <1>a, <2>1, <2>3
<1>3. ASSUME NEW r \in Req, Answer(r) \/ Outage(r) PROVE IInv' /\ Decides
  <2>1. /\ req[r].pc = "paused" /\ Good(req[r]) /\ UNCHANGED <<now, srv, conf, offers, mode, cache>>
        /\ cache' \subseteq Key \ Digest
    BY <1>0, <1>3 DEF Answer, Outage, IInv
  <2>2. ASSUME NEW v, req' = [req EXCEPT ![r].answer = v], AnswerFits(v, req[r])
        PROVE  IInv' /\ Decides
    <3>1. LET a == [req[r] EXCEPT !.answer = v] IN Good(a) /\ Exact(a)
      BY <2>1, <2>2, Hears DEF Exact
    <3>2. req' = [req EXCEPT ![r] = [req[r] EXCEPT !.answer = v]]
      BY <2>2
    <3>. QED BY <1>a, <2>1, <3>1, <3>2
  <2>3. CASE Answer(r)
    <3>. DEFINE v == Verdict(srv, req[r], now)
    <3>1. req' = [req EXCEPT ![r].answer = v]
      BY <2>3 DEF Answer
    <3>2. Base(req[r]) /\ IdOK(req[r]) /\ req[r].how # "server"
      BY <2>1 DEF Good
    <3>3. AnswerFits(v, req[r])
      BY <3>2, Answers
    <3>. HIDE DEF v
    <3>. QED BY <2>2, <3>1, <3>3
  <2>4. CASE Outage(r)
    <3>. DEFINE v == [NoAnswer EXCEPT !.status = 500]
    <3>1. req' = [req EXCEPT ![r].answer = v]
      BY <2>4 DEF Outage
    <3>2. AnswerFits(v, req[r])
      BY DEF AnswerFits, NoAnswer, MarkOK, NoMarker
    <3>. HIDE DEF v
    <3>. QED BY <2>2, <3>1, <3>2
  <2>. QED BY <1>3, <2>3, <2>4
<1>4. ASSUME NEW r \in Req, Callback(r) PROVE IInv' /\ Decides
  <2>. DEFINE q == req[r]
  <2>1. /\ q.pc = "paused" /\ q.answer # NoAnswer /\ UNCHANGED <<now, srv, conf, offers, mode>>
        /\ cache \subseteq Key \ Digest
    BY <1>4 DEF Callback, IInv
  <2>2. Base(q) /\ IdOK(q) /\ AnswerOK(q) /\ q.how = "none"
    BY <1>0, <2>1 DEF Good
  <2>3. CASE q.answer.status = 200
    <3>1. /\ req' = [req EXCEPT ![r] = OnSuccess(q)]
          /\ cache' = IF Storable(q) THEN cache \union {Presented(q).key} ELSE cache
      BY <1>4, <2>3 DEF Callback
    <3>2. Good(OnSuccess(q)) /\ Exact(OnSuccess(q))
      BY <2>2, <2>3, Succeeds DEF Exact
    <3>3. cache' \subseteq Key \ Digest
      BY <2>1, <2>2, <3>1, Stores
    <3>. QED BY <1>a, <2>1, <3>1, <3>2, <3>3
  <2>4. CASE q.answer.status # 200
    <3>1. req' = [req EXCEPT ![r] = OnFailure(q, q.answer.status, now)] /\ UNCHANGED cache
      BY <1>4, <2>4 DEF Callback
    <3>2. q.answer.status \in {400, 401, 403, 500}
      BY <2>1, <2>2, <2>4 DEF AnswerOK, AnswerFits
    <3>3. LET a == OnFailure(q, q.answer.status, now) IN Good(a) /\ Exact(a)
      BY <2>1, <2>2, <3>2, Fails DEF Exact
    <3>. QED BY <1>a, <2>1, <3>1, <3>3
  <2>. QED BY <2>3, <2>4
<1>5. ASSUME NEW r \in Req, Redirect(r) PROVE IInv' /\ Decides
  <2>. DEFINE q == req[r]
              b == [Blank(q.shape, q.worker, conf[q.worker]) EXCEPT
                      !.pass = 2, !.at = now, !.mark = q.mark,
                      !.was = [who |-> q.id.who, how |-> q.how,
                               consumer |-> q.consumer, when |-> q.when]]
  <2>1. /\ q.pc = "upstream" /\ Enter(r, b) /\ UNCHANGED <<now, srv, conf, offers, mode, cache>>
    BY <1>5 DEF Redirect
  <2>2. /\ DOMAIN b = Fields /\ b.pass = 2 /\ b.worker = q.worker /\ b.shape = q.shape /\ b.cf = conf[q.worker]
        /\ b.mark = q.mark /\ b.at = now
        /\ b.id = Unresolved /\ b.answer = NoAnswer /\ b.how = "none" /\ b.pc = "idle"
    BY DEF Blank, Fields
  <2>3. Base(q) /\ q.worker \in Worker /\ TablesOK(conf[q.worker])
    BY <1>0, <2>1 DEF Good, Base, IInv
  <2>. HIDE DEF b
  <2>4. MarkOK(b.mark, b)
    <3>1. Claims(b) = Claims(q) /\ (Anonymous(b) <=> Anonymous(q))
      BY <2>2 DEF Claims, Anonymous
    <3>. QED BY <2>2, <2>3, <3>1 DEF Base, MarkOK, Certain
  <2>5. Base(b)
    BY <2>2, <2>3, <2>4 DEF Base
  <2>6. cache \subseteq Key \ Digest
    BY DEF IInv
  <2>7. PICK a : Good(a) /\ Exact(a) /\ req' = [req EXCEPT ![r] = a]
    BY <2>1, <2>2, <2>5, <2>6, Enters
  <2>. QED BY <1>a, <2>1, <2>6, <2>7
<1>6. ASSUME NEW r \in Req, Leave(r) PROVE IInv' /\ Decides
  <2>1. Good(Idle) /\ Exact(Idle)
    BY DEF Idle, Blank, Good, Exact
  <2>2. /\ req' = [req EXCEPT ![r] = Idle] /\ UNCHANGED <<now, srv, conf, offers, mode, cache>>
        /\ cache \subseteq Key \ Digest
    BY <1>6 DEF Leave, IInv
  <2>. QED BY <1>a, <2>1, <2>2
<1>7. ASSUME NEW k \in Key, Create(k) \/ Revoke(k) \/ Narrow(k) PROVE IInv' /\ Decides
  <2>1. UNCHANGED <<now, conf, offers, mode, cache, req>>
    BY <1>7 DEF Create, Revoke, Narrow, Changes
  <2>2. /\ TablesOK(srv)' /\ srv.dead \subseteq srv'.dead
        /\ srv.live \union srv.dead \subseteq srv'.live \union srv'.dead
    <3>1. srv = [live |-> srv.live, dead |-> srv.dead, open |-> srv.open, policy |-> srv.policy]
          /\ srv.live \subseteq Key /\ srv.dead \subseteq Key /\ srv.open \subseteq Key
          /\ srv.policy \in Policy /\ srv.live \intersect srv.dead = {}
      BY DEF IInv, TablesOK, Config
    <3>2. CASE Create(k)
      <4>1. PICK open \in SUBSET {k} :
              srv' = [srv EXCEPT !.live = srv.live \union {k}, !.open = srv.open \union open]
        BY <3>2 DEF Create, Changes
      <4>2. srv' = [live |-> srv.live \union {k}, dead |-> srv.dead,
                    open |-> srv.open \union open, policy |-> srv.policy]
        BY <3>1, <4>1
      <4>3. k \notin srv.dead
        BY <3>2 DEF Create
      <4>. QED BY <3>1, <4>2, <4>3 DEF TablesOK, Config
    <3>3. CASE Revoke(k)
      BY <3>1, <3>3 DEF Revoke, Changes, TablesOK, Config
    <3>4. CASE Narrow(k)
      BY <3>1, <3>4 DEF Narrow, Changes, TablesOK, Config
    <3>. QED BY <1>7, <3>2, <3>3, <3>4
  <2>. QED BY <1>c, <2>1, <2>2 DEF IInv
<1>8. ASSUME NEW p \in Policy, SetPolicy(p) PROVE IInv' /\ Decides
  <2>1. UNCHANGED <<now, conf, offers, mode, cache, req>> /\ srv' = [srv EXCEPT !.policy = p]
    BY <1>8 DEF SetPolicy, Changes
  <2>2. TablesOK(srv)' /\ srv'.live = srv.live /\ srv'.dead = srv.dead
    BY <2>1 DEF IInv, TablesOK, Config
  <2>. QED BY <1>c, <2>1, <2>2 DEF IInv
<1>9. ASSUME NEW w \in Worker, Push(w) PROVE IInv' /\ Decides
  <2>1. UNCHANGED <<now, srv, offers, mode, cache, req>> /\ conf' = [conf EXCEPT ![w] = srv]
    BY <1>9 DEF Push
  <2>2. DOMAIN conf' = Worker /\ \A x \in Worker : conf'[x] = conf[x] \/ conf'[x] = srv
    BY <2>1 DEF IInv
  <2>3. \A x \in Worker : TablesOK(conf[x])'
    BY <2>1, <2>2 DEF IInv, TablesOK
  <2>4. TablesOK(srv)' /\ \A k \in Key : Gone(k) => Gone(k)'
    BY <2>1 DEF IInv, TablesOK, Gone
  <2>. QED BY <1>b, <2>1, <2>2, <2>3, <2>4, Outlives DEF IInv
<1>10. ASSUME Tick PROVE IInv' /\ Decides
  <2>1. now' = now + 1 /\ now \in Nat /\ UNCHANGED <<srv, conf, offers, mode, cache, req>>
    BY <1>10 DEF Tick, IInv
  <2>2. \A k \in Key : Gone(k) => Gone(k)'
    BY <2>1, ExtAuthAssumption DEF Gone
  <2>3. TablesOK(srv)' /\ DOMAIN conf' = Worker /\ \A w \in Worker : TablesOK(conf[w])'
    BY <2>1 DEF IInv, TablesOK
  <2>. QED BY <1>b, <2>1, <2>2, <2>3, Outlives
<1>11. ASSUME UNCHANGED vars PROVE IInv' /\ Decides
  <2>1. UNCHANGED <<now, srv, conf, offers, mode, cache, req>>
    BY <1>11 DEF vars
  <2>. QED BY <1>b, <1>c, <2>1 DEF IInv, TablesOK
<1>. QED BY <1>1, <1>2, <1>3, <1>4, <1>5, <1>6, <1>7, <1>8, <1>9, <1>10, <1>11 DEF Next

LEMMA AlwaysIInv == Spec => []IInv
BY InitIInv, StepIInv, PTL DEF Spec

\* The consumer that reaches the model is the caller whose credentials the client
\* presented, or none where the failure mode waived a failure of the server, over
\* all tiers, both passes and every order of pushes, revocations and answers.
THEOREM ConsumerIsExact == Spec => []ConsumerExact
<1>1. IInv => ConsumerExact
  BY DEF IInv, Good, Passed, ConsumerExact
<1>. QED BY <1>1, AlwaysIInv, PTL

\* A key that a worker's tables have lost admits nobody there by its name alone,
\* neither from the cache nor by a marker that is good for a while yet.
THEOREM RevokedKeysStayOut == Spec => []RevokedStaysOut
<1>1. IInv => RevokedStaysOut
  <2>. SUFFICES ASSUME IInv, NEW r \in Req, req[r].pc = "upstream", req[r].how # "server",
                       req[r].id.who \in Key
                PROVE  req[r].id.who \notin req[r].cf.dead /\ req[r].at < Expiry[req[r].id.who]
    BY DEF RevokedStaysOut
  <2>1. TablesOK(req[r].cf) /\ Live(req[r].cf, req[r].id.who, req[r].at)
    BY Names DEF IInv, Good, Base, IdOK
  <2>. QED BY <2>1 DEF TablesOK, Live
<1>. QED BY <1>1, AlwaysIInv, PTL

\* Whatever a worker with the server's tables decides by itself, the server would
\* have decided for the request the client sent, and with the same consumer: from
\* the tables, from the cache, by the marker of the first pass, or for nobody.
THEOREM LocalVerdictsExact == Spec => LocalVerdictExact
<1>1. Decides => \A r \in Req : LET q == req'[r]
                                    v == Verdict(srv, Original(q), q.at) IN
         q # req[r] /\ q.how = "local" /\ q.cf = srv =>
           IF q.pc = "closed" THEN v.status = 401
           ELSE q.pc = "upstream" => v.status = 200 /\ v.consumer = q.consumer
  BY DEF Decides, Exact
<1>. QED BY <1>1, StepIInv, AlwaysIInv, PTL DEF Spec, LocalVerdictExact
-----------------------------------------------------------------------------
(***************************************************************************)
(* The fallback pass.  FallbackSurvives compares what two passes of one    *)
(* request are told, with whatever happens to the tables, the clock and    *)
(* the worker's configuration in between.  What links them is the marker:  *)
(* a first pass that named its caller leaves one that says so, good for    *)
(* MarkerTTL from then, or the server's where only the server knows him.   *)
(***************************************************************************)
\* What a pass that was let through has left for the next one, if its caller
\* has a name and the connection can be read.
Left(m, was, q) ==
  q.shape.model /\ q.shape.conn /\ was.consumer # Nobody /\ (was.consumer = Anon => was.who = Anon) =>
    \/ was.who = Nobody /\ m.by = "server"
    \/ /\ was.who \in Key \union {Anon} /\ was.when \in Nat
       /\ m = [by |-> "plugin", who |-> was.who, consumer |-> was.consumer,
               exp |-> was.when + MarkerTTL]
       /\ IF was.who = Anon THEN Anonymous(q) ELSE was.who = Claims(q)

ThisPass(q) == [who |-> q.id.who, how |-> q.how, consumer |-> q.consumer, when |-> q.when]

\* In a second pass only the marker names anyone.
ByMarker(q) ==
  /\ Left(q.mark, q.was, q)
  /\ q.id = IF MarkerHolds(q) THEN Named(q.mark.who, q.mark.consumer) ELSE Unresolved

Second(q) ==
  /\ q.at \in Nat /\ q.at <= now
  /\ q.pass = 1 /\ q.pc = "upstream" => Left(q.mark, ThisPass(q), q)
  /\ q.pass = 2 => q.pc # "evicting"
  /\ q.pass = 2 /\ q.pc = "paused" => ByMarker(q)

Passes == mode \in Modes /\ \A r \in Req : req[r].pc # "idle" => Second(req[r])

Survives(r, a) ==
  Established(a) /\ (a.was.who \in Key => Live(a.cf, a.was.who, a.at)) => ~RefusedWrongly(r, a)

LEMMA SameLeft ==
  ASSUME NEW q, NEW a, a.shape = q.shape
  PROVE  \A m, was : Left(m, was, a) <=> Left(m, was, q)
BY DEF Left, Anonymous, Claims

LEMMA SameByMarker ==
  ASSUME NEW q, NEW a, a.shape = q.shape, a.mark = q.mark, a.was = q.was, a.id = q.id,
         a.at = q.at, a.cf = q.cf
  PROVE  ByMarker(a) <=> ByMarker(q)
<1>1. MarkerHolds(a) <=> MarkerHolds(q)
  BY DEF MarkerHolds
<1>. QED BY <1>1, SameLeft DEF ByMarker

\* Whom the marker still stands for.
LEMMA Trusted ==
  ASSUME CanSign, NEW q, now \in Nat, q.at \in Nat, q.at <= now, ByMarker(q), Established(q),
         q.was.who \in Key => Live(q.cf, q.was.who, q.at)
  PROVE  \/ q.was.who = Nobody /\ q.mark.by = "server" /\ ~Asserts(q)
         \/ q.was.who = Anon /\ q.mark.by = "plugin" /\ ~Asserts(q) /\ Anonymous(q)
         \/ q.was.who \in Key /\ Asserts(q) /\ q.id.who = q.was.who /\ q.was.who = Claims(q)
<1>. USE Names
<1>1. q.shape.model /\ q.shape.conn /\ q.was.consumer # Nobody
      /\ (q.was.consumer = Anon => q.was.who = Anon)
  BY DEF Established
<1>2. CASE q.was.who = Nobody
  <2>1. q.mark.by = "server"
    BY <1>1, <1>2 DEF ByMarker, Left
  <2>2. ~MarkerHolds(q)
    BY <2>1 DEF MarkerHolds
  <2>. QED BY <1>2, <2>1, <2>2 DEF ByMarker, Asserts, Unresolved
<1>3. CASE q.was.who # Nobody
  <2>1. /\ q.was.who \in Key \union {Anon} /\ q.was.when \in Nat
        /\ q.mark = [by |-> "plugin", who |-> q.was.who, consumer |-> q.was.consumer,
                     exp |-> q.was.when + MarkerTTL]
        /\ IF q.was.who = Anon THEN Anonymous(q) ELSE q.was.who = Claims(q)
    BY <1>1, <1>3 DEF ByMarker, Left
  <2>2. q.mark.by = "plugin" /\ q.mark.who = q.was.who /\ q.at < q.mark.exp
    <3>1. q.mark.exp = q.was.when + MarkerTTL /\ now < q.was.when + MarkerTTL
      BY <1>3, <2>1 DEF Established
    <3>2. MarkerTTL \in Nat
      BY ExtAuthAssumption
    <3>. QED BY <2>1, <3>1, <3>2
  <2>3. CASE q.was.who = Anon
    <3>1. ~Asserts(q)
      BY <2>2, <2>3 DEF ByMarker, Asserts, Named, Unresolved
    <3>. QED BY <2>1, <2>2, <2>3, <3>1
  <2>4. CASE q.was.who # Anon
    <3>1. MarkerHolds(q)
      BY <1>1, <2>1, <2>2, <2>4 DEF MarkerHolds
    <3>2. q.id = Named(q.was.who, q.mark.consumer)
      BY <2>2, <3>1 DEF ByMarker
    <3>. QED BY <2>1, <2>4, <3>2 DEF Asserts, Named
  <2>. QED BY <2>3, <2>4
<1>. QED BY <1>2, <1>3

\* The server says of the marker's caller what it says of the client.
LEMMA AnswersAlike ==
  ASSUME CanSign, NEW q, Base(q), now \in Nat, q.pass = 2, q.at \in Nat, q.at <= now, ByMarker(q),
         Established(q), q.was.who \in Key => Live(q.cf, q.was.who, q.at),
         Verdict(srv, [Original(q) EXCEPT !.at = now], now).status = 200
  PROVE  Verdict(srv, q, now).status = 200
<1>. USE Names
<1>. DEFINE o   == [Original(q) EXCEPT !.at = now]
            who == ByCredentials(srv, q.shape, now)
            v   == Verdict(srv, q, now)
<1>1. q.shape \in Shape /\ o.shape = q.shape /\ o.pass = 1 /\ o.id = Unresolved /\ o.mark = NoMarker
  BY DEF Base, ShapeOK, Original, Blank
<1>2. Status(srv, q, who) = 200
  <2>. HIDE DEF o
  <2>1. Verdict(srv, o, now).status = Status(srv, o, ByCredentials(srv, o.shape, now))
    BY <1>1, FreshVerdict
  <2>2. Status(srv, o, who) = 200
    BY <1>1, <2>1 DEF o
  <2>. HIDE DEF who
  <2>. QED BY <1>1, <2>2 DEF Status
<1>. HIDE DEF o, who
<1>3. v.status = IF OwnMarker(q, now) THEN 200 ELSE Status(srv, q, Authenticated(srv, q, now))
  BY DEF Verdict, NoAnswer
<1>. HIDE DEF v
<1>4. CASE q.was.who = Nobody /\ q.mark.by = "server" /\ ~Asserts(q)
  BY <1>3, <1>4 DEF Established, OwnMarker, v
<1>5. CASE q.was.who = Anon /\ q.mark.by = "plugin" /\ ~Asserts(q) /\ Anonymous(q)
  <2>1. who = Nobody
    BY <1>5 DEF who, ByCredentials, Anonymous
  <2>2. Presented(q).key = Unknown /\ Presented(q).session = "none"
    <3>1. q.shape = [session |-> q.shape.session, key |-> q.shape.key,
                     secret |-> q.shape.secret, model |-> q.shape.model,
                     conn |-> q.shape.conn, failing |-> q.shape.failing]
      BY <1>1 DEF Shape
    <3>. QED BY <3>1 DEF Presented
  <2>3. Authenticated(srv, q, now) = Nobody
    BY <1>1, <1>5, <2>2, AuthenticatedBy DEF ByCredentials
  <2>4. ~OwnMarker(q, now)
    BY <1>5 DEF OwnMarker
  <2>. QED BY <1>2, <1>3, <2>1, <2>3, <2>4 DEF v
<1>6. CASE q.was.who \in Key /\ Asserts(q) /\ q.id.who = q.was.who /\ q.was.who = Claims(q)
  <2>1. q.shape.session = "none" /\ q.shape.key = q.was.who /\ q.shape.secret
    BY <1>6 DEF Claims
  <2>2. who = IF Live(srv, q.was.who, now) THEN q.was.who ELSE Nobody
    BY <1>6, <2>1 DEF who, ByCredentials
  <2>3. Authenticated(srv, q, now) = who
    BY <1>6, <2>2 DEF Authenticated
  <2>4. ~OwnMarker(q, now)
    BY <1>6 DEF OwnMarker
  <2>. QED BY <1>2, <1>3, <2>3, <2>4 DEF v
<1>. QED BY <1>4, <1>5, <1>6, Trusted

\* An outage is waived for whom the marker still names, unless nothing is.
LEMMA Waived ==
  ASSUME CanSign, NEW q, now \in Nat, mode \in Modes, q.at \in Nat, q.at <= now, ByMarker(q),
         Established(q), q.was.who \in Key, Live(q.cf, q.was.who, q.at), mode # "closed"
  PROVE  Waives(q, 500)
<1>1. Asserts(q)
  BY Trusted, Names
<1>. QED BY <1>1 DEF Waives, Asserts, Modes

\* What a pass that is let through leaves: its caller's name, or the server's marker.
LEMMA Leaves ==
  ASSUME CanSign, NEW q, Base(q), IdNames(q), q.id.who \in Key \union {Anon, Nobody},
         NEW how, NEW c, NEW t \in Nat,
         q.id.who = Nobody => c \in {Nobody, Anon} \/ q.mark.by = "server"
  PROVE  LET a == Admit(q, how, c, t) IN
         /\ a.pc = "upstream" /\ a.how = how /\ a.pass = q.pass /\ a.at = q.at
         /\ a.answer = q.answer /\ Left(a.mark, ThisPass(a), a)
<1>. USE Names
<1>. DEFINE a == Admit(q, how, c, t)
            named == [q EXCEPT !.consumer = c]
            m == Mint(named, t)
<1>1. /\ DOMAIN named = Fields /\ named.consumer = c
      /\ \A f \in Fields \ {"consumer"} : named[f] = q[f]
  BY DEF Base, Fields
<1>2. a = [named EXCEPT !.pc = "upstream", !.how = how, !.when = t, !.mark = m]
  BY DEF Admit
<1>. HIDE DEF named
<1>3. m = IF q.id.who # Nobody /\ q.shape.model /\ c # Nobody /\ q.shape.conn
            THEN [by |-> "plugin", who |-> q.id.who, consumer |-> c, exp |-> t + MarkerTTL]
            ELSE q.mark
  BY <1>1 DEF Mint, Fields
<1>. HIDE DEF m, a
<1>4. /\ DOMAIN a = Fields /\ a.pc = "upstream" /\ a.how = how /\ a.when = t /\ a.mark = m
  BY <1>1, <1>2 DEF Fields
<1>5. \A f \in Fields \ {"pc", "how", "when", "mark"} : a[f] = named[f]
  BY <1>1, <1>2 DEF Fields
<1>6. a.consumer = c /\ \A f \in Fields \ {"pc", "how", "when", "mark", "consumer"} : a[f] = q[f]
  BY <1>1, <1>5 DEF Fields
<1>7. a.pass = q.pass /\ a.at = q.at /\ a.answer = q.answer /\ a.id = q.id /\ a.shape = q.shape
  BY <1>6 DEF Fields
<1>. DEFINE was == ThisPass(a)
<1>8. was.who = q.id.who /\ was.consumer = c /\ was.when = t
  BY <1>4, <1>6, <1>7 DEF ThisPass
<1>. HIDE DEF was
<1>9. Left(m, was, q)
  <2>. SUFFICES ASSUME q.shape.model, q.shape.conn, c # Nobody, c = Anon => q.id.who = Anon
                PROVE  \/ was.who = Nobody /\ m.by = "server"
                       \/ /\ was.who \in Key \union {Anon} /\ was.when \in Nat
                          /\ m = [by |-> "plugin", who |-> was.who, consumer |-> was.consumer,
                                  exp |-> was.when + MarkerTTL]
                          /\ IF was.who = Anon THEN Anonymous(q) ELSE was.who = Claims(q)
    BY <1>8 DEF Left
  <2>1. CASE q.id.who = Nobody
    BY <1>3, <1>8, <2>1
  <2>2. CASE q.id.who # Nobody
    <3>1. m = [by |-> "plugin", who |-> was.who, consumer |-> was.consumer,
               exp |-> was.when + MarkerTTL]
      BY <1>3, <1>8, <2>2
    <3>2. IF was.who = Anon THEN Anonymous(q) ELSE was.who = Claims(q)
      BY <1>8, <2>2 DEF IdNames, Certain
    <3>. QED BY <1>8, <2>2, <3>1, <3>2
  <2>. QED BY <2>1, <2>2
<1>10. Left(a.mark, was, a)
  BY <1>4, <1>7, <1>9, SameLeft
<1>. QED BY <1>4, <1>7, <1>10 DEF a, was

\* Who has a name here before the server says it.
LEMMA LocalCaller ==
  ASSUME NEW q, IdOK(q), q.how # "server"
  PROVE  /\ q.id.who \in Key \union {Anon, Nobody}
         /\ q.id.who = Nobody => LocalConsumer(q.id) = Nobody
BY Names DEF IdOK, LocalConsumer
-----------------------------------------------------------------------------
(***************************************************************************)
(* Steps of the two passes.                                                *)
(***************************************************************************)
LEMMA FirstFails ==
  ASSUME CanSign, NEW q, Base(q), IdOK(q), q.how # "server", q.pass = 1, q.pc # "upstream",
         q.at \in Nat, q.at <= now, NEW status, NEW t \in Nat
  PROVE  LET a == OnFailure(q, status, t) IN a.pass = 1 /\ Second(a)
<1>. DEFINE a == OnFailure(q, status, t)
<1>1. CASE Waives(q, status)
  <2>1. a = Admit(q, "waived", LocalConsumer(q.id), t)
    BY <1>1 DEF OnFailure
  <2>. HIDE DEF a
  <2>2. a.pass = 1 /\ a.at = q.at /\ Left(a.mark, ThisPass(a), a)
    BY <2>1, LocalCaller, Leaves DEF IdOK
  <2>. QED BY <2>2 DEF Second, a
<1>2. CASE ~Waives(q, status)
  <2>1. a = [q EXCEPT !.pc = "closed", !.status = status]
    BY <1>2 DEF OnFailure
  <2>2. /\ DOMAIN a = Fields /\ a.pc = "closed" /\ \A f \in Fields \ {"pc", "status"} : a[f] = q[f]
    BY <2>1 DEF Base, Fields
  <2>. HIDE DEF a
  <2>3. a.pass = 1 /\ a.at = q.at /\ a.pc = "closed"
    BY <2>2 DEF Fields
  <2>. QED BY <2>3 DEF Second, a
<1>. QED BY <1>1, <1>2

LEMMA FirstHandles ==
  ASSUME CanSign, NEW q, Base(q), IdOK(q), q.how = "none", q.pass = 1, q.pc # "upstream",
         q.at \in Nat, q.at <= now, now \in Nat, NEW r \in Req, Handle(r, q)
  PROVE  \E a : a.pass = 1 /\ Second(a) /\ req' = [req EXCEPT ![r] = a]
<1>. DEFINE asked == IF q.id.state = "rejected" THEN [q EXCEPT !.id = Unresolved] ELSE q
<1>1. /\ DOMAIN asked = Fields
      /\ asked.id = IF q.id.state = "rejected" THEN Unresolved ELSE q.id
      /\ \A f \in Fields \ {"id"} : asked[f] = q[f]
  BY DEF Base, Fields
<1>2. \/ req' = [req EXCEPT ![r] = [q EXCEPT !.pc = "closed", !.how = "local", !.status = 401]]
      \/ req' = [req EXCEPT ![r] = Admit(asked, "local", LocalConsumer(asked.id), q.at)]
      \/ req' = [req EXCEPT ![r] = [asked EXCEPT !.pc = "paused"]]
      \/ req' = [req EXCEPT ![r] = OnFailure(asked, 500, now)]
  BY DEF Handle
<1>. HIDE DEF asked
<1>3. /\ asked.shape = q.shape /\ asked.pass = q.pass /\ asked.worker = q.worker
      /\ asked.cf = q.cf /\ asked.at = q.at /\ asked.mark = q.mark /\ asked.how = "none"
      /\ asked.pc = q.pc
  BY <1>1 DEF Fields
<1>4. Base(asked)
  BY <1>1, <1>3, SameClient DEF Base
<1>5. IdOK(asked)
  <2>1. CASE asked.id = q.id
    BY <1>3, <2>1, SameAnswer DEF IdOK
  <2>2. CASE asked.id = Unresolved
    BY <1>3, <2>2, Names DEF IdOK, IdNames, Unresolved, Certain
  <2>. QED BY <1>1, <2>1, <2>2
<1>6. ASSUME NEW a, a.pass = 1, a.at = q.at, a.pc # "upstream" PROVE Second(a)
  BY <1>6 DEF Second
<1>7. CASE req' = [req EXCEPT ![r] = [q EXCEPT !.pc = "closed", !.how = "local", !.status = 401]]
  <2>. DEFINE a == [q EXCEPT !.pc = "closed", !.how = "local", !.status = 401]
  <2>1. a.pass = 1 /\ a.at = q.at /\ a.pc = "closed"
    BY DEF Base, Fields
  <2>. HIDE DEF a
  <2>2. Second(a)
    BY <1>6, <2>1
  <2>. QED BY <1>7, <2>1, <2>2 DEF a
<1>8. CASE req' = [req EXCEPT ![r] = Admit(asked, "local", LocalConsumer(asked.id), q.at)]
  <2>. DEFINE a == Admit(asked, "local", LocalConsumer(asked.id), q.at)
  <2>1. a.pass = 1 /\ a.at = q.at /\ Left(a.mark, ThisPass(a), a)
    <3>. HIDE DEF a
    <3>. QED BY <1>3, <1>4, <1>5, LocalCaller, Leaves DEF IdOK, a
  <2>. HIDE DEF a
  <2>2. Second(a)
    BY <2>1 DEF Second
  <2>. QED BY <1>8, <2>1, <2>2 DEF a
<1>9. CASE req' = [req EXCEPT ![r] = [asked EXCEPT !.pc = "paused"]]
  <2>. DEFINE a == [asked EXCEPT !.pc = "paused"]
  <2>1. a.pass = 1 /\ a.at = q.at /\ a.pc = "paused"
    BY <1>1, <1>3 DEF Fields
  <2>. HIDE DEF a
  <2>2. Second(a)
    BY <1>6, <2>1
  <2>. QED BY <1>9, <2>1, <2>2 DEF a
<1>10. CASE req' = [req EXCEPT ![r] = OnFailure(asked, 500, now)]
  <2>. DEFINE a == OnFailure(asked, 500, now)
  <2>1. a.pass = 1 /\ Second(a)
    <3>. HIDE DEF a
    <3>. QED BY <1>3, <1>4, <1>5, FirstFails DEF a
  <2>. HIDE DEF a
  <2>. QED BY <1>10, <2>1 DEF a
<1>. QED BY <1>2, <1>7, <1>8, <1>9, <1>10

LEMMA FirstEnters ==
  ASSUME CanSign, NEW q, Base(q), q.id = Unresolved, q.how = "none", q.pass = 1, q.pc = "idle",
         q.at = now, now \in Nat, cache \subseteq Key \ Digest, NEW r \in Req, Enter(r, q)
  PROVE  \E a : a.pass = 1 /\ Second(a) /\ req' = [req EXCEPT ![r] = a]
<1>1. ASSUME NEW a, DOMAIN a = Fields, a.pc \in {"closed", "evicting"},
             \A f \in Fields \ {"pc", "status"} : a[f] = q[f]
      PROVE  a.pass = 1 /\ Second(a)
  <2>1. a.pass = 1 /\ a.at = q.at
    BY <1>1 DEF Fields
  <2>. QED BY <1>1, <2>1 DEF Second
<1>2. CASE req' = [req EXCEPT ![r] = [q EXCEPT !.pc = "closed", !.status = 0]]
  <2>. DEFINE a == [q EXCEPT !.pc = "closed", !.status = 0]
  <2>1. DOMAIN a = Fields /\ a.pc = "closed" /\ \A f \in Fields \ {"pc", "status"} : a[f] = q[f]
    BY DEF Base, Fields
  <2>. HIDE DEF a
  <2>2. a.pass = 1 /\ Second(a)
    BY <1>1, <2>1
  <2>. QED BY <1>2, <2>2 DEF a
<1>3. CASE req' = [req EXCEPT ![r] = [q EXCEPT !.pc = "evicting"]]
  <2>. DEFINE a == [q EXCEPT !.pc = "evicting"]
  <2>1. DOMAIN a = Fields /\ a.pc = "evicting" /\ \A f \in Fields \ {"pc", "status"} : a[f] = q[f]
    BY DEF Base, Fields
  <2>. HIDE DEF a
  <2>2. a.pass = 1 /\ Second(a)
    BY <1>1, <2>1
  <2>. QED BY <1>3, <2>2 DEF a
<1>4. CASE Handle(r, [q EXCEPT !.id = Resolve(q)])
  <2>. DEFINE a == [q EXCEPT !.id = Resolve(q)]
              id == Resolve(q)
  <2>1. /\ DOMAIN id = {"state", "who", "consumer"}
        /\ id.who \in {Nobody, Anon, Claims(q)} /\ id.consumer \in {Nobody, Anon, Claims(q)}
        /\ Certain(id.who, id.consumer, q)
        /\ IF id.state = "resolved"
             THEN id.who = Anon \/ (id.who \in Key /\ Live(q.cf, id.who, q.at))
             ELSE id.who = Nobody /\ id.consumer = Nobody
    <3>. HIDE DEF id
    <3>. QED BY Resolves DEF id
  <2>2. Handle(r, a)
    BY <1>4
  <2>. HIDE DEF id
  <2>3. DOMAIN a = Fields /\ a.id = id /\ \A f \in Fields \ {"id"} : a[f] = q[f]
    BY DEF Base, Fields, id
  <2>. HIDE DEF a
  <2>4. /\ a.shape = q.shape /\ a.pass = q.pass /\ a.worker = q.worker /\ a.cf = q.cf /\ a.at = q.at
        /\ a.mark = q.mark /\ a.how = "none" /\ a.pc = "idle"
    BY <2>3 DEF Fields
  <2>5. Base(a)
    BY <2>3, <2>4, SameClient DEF Base
  <2>6. IdOK(a)
    <3>1. Claims(a) = Claims(q) /\ Certain(id.who, id.consumer, a)
      BY <2>1, <2>4, SameClient
    <3>. QED BY <2>1, <2>3, <2>4, <3>1 DEF IdOK, IdNames
  <2>. QED BY <2>2, <2>4, <2>5, <2>6, FirstHandles
<1>. QED BY <1>2, <1>3, <1>4 DEF Enter

\* The redirect brings ai-proxy's credential and no cookie, so that the other tiers
\* find nobody.
LEMMA OnlyMarker ==
  ASSUME NEW q, Base(q), q.pass = 2, cache \subseteq Key \ Digest
  PROVE  /\ Resolve(q) = IF MarkerHolds(q) THEN Named(q.mark.who, q.mark.consumer) ELSE Unresolved
         /\ ~FindsStale(q)
<1>. USE Names
<1>1. q.shape = [session |-> q.shape.session, key |-> q.shape.key,
                 secret |-> q.shape.secret, model |-> q.shape.model,
                 conn |-> q.shape.conn, failing |-> q.shape.failing]
  BY DEF Base, ShapeOK, Shape
<1>2. Presented(q).key = Unknown /\ Presented(q).session = "none"
  BY <1>1 DEF Presented
<1>3. ~ServerFirst(q) /\ ~InKeys(q) /\ ~CacheHit(q) /\ ~IsAnonymous(q)
  BY <1>2 DEF ServerFirst, InKeys, CacheHit, IsAnonymous
<1>. QED BY <1>3 DEF Resolve, FindsStale

LEMMA SecondFails ==
  ASSUME CanSign, NEW q, DOMAIN q = Fields, q.pass = 2, q.pc # "upstream", q.how = "none",
         now \in Nat, mode \in Modes, q.at \in Nat, q.at <= now, ByMarker(q), NEW status \in Nat,
         NEW t, NEW r \in Req, q.answer.status \notin 400 .. 499 \/ req[r].answer # NoAnswer
  PROVE  LET a == OnFailure(q, status, t) IN Second(a) /\ Survives(r, a)
<1>. DEFINE a == OnFailure(q, status, t)
<1>1. CASE Waives(q, status)
  <2>. DEFINE named == [q EXCEPT !.consumer = LocalConsumer(q.id)]
              m == Mint(named, t)
  <2>1. a = [named EXCEPT !.pc = "upstream", !.how = "waived", !.when = t, !.mark = m]
    BY <1>1 DEF OnFailure, Admit
  <2>2. DOMAIN named = Fields /\ \A f \in Fields \ {"consumer"} : named[f] = q[f]
    BY DEF Fields
  <2>. HIDE DEF named, m
  <2>. HIDE DEF a
  <2>3. /\ a.pc = "upstream"
        /\ \A f \in Fields \ {"pc", "how", "when", "mark"} : a[f] = named[f]
    BY <2>1, <2>2 DEF Fields
  <2>4. a.pass = 2 /\ a.at = q.at /\ a.answer = q.answer
    BY <2>2, <2>3 DEF Fields
  <2>. QED BY <2>3, <2>4 DEF Second, Survives, RefusedWrongly, a
<1>2. CASE ~Waives(q, status)
  <2>1. a = [q EXCEPT !.pc = "closed", !.status = status]
    BY <1>2 DEF OnFailure
  <2>2. /\ DOMAIN a = Fields /\ a.pc = "closed" /\ a.status = status
        /\ \A f \in Fields \ {"pc", "status"} : a[f] = q[f]
    BY <2>1 DEF Fields
  <2>. HIDE DEF a
  <2>3. /\ a.pass = 2 /\ a.at = q.at /\ a.answer = q.answer /\ a.how = "none" /\ a.shape = q.shape
        /\ a.mark = q.mark /\ a.was = q.was /\ a.cf = q.cf
    BY <2>2 DEF Fields
  <2>4. Second(a)
    BY <2>2, <2>3 DEF Second
  <2>5. Survives(r, a)
    <3>. SUFFICES ASSUME Established(q), q.was.who \in Key => Live(q.cf, q.was.who, q.at),
                         status = 500, mode # "closed", q.was.who \in Key
                  PROVE  FALSE
      BY <2>2, <2>3 DEF Survives, Established, RefusedWrongly
    <3>. QED BY <1>2, Waived
  <2>. QED BY <2>4, <2>5 DEF a
<1>. QED BY <1>1, <1>2

LEMMA SecondHandles ==
  ASSUME CanSign, NEW q, DOMAIN q = Fields, q.pass = 2, q.pc = "idle", q.how = "none",
         q.answer = NoAnswer, q.status = 0, now \in Nat, mode \in Modes, q.at \in Nat, q.at <= now,
         ByMarker(q), NEW r \in Req, Handle(r, q)
  PROVE  \E a : Second(a) /\ Survives(r, a) /\ req' = [req EXCEPT ![r] = a]
<1>1. q.id.state # "rejected"
  BY DEF ByMarker, Named, Unresolved
<1>2. \/ req' = [req EXCEPT ![r] = Admit(q, "local", LocalConsumer(q.id), q.at)]
      \/ req' = [req EXCEPT ![r] = [q EXCEPT !.pc = "paused"]]
      \/ req' = [req EXCEPT ![r] = OnFailure(q, 500, now)]
  BY <1>1 DEF Handle
<1>3. CASE req' = [req EXCEPT ![r] = Admit(q, "local", LocalConsumer(q.id), q.at)]
  <2>. DEFINE a == Admit(q, "local", LocalConsumer(q.id), q.at)
              named == [q EXCEPT !.consumer = LocalConsumer(q.id)]
              m == Mint(named, q.at)
  <2>1. a = [named EXCEPT !.pc = "upstream", !.how = "local", !.when = q.at, !.mark = m]
    BY DEF Admit
  <2>2. DOMAIN named = Fields /\ \A f \in Fields \ {"consumer"} : named[f] = q[f]
    BY DEF Fields
  <2>. HIDE DEF named, m, a
  <2>3. /\ a.pc = "upstream"
        /\ \A f \in Fields \ {"pc", "how", "when", "mark"} : a[f] = named[f]
    BY <2>1, <2>2 DEF Fields
  <2>4. a.pass = 2 /\ a.at = q.at /\ a.answer = NoAnswer
    BY <2>2, <2>3 DEF Fields
  <2>5. Second(a) /\ Survives(r, a)
    BY <2>3, <2>4 DEF Second, Survives, RefusedWrongly, NoAnswer
  <2>. QED BY <1>3, <2>5 DEF a
<1>4. CASE req' = [req EXCEPT ![r] = [q EXCEPT !.pc = "paused"]]
  <2>. DEFINE a == [q EXCEPT !.pc = "paused"]
  <2>1. /\ DOMAIN a = Fields /\ a.pc = "paused" /\ \A f \in Fields \ {"pc"} : a[f] = q[f]
    BY DEF Fields
  <2>. HIDE DEF a
  <2>2. /\ a.pass = 2 /\ a.at = q.at /\ a.answer = NoAnswer /\ a.how = "none" /\ a.shape = q.shape
        /\ a.mark = q.mark /\ a.was = q.was /\ a.cf = q.cf /\ a.id = q.id
    BY <2>1 DEF Fields
  <2>3. Second(a)
    BY <2>1, <2>2, SameByMarker DEF Second
  <2>4. Survives(r, a)
    BY <2>1, <2>2 DEF Survives, RefusedWrongly, NoAnswer
  <2>. QED BY <1>4, <2>3, <2>4 DEF a
<1>5. CASE req' = [req EXCEPT ![r] = OnFailure(q, 500, now)]
  <2>. DEFINE a == OnFailure(q, 500, now)
  <2>1. Second(a) /\ Survives(r, a)
    BY SecondFails DEF NoAnswer
  <2>. HIDE DEF a
  <2>. QED BY <1>5, <2>1 DEF a
<1>. QED BY <1>2, <1>3, <1>4, <1>5

LEMMA SecondEnters ==
  ASSUME CanSign, NEW q, Base(q), q.id = Unresolved, q.how = "none", q.pass = 2, q.pc = "idle",
         q.answer = NoAnswer, q.status = 0, q.at = now, now \in Nat, mode \in Modes,
         Left(q.mark, q.was, q), cache \subseteq Key \ Digest, NEW r \in Req, Enter(r, q)
  PROVE  \E a : Second(a) /\ Survives(r, a) /\ req' = [req EXCEPT ![r] = a]
<1>1. CASE req' = [req EXCEPT ![r] = [q EXCEPT !.pc = "closed", !.status = 0]]
  <2>. DEFINE a == [q EXCEPT !.pc = "closed", !.status = 0]
  <2>1. /\ DOMAIN a = Fields /\ a.pc = "closed" /\ a.status = 0
        /\ \A f \in Fields \ {"pc", "status"} : a[f] = q[f]
    BY DEF Base, Fields
  <2>. HIDE DEF a
  <2>2. a.pass = 2 /\ a.at = q.at /\ a.answer = NoAnswer /\ a.how = "none"
    BY <2>1 DEF Fields
  <2>3. Second(a) /\ Survives(r, a)
    BY <2>1, <2>2 DEF Second, Survives, RefusedWrongly, NoAnswer
  <2>. QED BY <1>1, <2>3 DEF a
<1>2. CASE Handle(r, [q EXCEPT !.id = Resolve(q)])
  <2>. DEFINE id == Resolve(q)
              a == [q EXCEPT !.id = id]
  <2>1. id = IF MarkerHolds(q) THEN Named(q.mark.who, q.mark.consumer) ELSE Unresolved
    BY OnlyMarker
  <2>2. Handle(r, a)
    BY <1>2
  <2>. HIDE DEF id
  <2>3. DOMAIN a = Fields /\ a.id = id /\ \A f \in Fields \ {"id"} : a[f] = q[f]
    BY DEF Base, Fields
  <2>. HIDE DEF a
  <2>4. /\ a.pass = 2 /\ a.at = q.at /\ a.answer = NoAnswer /\ a.how = "none" /\ a.shape = q.shape
        /\ a.mark = q.mark /\ a.was = q.was /\ a.cf = q.cf /\ a.pc = "idle" /\ a.status = 0
    BY <2>3 DEF Fields
  <2>5. MarkerHolds(a) <=> MarkerHolds(q)
    BY <2>4 DEF MarkerHolds
  <2>6. ByMarker(a)
    BY <2>1, <2>3, <2>4, <2>5, SameLeft DEF ByMarker
  <2>. QED BY <2>2, <2>3, <2>4, <2>6, SecondHandles
<1>. QED BY <1>1, <1>2, OnlyMarker DEF Enter

LEMMA FirstSucceeds ==
  ASSUME CanSign, NEW q, Base(q), IdOK(q), q.how # "server", AnswerOK(q), q.answer.status = 200,
         q.pass = 1, q.at \in Nat, q.at <= now, now \in Nat
  PROVE  OnSuccess(q).pass = 1 /\ Second(OnSuccess(q))
<1>. DEFINE m == IF q.answer.mark = NoMarker THEN q.mark ELSE q.answer.mark
            c == q.answer.consumer
<1>1. PICK a : /\ OnSuccess(q) = Admit(a, "server", c, now)
               /\ Base(a) /\ IdNames(a) /\ a.id = Learned(q) /\ a.mark = m
               /\ a.pass = q.pass /\ a.at = q.at
  BY Relays
<1>2. a.id.who \in Key \union {Anon, Nobody}
  BY <1>1, LocalCaller DEF Learned, AnswerOK, AnswerFits
<1>3. c = Anon \/ a.mark.by = "server"
  BY <1>1 DEF AnswerOK, AnswerFits, NoMarker
<1>. HIDE DEF c, m
<1>. DEFINE x == Admit(a, "server", c, now)
<1>4. x.pass = 1 /\ x.at = q.at /\ Left(x.mark, ThisPass(x), x)
  BY <1>1, <1>2, <1>3, Leaves
<1>. HIDE DEF x
<1>5. x.pass = 1 /\ Second(x)
  BY <1>4 DEF Second
<1>. QED BY <1>1, <1>5 DEF x

\* On the second pass a success refuses nobody.
LEMMA SecondSucceeds ==
  ASSUME NEW q, Base(q), IdOK(q), q.how # "server", AnswerOK(q), q.answer.status = 200,
         q.pass = 2, q.at \in Nat, q.at <= now, NEW r \in Req
  PROVE  Second(OnSuccess(q)) /\ Survives(r, OnSuccess(q))
<1>. DEFINE c == q.answer.consumer
<1>1. PICK b : /\ OnSuccess(q) = Admit(b, "server", c, now)
               /\ Base(b) /\ b.answer = q.answer /\ b.pass = q.pass /\ b.at = q.at
  BY Relays
<1>. HIDE DEF c
<1>. DEFINE named == [b EXCEPT !.consumer = c]
            m == Mint(named, now)
            a == Admit(b, "server", c, now)
<1>2. a = [named EXCEPT !.pc = "upstream", !.how = "server", !.when = now, !.mark = m]
  BY DEF Admit
<1>3. DOMAIN named = Fields /\ \A f \in Fields \ {"consumer"} : named[f] = b[f]
  BY <1>1 DEF Base, Fields
<1>. HIDE DEF named, m, a
<1>4. /\ a.pc = "upstream"
      /\ \A f \in Fields \ {"pc", "how", "when", "mark"} : a[f] = named[f]
  BY <1>2, <1>3 DEF Fields
<1>5. a.pass = 2 /\ a.at = q.at /\ a.answer = q.answer
  BY <1>1, <1>3, <1>4 DEF Fields
<1>6. Second(a) /\ Survives(r, a)
  BY <1>4, <1>5 DEF Second, Survives, RefusedWrongly
<1>. QED BY <1>1, <1>6 DEF a

\* An answer arrives, the server's or 500.
LEMMA SecondHears ==
  ASSUME CanSign, NEW q, Good(q), q.pc = "paused", Second(q), now \in Nat, NEW r \in Req,
         NEW v, v = Verdict(srv, q, now) \/ v.status = 500
  PROVE  LET a == [q EXCEPT !.answer = v] IN Second(a) /\ Survives(r, a)
<1>. DEFINE a == [q EXCEPT !.answer = v]
<1>1. DOMAIN a = Fields /\ a.answer = v /\ \A f \in Fields \ {"answer"} : a[f] = q[f]
  BY DEF Good, Base, Fields
<1>. HIDE DEF a
<1>2. /\ a.pass = q.pass /\ a.at = q.at /\ a.shape = q.shape /\ a.worker = q.worker
      /\ a.mark = q.mark /\ a.was = q.was /\ a.cf = q.cf /\ a.id = q.id /\ a.pc = "paused"
      /\ a.how = "none"
  BY <1>1 DEF Fields, Good
<1>3. Second(a)
  BY <1>2, SameByMarker DEF Second
<1>4. Survives(r, a)
  <2>. SUFFICES ASSUME Established(a), a.was.who \in Key => Live(a.cf, a.was.who, a.at),
                       v.status \in 400 .. 499,
                       Verdict(srv, [Original(a) EXCEPT !.at = now], now).status = 200
                PROVE  FALSE
    BY <1>1, <1>2 DEF Survives, RefusedWrongly
  <2>1. Established(q) /\ q.pass = 2
    BY <1>2 DEF Established
  <2>2. v = Verdict(srv, q, now)
    OBVIOUS
  <2>3. Original(a) = Original(q)
    <3>1. Blank(a.shape, a.worker, a.cf) = Blank(q.shape, q.worker, q.cf)
      BY <1>2
    <3>. QED BY <1>2, <3>1 DEF Original
  <2>4. ByMarker(q) /\ q.at \in Nat /\ q.at <= now /\ Base(q)
    BY <2>1 DEF Second, Good
  <2>5. v.status = 200
    <3>1. Verdict(srv, [Original(q) EXCEPT !.at = now], now).status = 200
      BY <2>3
    <3>. QED BY <1>2, <2>1, <2>2, <2>4, <3>1, AnswersAlike
  <2>. QED BY <2>5
<1>. QED BY <1>3, <1>4 DEF a

\* No step refuses an established caller.
Kindly == \A r \in Req : req'[r] # req[r] => Survives(r, req'[r])

LEMMA StepPasses ==
  ASSUME CanSign
  PROVE  IInv /\ Passes /\ [Next]_vars => Passes' /\ Kindly
<1>. SUFFICES ASSUME IInv, Passes, [Next]_vars PROVE Passes' /\ Kindly
  OBVIOUS
<1>0. /\ DOMAIN req = Req /\ \A r \in Req : Good(req[r])
      /\ now \in Nat /\ mode \in Modes /\ cache \subseteq Key \ Digest
      /\ \A r \in Req : req[r].pc # "idle" => Second(req[r])
  BY DEF IInv, Passes
<1>a. ASSUME NEW r \in Req, NEW a, a.pc = "idle" \/ Second(a), Survives(r, a),
             req' = [req EXCEPT ![r] = a], UNCHANGED <<now, mode>>
      PROVE  Passes' /\ Kindly
  <2>1. \A x \in Req : req'[x] = IF x = r THEN a ELSE req[x]
    BY <1>0, <1>a
  <2>2. Kindly
    BY <1>a, <2>1 DEF Kindly
  <2>3. \A q : Second(q)' <=> Second(q)
    BY <1>a DEF Second
  <2>4. \A x \in Req : req'[x].pc # "idle" => Second(req'[x])
    BY <1>0, <1>a, <2>1
  <2>. QED BY <1>0, <1>a, <2>2, <2>3, <2>4 DEF Passes
<1>b. ASSUME UNCHANGED <<mode, req>>, now' \in Nat, now <= now' PROVE Passes' /\ Kindly
  <2>1. ASSUME NEW q, Second(q) PROVE Second(q)'
    BY <1>0, <1>b, <2>1 DEF Second
  <2>. QED BY <1>0, <1>b, <2>1 DEF Passes, Kindly
<1>c. ASSUME NEW r \in Req, NEW a, a.pass = 1 PROVE Survives(r, a)
  BY <1>c DEF Survives, Established
<1>1. ASSUME NEW r \in Req, Arrive(r) PROVE Passes' /\ Kindly
  <2>1. PICK s \in offers[r], w \in Worker : Enter(r, [Blank(s, w, conf[w]) EXCEPT !.at = now])
    BY <1>1 DEF Arrive
  <2>. DEFINE q == [Blank(s, w, conf[w]) EXCEPT !.at = now]
  <2>2. /\ DOMAIN q = Fields /\ q.pass = 1 /\ q.worker = w /\ q.shape = s /\ q.cf = conf[w]
        /\ q.at = now /\ q.mark = NoMarker
        /\ q.id = Unresolved /\ q.answer = NoAnswer /\ q.how = "none" /\ q.pc = "idle"
    BY DEF Blank, Fields
  <2>3. Enter(r, q)
    BY <2>1
  <2>. HIDE DEF q
  <2>4. Base(q)
    BY <2>2 DEF Base, IInv, MarkOK, NoMarker
  <2>5. PICK a : a.pass = 1 /\ Second(a) /\ req' = [req EXCEPT ![r] = a]
    BY <1>0, <2>2, <2>3, <2>4, FirstEnters
  <2>6. UNCHANGED <<now, mode>>
    BY <1>1 DEF Arrive
  <2>. QED BY <1>a, <1>c, <2>5, <2>6
<1>2. ASSUME NEW r \in Req, Evict(r) PROVE Passes' /\ Kindly
  <2>1. req[r].pc = "evicting" /\ Handle(r, req[r]) /\ UNCHANGED <<now, mode>>
    BY <1>2 DEF Evict
  <2>2. /\ Base(req[r]) /\ IdOK(req[r]) /\ req[r].how = "none" /\ req[r].pass = 1
        /\ req[r].at \in Nat /\ req[r].at <= now
    BY <1>0, <2>1 DEF Good, Second, Base
  <2>3. PICK a : a.pass = 1 /\ Second(a) /\ req' = [req EXCEPT ![r] = a]
    BY <1>0, <2>1, <2>2, FirstHandles
  <2>. QED BY <1>a, <1>c, <2>1, <2>3
<1>3. ASSUME NEW r \in Req, Answer(r) \/ Outage(r) PROVE Passes' /\ Kindly
  <2>1. /\ req[r].pc = "paused" /\ Good(req[r]) /\ Second(req[r]) /\ UNCHANGED <<now, mode>>
    BY <1>0, <1>3 DEF Answer, Outage
  <2>2. ASSUME NEW v, req' = [req EXCEPT ![r].answer = v],
               v = Verdict(srv, req[r], now) \/ v.status = 500
        PROVE  Passes' /\ Kindly
    <3>. DEFINE a == [req[r] EXCEPT !.answer = v]
    <3>1. Second(a) /\ Survives(r, a)
      BY <1>0, <2>1, <2>2, SecondHears
    <3>2. req' = [req EXCEPT ![r] = a]
      BY <2>2
    <3>. HIDE DEF a
    <3>. QED BY <1>a, <2>1, <3>1, <3>2
  <2>3. CASE Answer(r)
    <3>. DEFINE v == Verdict(srv, req[r], now)
    <3>1. req' = [req EXCEPT ![r].answer = v]
      BY <2>3 DEF Answer
    <3>. HIDE DEF v
    <3>. QED BY <2>2, <3>1 DEF v
  <2>4. CASE Outage(r)
    <3>. DEFINE v == [NoAnswer EXCEPT !.status = 500]
    <3>1. req' = [req EXCEPT ![r].answer = v]
      BY <2>4 DEF Outage
    <3>2. v.status = 500
      BY DEF NoAnswer
    <3>. HIDE DEF v
    <3>. QED BY <2>2, <3>1, <3>2
  <2>. QED BY <1>3, <2>3, <2>4
<1>4. ASSUME NEW r \in Req, Callback(r) PROVE Passes' /\ Kindly
  <2>. DEFINE q == req[r]
  <2>1. q.pc = "paused" /\ q.answer # NoAnswer /\ UNCHANGED <<now, mode>>
    BY <1>4 DEF Callback
  <2>2. /\ Base(q) /\ IdOK(q) /\ AnswerOK(q) /\ q.how = "none" /\ q.pass \in {1, 2}
        /\ DOMAIN q = Fields
        /\ q.at \in Nat /\ q.at <= now /\ (q.pass = 2 => ByMarker(q))
    BY <1>0, <2>1 DEF Good, Second, Base
  <2>3. CASE q.answer.status = 200
    <3>1. req' = [req EXCEPT ![r] = OnSuccess(q)]
      BY <1>4, <2>3 DEF Callback
    <3>2. CASE q.pass = 1
      <4>1. OnSuccess(q).pass = 1 /\ Second(OnSuccess(q))
        BY <1>0, <2>2, <2>3, <3>2, FirstSucceeds
      <4>. QED BY <1>a, <1>c, <2>1, <3>1, <4>1
    <3>3. CASE q.pass = 2
      <4>1. Second(OnSuccess(q)) /\ Survives(r, OnSuccess(q))
        BY <1>0, <2>2, <2>3, <3>3, SecondSucceeds
      <4>. QED BY <1>a, <2>1, <3>1, <4>1
    <3>. QED BY <2>2, <3>2, <3>3
  <2>4. CASE q.answer.status # 200
    <3>. DEFINE a == OnFailure(q, q.answer.status, now)
    <3>1. req' = [req EXCEPT ![r] = a]
      BY <1>4, <2>4 DEF Callback
    <3>2. q.answer.status \in Nat
      BY <2>2 DEF AnswerOK, AnswerFits
    <3>3. CASE q.pass = 1
      <4>1. a.pass = 1 /\ Second(a)
        BY <1>0, <2>1, <2>2, <3>3, FirstFails
      <4>. HIDE DEF a
      <4>. QED BY <1>a, <1>c, <2>1, <3>1, <4>1
    <3>4. CASE q.pass = 2
      <4>1. Second(a) /\ Survives(r, a)
        BY <1>0, <2>1, <2>2, <3>2, <3>4, SecondFails
      <4>. HIDE DEF a
      <4>. QED BY <1>a, <2>1, <3>1, <4>1
    <3>. QED BY <2>2, <3>3, <3>4
  <2>. QED BY <2>3, <2>4
<1>5. ASSUME NEW r \in Req, Redirect(r) PROVE Passes' /\ Kindly
  <2>. DEFINE q == req[r]
              b == [Blank(q.shape, q.worker, conf[q.worker]) EXCEPT
                      !.pass = 2, !.at = now, !.mark = q.mark,
                      !.was = [who |-> q.id.who, how |-> q.how,
                               consumer |-> q.consumer, when |-> q.when]]
  <2>1. q.pc = "upstream" /\ q.pass = 1 /\ Enter(r, b) /\ UNCHANGED <<now, mode>>
    BY <1>5 DEF Redirect
  <2>2. /\ DOMAIN b = Fields /\ b.pass = 2 /\ b.worker = q.worker /\ b.shape = q.shape
        /\ b.cf = conf[q.worker] /\ b.mark = q.mark /\ b.at = now /\ b.was = ThisPass(q)
        /\ b.id = Unresolved /\ b.answer = NoAnswer /\ b.how = "none" /\ b.pc = "idle"
        /\ b.status = 0
    BY DEF Blank, Fields, ThisPass
  <2>3. Base(q) /\ q.worker \in Worker /\ TablesOK(conf[q.worker])
    BY <1>0, <2>1 DEF Good, Base, IInv
  <2>4. Left(q.mark, ThisPass(q), q)
    BY <1>0, <2>1 DEF Second
  <2>. HIDE DEF b
  <2>5. MarkOK(b.mark, b)
    <3>1. Claims(b) = Claims(q) /\ (Anonymous(b) <=> Anonymous(q))
      BY <2>2 DEF Claims, Anonymous
    <3>. QED BY <2>2, <2>3, <3>1 DEF Base, MarkOK, Certain
  <2>6. Base(b)
    BY <2>2, <2>3, <2>5 DEF Base
  <2>7. Left(b.mark, b.was, b)
    BY <2>2, <2>4, SameLeft
  <2>8. PICK a : Second(a) /\ Survives(r, a) /\ req' = [req EXCEPT ![r] = a]
    BY <1>0, <2>1, <2>2, <2>6, <2>7, SecondEnters
  <2>. QED BY <1>a, <2>1, <2>8
<1>6. ASSUME NEW r \in Req, Leave(r) PROVE Passes' /\ Kindly
  <2>1. Idle.pc = "idle" /\ Idle.pass = 1
    BY DEF Idle, Blank
  <2>2. req' = [req EXCEPT ![r] = Idle] /\ UNCHANGED <<now, mode>>
    BY <1>6 DEF Leave
  <2>. QED BY <1>a, <1>c, <2>1, <2>2
<1>7. ASSUME \/ \E k \in Key : Create(k) \/ Revoke(k) \/ Narrow(k)
             \/ \E p \in Policy : SetPolicy(p)
             \/ \E w \in Worker : Push(w)
             \/ UNCHANGED vars
      PROVE  Passes' /\ Kindly
  <2>1. UNCHANGED <<now, mode, req>>
    BY <1>7 DEF Create, Revoke, Narrow, SetPolicy, Changes, Push, vars
  <2>. QED BY <1>0, <1>b, <2>1
<1>8. ASSUME Tick PROVE Passes' /\ Kindly
  BY <1>0, <1>8, <1>b DEF Tick
<1>. QED BY <1>1, <1>2, <1>3, <1>4, <1>5, <1>6, <1>7, <1>8 DEF Next

\* The fallback pass of a request that was let through is not refused: by a server
\* that would still admit its caller, nor by an outage that the failure mode waives
\* for named callers, in whatever order verdicts, changes of the tables, pushes and
\* ticks of the clock come between the two passes, as long as the worker's tables
\* list the caller.
THEOREM FallbacksSurvive == ASSUME CanSign PROVE Spec => FallbackSurvives
<1>1. Init => Passes
  <2>1. Idle.pc = "idle"
    BY DEF Idle, Blank
  <2>2. \A p \in Plans : p.mode \in Modes
    BY ExtAuthAssumption
  <2>. QED BY <2>1, <2>2 DEF Init, Passes
<1>2. IInv /\ Passes /\ [Next]_vars => Passes' /\ Kindly
  BY StepPasses
<1>3. Kindly => \A r \in Req : LET q == req'[r] IN
         q # req[r] /\ Established(q) /\ (q.was.who \in Key => Live(q.cf, q.was.who, q.at))
           => ~RefusedWrongly(r, q)
  BY DEF Kindly, Survives
<1>. QED BY <1>1, <1>2, <1>3, AlwaysIInv, PTL DEF Spec, FallbackSurvives
=============================================================================
