-------------------------------- MODULE ExtAuth --------------------------------
(***************************************************************************)
(* gpustack-ext-auth: the tiers that name a caller inside the gateway, the *)
(* local skip, the authorization call with its failure modes, the          *)
(* verification cache in shared data, and the marker that carries the      *)
(* caller over an internal redirect, where ai-proxy has replaced the       *)
(* Authorization header.  Every worker thread holds its own copy of the    *)
(* pushed configuration, and a handler keeps the copy it began with.       *)
(*                                                                         *)
(* The authorization server is external: its answer is what main.go says   *)
(* of it.  The route is one that the plugin's gate matches, cookie is      *)
(* among headers_to_remove, and digests are of a kind this build checks.   *)
(***************************************************************************)
EXTENDS Integers

CONSTANTS
  Req, Worker,
  Key,          \* API keys, each with the credential it is presented by
  Digest,       \* those with a digest: table `keys`; the others: table `refs`
  Expiry,       \* Key -> exp
  Granted,      \* callers that the server's grants and model lists admit
  User,         \* the caller behind a session
  Nobody,       \* no identity, no consumer header, no key
  Anon,         \* the caller without a credential, and the consumer `none`
  Unknown,      \* a credential that names no caller, ai-proxy's included: its key
                \* is that of a system principal, which no table holds
  Plans,        \* what the server holds at first, the failure mode, and what clients send
  CanSign,      \* is there a signing key?
  MarkerTTL,
  MaxChanges,   \* bound: changes of the server's tables
  MaxTime       \* bound: the clock stops here

Policy == {"public", "authed", "principals"}
Modes == {"closed", "authenticated", "all"}   \* failure_mode_allow*
Shape == [session : {"none", "valid", "expired"}, key : Key \union {Unknown, Nobody},
          secret : BOOLEAN, model : BOOLEAN, conn : BOOLEAN,
          failing : BOOLEAN]   \* its model fails, which the fallback route is for
Config == [live : SUBSET Key, dead : SUBSET Key, open : SUBSET Key, policy : Policy]

ASSUME ExtAuthAssumption ==
  /\ {User, Nobody, Anon, Unknown} \intersect Key = {} /\ Unknown # Nobody
  /\ User # Nobody /\ User # Anon /\ Anon # Nobody
  /\ Digest \subseteq Key /\ Granted \subseteq Key \union {User}
  /\ Expiry \in [Key -> Nat] /\ MarkerTTL \in Nat /\ MaxTime \in Nat
  /\ CanSign \in BOOLEAN
  /\ Plans \subseteq [srv : Config, mode : Modes, offers : [Req -> SUBSET Shape]]
  /\ \A p \in Plans : p.srv.live \intersect p.srv.dead = {}
  \* the credential of a key without a digest is its secret
  /\ \A p \in Plans, r \in Req : \A s \in p.offers[r] : s.secret \/ s.key \in Digest

VARIABLES
  now,
  srv,      \* the server: live keys, unrestricted ones, the route's policy;
            \* dead is history: the keys ever revoked
  changes,
  conf,     \* worker -> what was pushed to it
  mode, offers,
  cache,    \* shared data: the credentials it holds an entry for
  req       \* request -> record

vars == <<now, srv, changes, conf, offers, mode, cache, req>>

NoMarker   == [by |-> "none", who |-> Nobody, consumer |-> Nobody, exp |-> 0]
NoAnswer   == [status |-> 0, consumer |-> Nobody, ref |-> Nobody, mark |-> NoMarker]
Unresolved == [state |-> "unresolved", who |-> Nobody, consumer |-> Nobody]
Rejected   == [Unresolved EXCEPT !.state = "rejected"]
Named(k, consumer) == [state |-> "resolved", who |-> k, consumer |-> consumer]

\* The pass before a redirect, for the properties.
NoPass == [who |-> Nobody, how |-> "none", consumer |-> Nobody, when |-> 0]

Blank(s, w, c) ==
  [pc |-> "idle", pass |-> 1, worker |-> w, shape |-> s, cf |-> c, at |-> 0,
   id |-> Unresolved, mark |-> NoMarker, answer |-> NoAnswer,
   consumer |-> Nobody, how |-> "none", when |-> 0, status |-> 0, was |-> NoPass]

\* Between requests.
Idle == Blank(CHOOSE s \in Shape : TRUE, CHOOSE w \in Worker : TRUE,
              [live |-> {}, dead |-> {}, open |-> {}, policy |-> "public"])

Init ==
  /\ now = 0 /\ changes = 0
  /\ \E p \in Plans : srv = p.srv /\ mode = p.mode /\ offers = p.offers
  /\ conf = [w \in Worker |-> srv]
  /\ cache = {}
  /\ req = [r \in Req |-> Idle]
-----------------------------------------------------------------------------
(***************************************************************************)
(* Who is calling: resolveIdentity.                                        *)
(***************************************************************************)
\* identityStillValid, and keyEntry.expired
Live(c, k, t) == k \in c.live /\ t < Expiry[k]

\* What the pass presents: on a redirect ai-proxy's credential has taken the
\* place of the client's, and the cookie is gone.
Presented(q) ==
  IF q.pass = 1 THEN q.shape
  ELSE [q.shape EXCEPT !.session = "none", !.key = Unknown, !.secret = TRUE]

MarkerHoldsUnlisted(q) ==   \* fault: good until it expires
  CanSign /\ q.mark.by = "plugin" /\ q.at < q.mark.exp /\ q.shape.model /\ q.shape.conn
\* Tier 0.  The server signs its own marker with another key.
MarkerHolds(q) ==
  /\ CanSign /\ q.mark.by = "plugin" /\ q.at < q.mark.exp
  /\ q.shape.model /\ q.shape.conn
  /\ IF q.mark.who = Anon THEN q.cf.policy = "public" ELSE Live(q.cf, q.mark.who, q.at)

\* A credential the server looks at before the API key.
ServerFirst(q) == Presented(q).session # "none"

\* Tier 1.
InKeys(q) == LET k == Presented(q).key IN k \in Digest /\ Live(q.cf, k, q.at)
FromKeys(q) ==
  IF Presented(q).secret THEN Named(Presented(q).key, Nobody) ELSE Rejected

\* Tier 2 reads the cache if there are refs; a stale entry is evicted.
CacheHit(q) == q.cf.live \ Digest # {} /\ Presented(q).key \in cache
FromCache(q) == Named(Presented(q).key, Presented(q).key)

\* Tier 3.
IsAnonymous(q) == q.cf.policy = "public" /\ Presented(q).key = Nobody

Resolve(q) ==
  IF MarkerHolds(q) THEN Named(q.mark.who, q.mark.consumer)
  ELSE IF ServerFirst(q) THEN Unresolved
  ELSE IF InKeys(q) THEN FromKeys(q)
  ELSE IF CacheHit(q) /\ Live(q.cf, Presented(q).key, q.at) THEN FromCache(q)
  ELSE IF IsAnonymous(q) THEN Named(Anon, Nobody)
  ELSE Unresolved

FindsStale(q) ==
  /\ ~MarkerHolds(q) /\ ~ServerFirst(q) /\ ~InKeys(q)
  /\ CacheHit(q) /\ ~Live(q.cf, Presented(q).key, q.at)
-----------------------------------------------------------------------------
(***************************************************************************)
(* What follows from it.                                                   *)
(***************************************************************************)
\* A key of `refs` can only be named by what the server called it.
LocalConsumer(id) ==
  IF id.state # "resolved" THEN Nobody
  ELSE IF id.who = Anon THEN Anon
  ELSE IF id.consumer # Nobody THEN id.consumer
  ELSE IF id.who \in Digest THEN id.who ELSE Nobody

AuthedSkipAnyModel(q) ==   \* fault: without a model header too
  /\ q.id.state = "resolved" /\ q.id.who # Anon
  /\ Live(q.cf, q.id.who, q.at) /\ q.id.who \in q.cf.open
AuthedSkipEligible(q) ==
  /\ q.id.state = "resolved" /\ q.id.who # Anon /\ q.shape.model
  /\ Live(q.cf, q.id.who, q.at) /\ q.id.who \in q.cf.open

LocalSkip(q) ==
  /\ q.cf.policy = "public" \/ (q.cf.policy = "authed" /\ AuthedSkipEligible(q))
  /\ LocalConsumer(q.id) # Nobody

\* applyMarker: otherwise the header stays as it is.
Mint(q, t) ==
  IF CanSign /\ q.id.who # Nobody /\ q.shape.model /\ q.consumer # Nobody /\ q.shape.conn
    THEN [by |-> "plugin", who |-> q.id.who, consumer |-> q.consumer, exp |-> t + MarkerTTL]
    ELSE q.mark

AdmitUnmarked(q, how, consumer, t) ==   \* fault: only the callback mints
  LET named == [q EXCEPT !.consumer = consumer]
  IN [named EXCEPT !.pc = "upstream", !.how = how, !.when = t,
                   !.mark = IF how = "local" THEN @ ELSE Mint(named, t)]
\* applyUpstreamRewrites and applyMarker, on every way to the model.
Admit(q, how, consumer, t) ==
  LET named == [q EXCEPT !.consumer = consumer]
  IN [named EXCEPT !.pc = "upstream", !.how = how, !.when = t, !.mark = Mint(named, t)]

WaivesVerdicts(q, status) ==   \* fault: any answer but 200 is a failure
  mode = "all" \/ (mode = "authenticated" /\ q.id.state = "resolved" /\ q.id.who # Anon)
\* failureModeAllows: 4xx is a verdict and never waived.
Waives(q, status) ==
  /\ status >= 500
  /\ \/ mode = "all"
     \/ mode = "authenticated" /\ q.id.state = "resolved" /\ q.id.who # Anon

OnFailureParked(q, status, t) ==   \* fault: what is waived is not resumed
  IF Waives(q, status) THEN q ELSE [q EXCEPT !.pc = "closed", !.status = status]
\* handleAuthzFailure
OnFailure(q, status, t) ==
  IF Waives(q, status) THEN Admit(q, "waived", LocalConsumer(q.id), t)
  ELSE [q EXCEPT !.pc = "closed", !.status = status]

\* The handler from resolveIdentity on, once the tiers have named q.id.
Handle(r, q) ==
  LET policy == q.cf.policy
      asked  == IF q.id.state = "rejected" THEN [q EXCEPT !.id = Unresolved] ELSE q
  IN IF q.id.state = "rejected" /\ policy # "public"
       THEN req' = [req EXCEPT ![r] = [q EXCEPT !.pc = "closed", !.how = "local", !.status = 401]]
     ELSE IF LocalSkip(asked)
       THEN req' = [req EXCEPT ![r] = Admit(asked, "local", LocalConsumer(asked.id), q.at)]
     ELSE \/ req' = [req EXCEPT ![r] = [asked EXCEPT !.pc = "paused"]]
          \/ req' = [req EXCEPT ![r] = OnFailure(asked, 500, now)]   \* dispatch fails

\* onHttpRequestHeaders.  It drops the client's x-mse-consumer first; without
\* an endpoint, or if the host refuses the headers, it answers status_on_error.
Enter(r, q) ==
  \/ req' = [req EXCEPT ![r] = [q EXCEPT !.pc = "closed", !.status = 0]]
  \/ /\ FindsStale(q)
     /\ req' = [req EXCEPT ![r] = [q EXCEPT !.pc = "evicting"]]
  \/ /\ ~FindsStale(q)
     /\ Handle(r, [q EXCEPT !.id = Resolve(q)])

Arrive(r) ==
  /\ req[r].pc = "idle"
  /\ \E s \in offers[r], w \in Worker : Enter(r, [Blank(s, w, conf[w]) EXCEPT !.at = now])
  /\ UNCHANGED <<now, srv, changes, conf, offers, mode, cache>>

\* evictVerification: an unconditional write, some time after the read.
Evict(r) ==
  /\ req[r].pc = "evicting"
  /\ cache' = cache \ {Presented(req[r]).key}
  /\ Handle(r, req[r])
  /\ UNCHANGED <<now, srv, changes, conf, offers, mode>>
-----------------------------------------------------------------------------
(***************************************************************************)
(* The authorization server.                                               *)
(***************************************************************************)
Asserts(q) == q.id.state = "resolved" /\ q.id.who # Anon

\* basic and session come before the API key; an asserted identity replaces all.
Authenticated(s, q, t) ==
  LET p == Presented(q) IN
  CASE Asserts(q)                                 -> IF Live(s, q.id.who, t) THEN q.id.who ELSE Nobody
    [] ~Asserts(q) /\ p.session = "valid"         -> User
    [] ~Asserts(q) /\ p.session = "expired"       -> Nobody
    [] ~Asserts(q) /\ p.session = "none"          ->
         IF p.key \in Key /\ p.secret /\ Live(s, p.key, t) THEN p.key ELSE Nobody

\* Its own marker says that it has answered already.
OwnMarker(q, t) ==
  ~Asserts(q) /\ q.mark.by = "server" /\ t < q.mark.exp /\ q.shape.conn

Status(s, q, who) ==
  IF s.policy = "public" THEN 200
  ELSE IF who = Nobody THEN 401
  ELSE IF ~q.shape.model THEN 400
  ELSE IF \/ who \in Granted
          \/ s.policy = "authed" /\ (who = User \/ who \in s.open) THEN 200
  ELSE 403

Verdict(s, q, t) ==
  LET who    == IF OwnMarker(q, t) THEN q.mark.consumer ELSE Authenticated(s, q, t)
      status == IF OwnMarker(q, t) THEN 200 ELSE Status(s, q, who)
      form   == ~Asserts(q) /\ ~OwnMarker(q, t)
  IN IF status # 200 THEN [NoAnswer EXCEPT !.status = status]
     ELSE [status   |-> 200,
           consumer |-> IF who = Nobody THEN Anon ELSE who,
           ref      |-> IF form /\ who \in Key \ Digest THEN who ELSE Nobody,
           mark     |-> IF who = Nobody THEN NoMarker
                        ELSE [by |-> "server", who |-> Nobody, consumer |-> who,
                              exp |-> t + MarkerTTL]]

Answer(r) ==
  /\ req[r].pc = "paused" /\ req[r].answer = NoAnswer
  /\ req' = [req EXCEPT ![r].answer = Verdict(srv, req[r], now)]
  /\ UNCHANGED <<now, srv, changes, conf, offers, mode, cache>>

\* A timeout, a lost connection, or the server's own 5xx.
Outage(r) ==
  /\ req[r].pc = "paused" /\ req[r].answer = NoAnswer
  /\ req' = [req EXCEPT ![r].answer = [NoAnswer EXCEPT !.status = 500]]
  /\ UNCHANGED <<now, srv, changes, conf, offers, mode, cache>>

Changes(c) ==
  /\ changes < MaxChanges
  /\ srv' = c /\ changes' = changes + 1
  /\ UNCHANGED <<now, conf, offers, mode, cache, req>>

Create(k)    == k \notin srv.live \union srv.dead
                /\ \E open \in SUBSET {k} :
                     Changes([srv EXCEPT !.live = @ \union {k}, !.open = @ \union open])
Revoke(k)    == k \in srv.live
                /\ Changes([srv EXCEPT !.live = @ \ {k}, !.open = @ \ {k}, !.dead = @ \union {k}])
Narrow(k)    == k \in srv.open /\ Changes([srv EXCEPT !.open = @ \ {k}])
SetPolicy(p) == p # srv.policy /\ Changes([srv EXCEPT !.policy = p])
-----------------------------------------------------------------------------
(***************************************************************************)
(* The callback of the call, and what may happen besides.                  *)
(***************************************************************************)
\* storeVerification: only what `refs` can vouch for later.
Storable(q) ==
  /\ q.id.state # "resolved" /\ q.answer.ref # Nobody
  /\ q.answer.ref \in q.cf.live /\ Presented(q).key # Nobody /\ q.answer.consumer # Nobody

\* A caller the server has just named is good for the marker.
Learned(q) ==
  IF q.id.state # "resolved" /\ q.answer.ref # Nobody THEN [q.id EXCEPT !.who = q.answer.ref] ELSE q.id

OnSuccess(q) ==
  LET relayed == [q EXCEPT !.mark = IF q.answer.mark = NoMarker THEN @ ELSE q.answer.mark,
                           !.id = Learned(q)]
  IN Admit(relayed, "server", q.answer.consumer, now)

Callback(r) ==
  LET q == req[r] IN
  /\ q.pc = "paused" /\ q.answer # NoAnswer
  /\ IF q.answer.status = 200
       THEN /\ req' = [req EXCEPT ![r] = OnSuccess(q)]
            /\ cache' = IF Storable(q) THEN cache \union {Presented(q).key} ELSE cache
       ELSE /\ req' = [req EXCEPT ![r] = OnFailure(q, q.answer.status, now)]
            /\ UNCHANGED cache
  /\ UNCHANGED <<now, srv, changes, conf, offers, mode>>

\* The model has failed and Envoy redirects the request, headers and all, to the
\* fallback route, on the same connection and so on the same worker.
Redirect(r) ==
  LET q == req[r] IN
  /\ q.pc = "upstream" /\ q.pass = 1 /\ q.shape.failing
  /\ Enter(r, [Blank(q.shape, q.worker, conf[q.worker]) EXCEPT
                 !.pass = 2, !.at = now, !.mark = q.mark,
                 !.was = [who |-> q.id.who, how |-> q.how,
                          consumer |-> q.consumer, when |-> q.when]])
  /\ UNCHANGED <<now, srv, changes, conf, offers, mode, cache>>

\* The response is complete, or the client has gone: no callback comes then.
Leave(r) ==
  /\ req[r].pc \in {"paused", "upstream", "closed"}
  /\ req' = [req EXCEPT ![r] = Idle]
  /\ UNCHANGED <<now, srv, changes, conf, offers, mode, cache>>

Push(w) ==
  /\ conf[w] # srv
  /\ conf' = [conf EXCEPT ![w] = srv]
  /\ UNCHANGED <<now, srv, changes, offers, mode, cache, req>>

Tick ==
  /\ now < MaxTime
  /\ now' = now + 1
  /\ UNCHANGED <<srv, changes, conf, offers, mode, cache, req>>

Next ==
  \/ \E r \in Req : \/ Arrive(r) \/ Evict(r) \/ Answer(r) \/ Outage(r)
                    \/ Callback(r) \/ Redirect(r) \/ Leave(r)
  \/ \E k \in Key : Create(k) \/ Revoke(k) \/ Narrow(k)
  \/ \E p \in Policy : SetPolicy(p)
  \/ \E w \in Worker : Push(w)
  \/ Tick

Spec == Init /\ [][Next]_vars

\* The host runs what a handler has begun, and a call ends in an answer or a
\* timeout.
FairSpec == Spec /\ \A r \in Req : WF_vars(Evict(r) \/ Answer(r) \/ Outage(r) \/ Callback(r))
-----------------------------------------------------------------------------
(***************************************************************************)
(* Properties.                                                             *)
(***************************************************************************)
Identity == [state : {"unresolved", "rejected", "resolved"},
             who : Key \union {Anon, Nobody}, consumer : Key \union {User, Anon, Nobody}]
Marker   == [by : {"none", "server", "plugin"}, who : Key \union {Anon, Nobody},
             consumer : Key \union {User, Anon, Nobody}, exp : 0 .. MaxTime + MarkerTTL]

\* Every variable has its type, a paused request has at most one answer, and
\* only what an identity or the server's word stands for is on its way to the
\* model (Admit, dispatchAuthz).
TypeOK ==
  /\ now \in 0 .. MaxTime /\ changes \in 0 .. MaxChanges /\ mode \in Modes
  /\ srv \in Config /\ conf \in [Worker -> Config] /\ cache \subseteq Key \ Digest
  /\ \A r \in Req :
       /\ req[r].pc \in {"idle", "evicting", "paused", "upstream", "closed"}
       /\ req[r].id \in Identity /\ req[r].mark \in Marker /\ req[r].cf \in Config

\* The request as the client sent it.
Original(q) == [Blank(q.shape, q.worker, q.cf) EXCEPT !.at = q.at]

\* Whom the client's credentials stand for, in the server's order.
Claims(q) ==
  CASE q.shape.session = "valid" -> User
    [] q.shape.session = "none" /\ q.shape.key \in Key /\ q.shape.secret -> q.shape.key
    [] OTHER -> Nobody

\* localSkipConsumer says that the server's answer is a constant function of
\* what the gateway holds: whenever a worker whose configuration is current
\* decides without the server, on the first pass or the second, it decides and
\* names the consumer as the server would for the request the client sent.
LocalVerdictExact ==
  [][\A r \in Req : LET q == req'[r]
                        v == Verdict(srv, Original(q), q.at) IN
       q # req[r] /\ q.how = "local" /\ q.cf = srv =>
         IF q.pc = "closed" THEN v.status = 401
         ELSE q.pc = "upstream" => v.status = 200 /\ v.consumer = q.consumer]_vars

\* x-mse-consumer (applyUpstreamRewrites), over all tiers, the cache, the marker
\* and both passes: if it names a caller, then the one whose credentials the
\* client presented, and it is missing only if the failure mode let the request
\* through: after a failure of the server, never after a verdict of its.
ConsumerExact ==
  \A r \in Req : req[r].pc = "upstream" =>
    /\ req[r].consumer \in {Nobody, Anon, Claims(req[r])}
    /\ req[r].consumer = Nobody => req[r].how = "waived"
    /\ \/ req[r].how = "server" /\ req[r].answer.status = 200
       \/ req[r].how = "waived" /\ req[r].answer.status \in {0, 500} /\ mode # "closed"
       \/ req[r].how = "local"  /\ req[r].id.state = "resolved"

\* identityStillValid: once a worker has adopted a revocation, or a key has
\* expired, no pass that begins there is admitted by its name without the
\* server, whatever marker or cache entry was left by then.
RevokedStaysOut ==
  \A r \in Req : LET q == req[r] IN
    q.pc = "upstream" /\ q.how # "server" /\ q.id.who \in Key =>
      q.id.who \notin q.cf.dead /\ q.at < Expiry[q.id.who]

\* A second pass whose first named its caller, or had the server name it, not
\* too long ago, and on a readable connection.
Established(q) ==
  /\ q.pass = 2 /\ q.shape.model /\ q.shape.conn
  /\ now < IF q.was.who = Nobody THEN q.mark.exp ELSE q.was.when + MarkerTTL
  /\ q.was.consumer # Nobody /\ (q.was.consumer = Anon => q.was.who = Anon)

RefusedWrongly(r, q) ==
  \/ /\ q.answer.status \in 400 .. 499 /\ req[r].answer = NoAnswer
     /\ Verdict(srv, [Original(q) EXCEPT !.at = now], now).status = 200
  \/ q.pc = "closed" /\ q.status = 500 /\ mode # "closed" /\ q.was.who \in Key
  \/ q.pc = "closed" /\ q.how = "local"

\* applyMarker: the fallback pass of a request that was let through is not
\* refused by a server that would still admit its caller, nor, if the failure
\* mode admits named callers, by an outage, as long as the worker's tables
\* list the caller.
FallbackSurvives ==
  [][\A r \in Req : LET q == req'[r] IN
       q # req[r] /\ Established(q) /\ (q.was.who \in Key => Live(q.cf, q.was.who, q.at))
         => ~RefusedWrongly(r, q)]_vars

\* "When anything is missing, leave the server's marker alone"
\* (markerClaimsFor): the same for a caller whom the server's tables list, but
\* the pushed ones do not yet.
FallbackSurvivesUnlisted ==
  [][\A r \in Req : LET q == req'[r] IN
       q # req[r] /\ Established(q) /\ (q.was.who \in Key => Live(srv, q.was.who, now))
         => ~RefusedWrongly(r, q)]_vars

\* "Once cleared it is not re-cached" (evictVerification): no entry is stored
\* for a key that the server has revoked.
RevokedNotCached == [][\A k \in cache' \ cache : k \notin srv.dead]_vars

\* evictVerification clears an entry "whose identity `refs` no longer vouches
\* for": never that of a live key.
OnlyDeadEvicted == [][\A k \in cache \ cache' : ~Live(srv, k, now)]_vars

\* A request that waits for the authorization server is resumed or answered.
NeverParked == \A r \in Req : req[r].pc \in {"paused", "evicting"} ~> req[r].pc \notin {"paused", "evicting"}
=============================================================================
