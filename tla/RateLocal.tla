------------------------------- MODULE RateLocal -------------------------------
(***************************************************************************)
(* gpustack-rate-limit on the local backend (localBackend of backend.go):  *)
(* the worker threads of one Envoy share a list of [score, count] records  *)
(* per bucket in shared data.  BatchEval is synchronous, so a worker       *)
(* handles one hook at a time; a step is one GetSharedData or              *)
(* SetSharedData call and what follows it up to the next.  The version of  *)
(* an absent key is 0, and a write with version 0 is unconditional.        *)
(***************************************************************************)
EXTENDS RateWindows

CONSTANTS
  Worker,       \* worker threads
  Turns,        \* bound: hooks that each worker runs
  Caller, Config,  \* the kinds of request, and the configurations
  MaxTokens,    \* bound: total_tokens of a response
  MaxRetries,   \* localMaxCASRetries
  Established,  \* buckets that were written before
  Faulty,       \* buckets for which the host may refuse a call
  MaxTime       \* bound: the clock stops here

ASSUME LocalAssumption ==
  /\ IsFiniteSet(Worker) /\ IsFiniteSet(Caller)
  /\ Turns \in Nat /\ MaxTokens \in Nat /\ MaxTime \in Nat
  /\ MaxRetries \in Nat \ {0} /\ Accepted(Config)

Key == Keys(Config, Caller)
ChecksOf == [c \in Caller |-> Checks(Config, c)]
PendingOf == [c \in Caller |-> Pending(Config, c)]
AllChecks == UNION {Range(ChecksOf[c]) : c \in Caller}

\* RateQuota.Limits lets positive windows and quotas pass, requests are counted
\* in rolling windows only, and a calendar goes on in both directions.
ASSUME LocalEntries ==
  /\ \A c \in Caller : ChecksOf[c] \in Seq(AllChecks)
  /\ \A e \in AllChecks :
      /\ e \in [key : Key, limit : {e.limit}, quota : Nat \ {0}, mode : {"check", "check_and_add"}]
      /\ IF e.limit.starts = {} THEN e.limit.window \in Nat \ {0}
         ELSE /\ e.mode = "check" /\ e.limit.starts \subseteq Int
              /\ \A t \in 0..MaxTime :
                   (\E s \in e.limit.starts : s <= t) /\ (\E s \in e.limit.starts : s > t)

VARIABLES
  now,
  kv,       \* shared data: Key -> [cas, list], a list being a set of records
            \* [by, pos, score, count], by and pos being history: the hook, and
            \* which of its entries this is
  pc, entries, at, count, pos, attempt, seen,  \* BatchEval of each worker
  hook,     \* how many hooks each worker has begun
  open,     \* callers of requests that run upstream
  charged,  \* history: Key -> the records of requests let through
  lost,     \* history: records whose write was given up
  refused   \* history: hooks that were refused

batch == <<pc, entries, at, count, pos, attempt, seen>>
vars  == <<now, kv, batch, hook, open, charged, lost, refused>>

Nothing == [cas |-> 0, list |-> {}]

Init ==
  /\ now = 0
  /\ kv = [k \in Key |-> [Nothing EXCEPT !.cas = IF k \in Established THEN 1 ELSE 0]]
  /\ pc = [w \in Worker |-> "idle"]
  /\ entries = [w \in Worker |-> <<>>]
  /\ at = [w \in Worker |-> 0]
  /\ count = [w \in Worker |-> 0]
  /\ pos = [w \in Worker |-> 0]
  /\ attempt = [w \in Worker |-> 0]
  /\ seen = [w \in Worker |-> Nothing]
  /\ hook = [w \in Worker |-> 0]
  /\ open = [w \in Worker |-> {}]
  /\ charged = [k \in Key |-> {}]
  /\ lost = {}
  /\ refused = {}
-----------------------------------------------------------------------------
PruneNothing(list, limit, t) == list   \* fault: the window never slides

\* What localAddEntry keeps and localWindowTotal counts: no upper bound here.
Live(list, limit, t) == {e \in list : e.score > t - WindowAt(limit, t)}

Total(list) == MapThenSumSet(LAMBDA e : e.count, list)

Over(total, quota) == total >= quota

CasIgnored(w, k) == TRUE   \* fault: the write does not compare
CasHolds(w, k) == seen[w].cas = 0 \/ kv[k].cas = seen[w].cas

Exhausted(w) == attempt[w] + 1 >= MaxRetries

\* From the m-th entry on, the first that this pass works on; 0 if none is left.
NextIn(es, m, modes) ==
  LET rest == {n \in DOMAIN es : n >= m /\ es[n].mode \in modes}
  IN IF rest = {} THEN 0 ELSE Min(rest)

Checking == {"check", "check_and_add"}
Adding == {"add", "check_and_add"}

\* BatchEval returns: the callback has run, the locals are gone.
Return(w) ==
  /\ pc' = [pc EXCEPT ![w] = "idle"]
  /\ entries' = [entries EXCEPT ![w] = <<>>]
  /\ at' = [at EXCEPT ![w] = 0]
  /\ count' = [count EXCEPT ![w] = 0]
  /\ pos' = [pos EXCEPT ![w] = 0]
  /\ attempt' = [attempt EXCEPT ![w] = 0]
  /\ seen' = [seen EXCEPT ![w] = Nothing]

Goto(w, label, n) ==
  /\ pc' = [pc EXCEPT ![w] = label]
  /\ pos' = [pos EXCEPT ![w] = n]
  /\ attempt' = [attempt EXCEPT ![w] = 0]
  /\ seen' = [seen EXCEPT ![w] = Nothing]
  /\ UNCHANGED <<entries, at, count>>

\* Pass 2 goes on with the n-th entry, or is over.
Write(w, es, n) ==
  IF NextIn(es, n, Adding) = 0 THEN Return(w) ELSE Goto(w, "load", NextIn(es, n, Adding))
-----------------------------------------------------------------------------
\* Every record that pass 2 of a hook is going to write.
RecordOf(by, n, t, sum) == [by |-> by, pos |-> n, score |-> t, count |-> sum]

Charge(es, by, t, sum) ==
  charged' = [k \in Key |-> charged[k] \union
    {RecordOf(by, n, t, sum) : n \in {n \in DOMAIN es : es[n].key = k /\ es[n].mode \in Adding}}]

Record(w) == RecordOf(<<w, hook[w]>>, pos[w], at[w], count[w])

\* onHttpRequestHeaders: a request that some combination binds.
Arrive(w) ==
  /\ pc[w] = "idle" /\ hook[w] < Turns
  /\ hook' = [hook EXCEPT ![w] = @ + 1]
  /\ \E c \in Caller :
       /\ ChecksOf[c] # <<>>
       /\ entries' = [entries EXCEPT ![w] = ChecksOf[c]]
       /\ open' = [open EXCEPT ![w] = @ \union {[caller |-> c, hook |-> hook'[w]]}]
       /\ pos' = [pos EXCEPT ![w] = NextIn(ChecksOf[c], 1, Checking)]
  /\ at' = [at EXCEPT ![w] = now]
  /\ count' = [count EXCEPT ![w] = 1]
  /\ pc' = [pc EXCEPT ![w] = "check"]
  /\ UNCHANGED <<now, kv, attempt, seen, charged, lost, refused>>

\* onHttpStreamDone on the worker of the request, with the tokens of the
\* response; without tokens or pending entries nothing happens.
StreamDone(w) ==
  /\ pc[w] = "idle" /\ hook[w] < Turns
  /\ hook' = [hook EXCEPT ![w] = @ + 1]
  /\ \E q \in open[w], n \in 1..MaxTokens :
       /\ PendingOf[q.caller] # <<>>
       /\ open' = [open EXCEPT ![w] = @ \ {q}]
       /\ entries' = [entries EXCEPT ![w] = PendingOf[q.caller]]
       /\ count' = [count EXCEPT ![w] = n]
       /\ Charge(PendingOf[q.caller], <<w, hook[w] + 1>>, now, n)
  /\ at' = [at EXCEPT ![w] = now]
  /\ pos' = [pos EXCEPT ![w] = NextIn(entries'[w], 1, Adding)]
  /\ pc' = [pc EXCEPT ![w] = "load"]
  /\ UNCHANGED <<now, kv, attempt, seen, lost, refused>>

\* Pass 1, one bucket: refuse the request, look at the next, or go to pass 2.
Admitted(w) ==
  LET es == entries[w]
      n  == NextIn(es, pos[w] + 1, Checking)
  IN IF n # 0 THEN Goto(w, "check", n) /\ UNCHANGED charged
              ELSE Write(w, es, 1) /\ Charge(es, <<w, hook[w]>>, at[w], count[w])

Refuse(w) == Return(w)

Check(w) ==
  LET e == entries[w][pos[w]]
  IN /\ pc[w] = "check"
     /\ IF Over(Total(Live(kv[e.key].list, e.limit, at[w])), e.quota)
          THEN /\ Refuse(w)
               /\ refused' = refused \union {<<w, hook[w]>>}
               /\ open' = [open EXCEPT ![w] = {q \in @ : q.hook # hook[w]}]
               /\ UNCHANGED charged
          ELSE Admitted(w) /\ UNCHANGED <<refused, open>>
     /\ UNCHANGED <<now, kv, hook, lost>>

\* localAddEntry: GetSharedData, prune and append.
Load(w) ==
  LET e == entries[w][pos[w]]
  IN /\ pc[w] = "load"
     /\ seen' = [seen EXCEPT ![w] =
          [cas |-> kv[e.key].cas, list |-> Live(kv[e.key].list, e.limit, at[w]) \union {Record(w)}]]
     /\ pc' = [pc EXCEPT ![w] = "store"]
     /\ UNCHANGED <<now, kv, entries, at, count, pos, attempt, hook, open, charged, lost, refused>>

\* The next entry, without the record.
GiveUp(w) ==
  /\ Write(w, entries[w], pos[w] + 1)
  /\ lost' = lost \union {Record(w)}

\* ... and SetSharedData: a lost race is retried, or given up with a warning.
Store(w) ==
  LET k == entries[w][pos[w]].key
  IN /\ pc[w] = "store"
     /\ \/ /\ CasHolds(w, k)
           /\ kv' = [kv EXCEPT ![k] = [cas |-> @.cas + 1, list |-> seen[w].list]]
           /\ Write(w, entries[w], pos[w] + 1)
           /\ UNCHANGED lost
        \/ /\ ~CasHolds(w, k) /\ ~Exhausted(w)
           /\ pc' = [pc EXCEPT ![w] = "load"]
           /\ attempt' = [attempt EXCEPT ![w] = @ + 1]
           /\ seen' = [seen EXCEPT ![w] = Nothing]
           /\ UNCHANGED <<kv, entries, at, count, pos, lost>>
        \/ /\ ~CasHolds(w, k) /\ Exhausted(w)
           /\ GiveUp(w)
           /\ UNCHANGED kv
     /\ UNCHANGED <<now, hook, open, charged, refused>>

\* The host refuses a call: the check passes, the write is skipped.
HostRefuses(w) ==
  /\ pc[w] # "idle" /\ entries[w][pos[w]].key \in Faulty
  /\ \/ pc[w] = "check" /\ Admitted(w) /\ UNCHANGED lost
     \/ pc[w] \in {"load", "store"} /\ GiveUp(w) /\ UNCHANGED charged
  /\ UNCHANGED <<now, kv, hook, open, refused>>

Tick ==
  /\ now < MaxTime
  /\ now' = now + 1
  /\ UNCHANGED <<kv, batch, hook, open, charged, lost, refused>>

Stopped ==
  /\ now = MaxTime
  /\ \A w \in Worker : pc[w] = "idle"
  /\ UNCHANGED vars

Next ==
  \/ \E w \in Worker :
       Arrive(w) \/ StreamDone(w) \/ Check(w) \/ Load(w) \/ Store(w) \/ HostRefuses(w)
  \/ Tick
  \/ Stopped

Spec == Init /\ [][Next]_vars
-----------------------------------------------------------------------------
TypeOK ==
  /\ now \in Nat
  /\ \A k \in Key : kv[k].cas \in Nat /\ kv[k].list \subseteq charged[k] \ lost
  /\ pc \in [Worker -> {"idle", "check", "load", "store"}]
  /\ \A w \in Worker : pos[w] \in (IF pc[w] = "idle" THEN {0} ELSE DOMAIN entries[w])
  /\ attempt \in [Worker -> 0..(MaxRetries - 1)]
  /\ \A k \in Key :
       charged[k] \subseteq [by : Worker \X (1..Turns), pos : Nat, score : 0..now, count : Nat]
  /\ refused \subseteq Worker \X (1..Turns)

\* A key stands for one limit, and whoever uses it is checked against every
\* quota of that limit (see RateRedis).
BucketsAgree ==
  \A e \in AllChecks, who \in Caller : \A f \in Range(ChecksOf[who]) :
    f.key = e.key => f.limit = e.limit /\ f.mode = e.mode /\ e \in Range(ChecksOf[who])

\* What a bucket has been charged inside the window of now.
InWindow(e) == {c \in charged[e.key] : c.score > now - WindowAt(e.limit, now)}

\* "Running a single Higress replica (the quotas are exact)": no more requests
\* than the quota are let through in any window.
QuotaExact ==
  \A e \in AllChecks : e.mode = "check_and_add" =>
    Cardinality({c.by : c \in InWindow(e)}) <= e.quota

\* "Concurrent workers may briefly over-admit": by at most one request for
\* each of the other workers, however the calls interleave, and one for each
\* write given up.  The first use of a bucket writes it unconditionally, and
\* the check of one that the host refuses to read passes.
OverAdmissionBounded ==
  \A e \in AllChecks : e.key \in Established \ Faulty /\ e.mode = "check_and_add" =>
    Cardinality({c.by : c \in InWindow(e) \ lost}) <= e.quota + Cardinality(Worker) - 1

\* Still to be written by the running BatchEval of the worker.
Outstanding(w, c) ==
  pc[w] \in {"load", "store"} /\ c.by = <<w, hook[w]>> /\ c.pos >= pos[w]

Counted(e, c) == c \in kv[e.key].list \/ \E w \in Worker : Outstanding(w, c)

\* "A CAS retry loop provides per-key atomicity across workers": what was let
\* through is in the list of its bucket while its window lasts, unless "the
\* write is abandoned".
NoCountLost ==
  \A e \in AllChecks : e.key \in Established =>
    \A c \in InWindow(e) \ lost : Counted(e, c)

\* Over-admission is by the race of a check only: its bound holds, and no write
\* forgets what another let through (BatchEval of the shared-data backend).
QuotaHeld == BucketsAgree => OverAdmissionBounded /\ NoCountLost

\* ... from the first use of the bucket on.
NoCountEverLost ==
  \A e \in AllChecks : \A c \in InWindow(e) \ lost : Counted(e, c)

\* "They never collide": a request is counted once in each of its buckets.
ChargedOnce ==
  \A k \in Key : \A c, d \in kv[k].list : c.by = d.by => c = d

\* A request is refused only at a quota that others have used up: somebody was
\* let through, within the window, in a bucket of its own.
NeverStarved ==
  [][\A w \in Worker : refused' # refused /\ pc[w] = "check" /\ pc'[w] = "idle" =>
       LET e == entries[w][pos[w]]
       IN MapThenSumSet(LAMBDA c : c.count,
            {c \in charged[e.key] : c.score > at[w] - WindowAt(e.limit, at[w])}) >= e.quota]_vars
=============================================================================
