--------------------------- MODULE LBSharedInflight ---------------------------
(***************************************************************************)
(* The in-flight budget of gpustack-lb on the shared-data backend          *)
(* (state.go).  Every worker thread of one Envoy process runs Reserve at   *)
(* selection and removeInflight at stream end, each a loop of              *)
(* GetSharedData and SetSharedData calls; a step here is one such call     *)
(* and the local computation up to the next.  A SetSharedData whose cas is *)
(* 0 always succeeds, and 0 is what a read of an absent key returns.       *)
(***************************************************************************)
EXTENDS Integers, FiniteSets, SequencesExt, LBShared

CONSTANTS
  Key,            \* Candidate.Key() of the published candidates
  NoKey,          \* no candidate chosen
  MaxRun,         \* Key -> Nat, 0 = unlimited
  MaxAge,         \* maxInflightAgeMs
  Established,    \* keys that some earlier request initialized
  Faulty          \* keys for which the host may refuse a shared-data call

ASSUME SharedAssumption ==
  /\ IsFiniteSet(Req) /\ IsFiniteSet(Key) /\ Key # {} /\ NoKey \notin Key
  /\ MaxRun \in [Key -> Nat]
  /\ MaxAge \in Nat \ {0} /\ CasMaxRetries \in Nat \ {0} /\ MaxTime \in Nat
  /\ Established \subseteq Key /\ Faulty \subseteq Key

VARIABLES
  now,
  kv,       \* shared data: Key -> [cas, starts], cas 0 for an absent key
  pc, order, at, attempt, seen,   \* the running hook of each request
  chosen, token                   \* its context: candidate, start or 0

local == <<pc, order, at, attempt, seen>>
vars  == <<now, kv, local, chosen, token>>

RemoveCasRetries == 2 * CasMaxRetries

Nothing == [cas |-> 0, starts |-> <<>>]

Init ==
  /\ now = 1
  /\ kv = [k \in Key |-> [Nothing EXCEPT !.cas = IF k \in Established THEN 1 ELSE 0]]
  /\ pc = [r \in Req |-> "idle"]
  /\ order = [r \in Req |-> <<>>]
  /\ at = [r \in Req |-> 0]
  /\ attempt = [r \in Req |-> 0]
  /\ seen = [r \in Req |-> Nothing]
  /\ chosen = [r \in Req |-> NoKey]
  /\ token = [r \in Req |-> 0]

PruneNothing(starts, t) == starts   \* fault: leaked entries stay

\* pruneStarts, and readInflight which counts what it would keep.
Prune(starts, t) ==
  LET kept[i \in 0..Len(starts)] ==
        IF i = 0 THEN <<>>
        ELSE IF t - starts[i] < MaxAge THEN Append(kept[i - 1], starts[i])
        ELSE kept[i - 1]
  IN kept[Len(starts)]

Write(k, starts) == kv' = [kv EXCEPT ![k] = [cas |-> @.cas + 1, starts |-> starts]]

Goto(r, label) == pc' = [pc EXCEPT ![r] = label]

\* A hook that returns forgets its locals.
Return(r, label) ==
  /\ Goto(r, label)
  /\ order' = [order EXCEPT ![r] = <<>>]
  /\ at' = [at EXCEPT ![r] = 0]
  /\ attempt' = [attempt EXCEPT ![r] = 0]
  /\ seen' = [seen EXCEPT ![r] = Nothing]

Routed(r, k, start) ==
  /\ Return(r, "running")
  /\ chosen' = [chosen EXCEPT ![r] = k]
  /\ token' = [token EXCEPT ![r] = start]

Exhausted(r, limit) == attempt[r] + 1 >= limit

CasIgnored(r, k) == TRUE   \* fault: the write does not compare
CasHolds(r, k) == kv[k].cas = seen[r].cas

\* After a lost compare-and-swap or an initialization: read again, or give up
\* at the limit, which means fail-open for a reservation.
Again(r, label) ==
  /\ attempt' = [attempt EXCEPT ![r] = @ + 1]
  /\ Goto(r, label)
  /\ seen' = [seen EXCEPT ![r] = Nothing]
  /\ UNCHANGED <<order, at, chosen, token>>
-----------------------------------------------------------------------------
(***************************************************************************)
(* Reserve.  The preferred key heads order[r] and stays in chosen[r] for   *)
(* the fail-open case; the keys found full are dropped from the walk.      *)
(***************************************************************************)
Reserve(r) ==
  /\ pc[r] = "idle"
  /\ \E o \in SetToSeqs(Key) :
       /\ order' = [order EXCEPT ![r] = o]
       /\ chosen' = [chosen EXCEPT ![r] = o[1]]
  /\ at' = [at EXCEPT ![r] = now]
  /\ Goto(r, "load")
  /\ UNCHANGED <<now, kv, attempt, seen, token>>

FullLate(k, kept) == MaxRun[k] > 0 /\ Len(kept) > MaxRun[k]   \* fault: one too many
Full(k, kept) == MaxRun[k] > 0 /\ Len(kept) >= MaxRun[k]

LoadInflight(r) ==
  LET k    == order[r][1]
      kept == Prune(kv[k].starts, at[r])
      full == Full(k, kept)
  IN /\ pc[r] = "load"
     /\ \/ /\ kv[k].cas = 0
           /\ Goto(r, "init")
           /\ UNCHANGED <<order, at, attempt, seen, chosen, token>>
        \/ /\ kv[k].cas > 0 /\ ~full
           /\ seen' = [seen EXCEPT ![r] = [cas |-> kv[k].cas, starts |-> Append(kept, at[r])]]
           /\ Goto(r, "store")
           /\ UNCHANGED <<order, at, attempt, chosen, token>>
        \/ /\ kv[k].cas > 0 /\ full /\ Len(order[r]) > 1
           /\ order' = [order EXCEPT ![r] = Tail(@)]
           /\ attempt' = [attempt EXCEPT ![r] = 0]
           /\ UNCHANGED <<pc, at, seen, chosen, token>>
        \/ /\ kv[k].cas > 0 /\ full /\ Len(order[r]) = 1
           /\ Return(r, "rejected")
           /\ chosen' = [chosen EXCEPT ![r] = NoKey]
           /\ UNCHANGED token
     /\ UNCHANGED <<now, kv>>

FailOpen(r) == Routed(r, chosen[r], 0)

\* The unconditional write that creates a key carries the empty state.
InitInflight(r) ==
  /\ pc[r] = "init"
  /\ Write(order[r][1], <<>>)
  /\ IF Exhausted(r, CasMaxRetries) THEN FailOpen(r) ELSE Again(r, "load")
  /\ UNCHANGED now

StoreInflight(r) ==
  LET k == order[r][1]
  IN /\ pc[r] = "store"
     /\ IF CasHolds(r, k)
          THEN Write(k, seen[r].starts) /\ Routed(r, k, at[r])
          ELSE /\ IF Exhausted(r, CasMaxRetries) THEN FailOpen(r) ELSE Again(r, "load")
               /\ UNCHANGED kv
     /\ UNCHANGED now

StoreRefused(r) == pc[r] = "store" /\ order[r][1] \in Faulty /\ Routed(r, order[r][1], at[r])

RemovalRefused(r) ==
  /\ pc[r] \in {"doneLoad", "doneStore"} /\ chosen[r] \in Faulty
  /\ Return(r, "leaked")
  /\ UNCHANGED <<chosen, token>>

\* fault: a key whose read fails is passed over like a full one
HostRefusesClosed(r) ==
  /\ \/ /\ pc[r] = "load" /\ order[r][1] \in Faulty /\ Len(order[r]) > 1
        /\ order' = [order EXCEPT ![r] = Tail(@)]
        /\ attempt' = [attempt EXCEPT ![r] = 0]
        /\ UNCHANGED <<pc, at, seen, chosen, token>>
     \/ StoreRefused(r) \/ RemovalRefused(r)
  /\ UNCHANGED <<now, kv>>

\* The host refuses a call: a failed read or initialization fails open, a
\* failed store is taken for a success; a removal is given up.
HostRefuses(r) ==
  /\ \/ pc[r] \in {"load", "init"} /\ order[r][1] \in Faulty /\ FailOpen(r)
     \/ StoreRefused(r) \/ RemovalRefused(r)
  /\ UNCHANGED <<now, kv>>
-----------------------------------------------------------------------------
(***************************************************************************)
(* Done, the in-flight half: removeInflight.                               *)
(***************************************************************************)
StreamDone(r) ==
  /\ pc[r] = "running"
  /\ IF token[r] = 0
       THEN Return(r, "done")
       ELSE /\ Goto(r, "doneLoad")
            /\ at' = [at EXCEPT ![r] = now]
            /\ UNCHANGED <<order, attempt, seen>>
  /\ UNCHANGED <<now, kv, chosen, token>>

\* The first entry with this start goes: entries of one start are alike.
DoneLoad(r) ==
  LET v    == kv[chosen[r]]
      kept == RemoveFirst(Prune(v.starts, at[r]), token[r])
  IN /\ pc[r] = "doneLoad"
     /\ IF kept = v.starts
          THEN Return(r, "done")
          ELSE /\ seen' = [seen EXCEPT ![r] = [cas |-> v.cas, starts |-> kept]]
               /\ Goto(r, "doneStore")
               /\ UNCHANGED <<order, at, attempt>>
     /\ UNCHANGED <<now, kv, chosen, token>>

\* A removal that exhausts its retries leaves the entry to age out.
DoneStore(r) ==
  LET k == chosen[r]
  IN /\ pc[r] = "doneStore"
     /\ IF CasHolds(r, k)
          THEN /\ Write(k, seen[r].starts)
               /\ Return(r, "done")
               /\ UNCHANGED <<chosen, token>>
          ELSE /\ IF Exhausted(r, RemoveCasRetries)
                    THEN Return(r, "leaked") /\ UNCHANGED <<chosen, token>>
                    ELSE Again(r, "doneLoad")
               /\ UNCHANGED kv
     /\ UNCHANGED now

Tick ==
  /\ now < MaxTime
  /\ now' = now + 1
  /\ UNCHANGED <<kv, local, chosen, token>>
-----------------------------------------------------------------------------
Stopped ==
  /\ now = MaxTime
  /\ \A r \in Req : pc[r] \in {"rejected", "done", "leaked"}
  /\ UNCHANGED vars

Next ==
  \/ \E r \in Req :
       \/ Reserve(r) \/ LoadInflight(r) \/ InitInflight(r) \/ StoreInflight(r)
       \/ StreamDone(r) \/ DoneLoad(r) \/ DoneStore(r) \/ HostRefuses(r)
  \/ Tick
  \/ Stopped

Spec == Init /\ [][Next]_vars
-----------------------------------------------------------------------------
\* Requests running on k under a reservation made at s.
Holders(k, s) == {r \in Req : pc[r] = "running" /\ chosen[r] = k /\ token[r] = s}

Recent == {s \in 1..now : now - s < MaxAge}

Entries(k, s) == Cardinality({i \in DOMAIN kv[k].starts : kv[k].starts[i] = s})

\* The first use of a key writes it unconditionally, and a refused store is
\* taken for a success: the guarantees below are those of the other keys.
Reliable == Established \ Faulty

YoungHolders(k) == UNION {Holders(k, s) : s \in Recent}

\* maxRunningRequests is a hard cap within the process: however the workers'
\* reads and writes interleave, no more than maxRun requests younger than
\* maxInflightAgeMs run on a key under a reservation.
HardCap ==
  \A k \in Reliable : MaxRun[k] > 0 => Cardinality(YoungHolders(k)) <= MaxRun[k]

\* The README's "hard cap", of a key on its first use too.
HardCapFromTheStart ==
  \A k \in Key : MaxRun[k] > 0 => Cardinality(YoungHolders(k)) <= MaxRun[k]

\* No worker's write loses another's entry: for every start instant the list
\* keeps at least as many entries as young requests that reserved then.
NoEntryLost ==
  \A k \in Reliable : \A s \in Recent : Cardinality(Holders(k, s)) <= Entries(k, s)

\* Nothing is counted twice and nothing is left behind: an entry belongs to a
\* request that reserved then and has not given it back, be it that the removal
\* exhausted its retries or that the host refused it.
NoEntryLeft ==
  \A k \in Key : \A s \in 1..now :
    Entries(k, s) <= Cardinality({r \in Req :
      /\ pc[r] \in {"running", "doneLoad", "doneStore", "leaked"}
      /\ chosen[r] = k /\ token[r] = s})

\* The list of a key is what is running on it, whatever the workers' writes race
\* for (Reserve and Release of the shared-data store).
EntriesExact == NoEntryLost /\ NoEntryLeft

\* Requests that weigh on k for a worker whose clock says t: they run there
\* under a reservation that is not too old then, or have not given it back.
Holding(k, t) ==
  {q \in Req : /\ pc[q] \in {"running", "doneLoad", "doneStore", "leaked"}
               /\ chosen[q] = k /\ 0 < token[q] /\ t < token[q] + MaxAge}

\* A request passes a key over as full, or is refused, only while maxRun other
\* requests weigh on it: nothing that writes or failures left behind, an entry
\* too many, a leak older than maxInflightAgeMs or a call the host refuses,
\* takes a place away, on a key of any kind.
FullMeansBusy ==
  [][\A r \in Req :
       pc[r] = "load" /\ order'[r] # order[r] /\ pc'[r] # "running" =>
         LET k == order[r][1]
         IN MaxRun[k] > 0 /\ Cardinality(Holding(k, at[r])) >= MaxRun[k]]_vars
=============================================================================
