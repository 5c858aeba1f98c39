------------------------------ MODULE LBBudget ------------------------------
(***************************************************************************)
(* What the in-flight budget of gpustack-lb promises, whatever the store:  *)
(* a request is admitted to a target only while the target has room, holds *)
(* at most one slot, and its slot goes away only when the request gives it *)
(* back or has held it for MaxAge.  Stores are shown to implement this     *)
(* specification; it says nothing of how they do it.                       *)
(***************************************************************************)
EXTENDS Integers, FiniteSets

CONSTANTS
  Req,      \* requests
  Target,   \* candidate keys, each with a budget of its own
  MaxRun,   \* Target -> Nat, 0 for a target without a cap
  MaxAge    \* how long an entry counts

VARIABLES
  clock,    \* time
  asked,    \* asked[r]: when r last asked for a slot
  held      \* held[t]: the requests holding a slot of t

vars == <<clock, asked, held>>

Holds(r) == \E t \in Target : r \in held[t]

\* From held to held', entries are lost only by those in back, or with age.
Keeps(back, c) ==
  \A t \in Target : \A q \in held[t] \ held'[t] : q \in back \/ asked[q] + MaxAge <= c

Init ==
  /\ clock = 0
  /\ asked = [r \in Req |-> 0]
  /\ held = [t \in Target |-> {}]

Ask(r) ==
  /\ ~Holds(r)
  /\ asked' = [asked EXCEPT ![r] = clock]
  /\ UNCHANGED <<clock, held>>

Admit(r, t) ==
  /\ ~Holds(r)
  /\ held' \in [Target -> SUBSET Req]
  /\ r \in held'[t] /\ held'[t] \subseteq held[t] \union {r}
  /\ \A u \in Target \ {t} : held'[u] \subseteq held[u]
  /\ Keeps({}, clock)
  /\ MaxRun[t] = 0 \/ Cardinality(held'[t]) <= MaxRun[t]
  /\ UNCHANGED <<clock, asked>>

\* At age MaxAge an entry may be dropped, by anyone and at any time.
Release(r) ==
  /\ held' \in [Target -> SUBSET Req]
  /\ \A u \in Target : held'[u] \subseteq held[u]
  /\ Keeps({r}, clock)
  /\ UNCHANGED <<clock, asked>>

Pass ==
  /\ clock' >= clock
  /\ held' \in [Target -> SUBSET Req]
  /\ \A u \in Target : held'[u] \subseteq held[u]
  /\ Keeps({}, clock')
  /\ UNCHANGED asked

Next ==
  \/ \E r \in Req : Ask(r) \/ Release(r)
  \/ \E r \in Req, t \in Target : Admit(r, t)
  \/ Pass

Spec == Init /\ [][Next]_vars
=============================================================================
