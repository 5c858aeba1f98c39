---------------------------- MODULE MCTokenFailover ----------------------------
(***************************************************************************)
(* Instances of TokenFailover for TLC.                                     *)
(***************************************************************************)
EXTENDS TokenFailover

CONSTANTS w1, w2, w3, t1, t2, r1, r2, r3, r4

NoPush == <<{t1, t2}>>
OneToken == <<{t1}>>
Rebuild == <<{t1}, {t1}>>
Push == <<{t1, t2}, {t2}>>

Setup(configs, failures, successes, cooldown, check, requests, time) ==
  {[configs |-> configs, failureThreshold |-> failures, successThreshold |-> successes,
    cooldown |-> cooldown, healthCheck |-> check, requests |-> requests, time |-> time]}

\* Recovery by cooldown of two tokens; a push during health checks; and two
\* handlers of one token whose writes overtake each other, that of a failure
\* that of a return or the other way round.
Failover ==
  Setup(NoPush, 2, 1, 1, FALSE, 3, 3) \cup Setup(Push, 2, 2, 0, TRUE, 2, 2)
  \cup Setup(OneToken, 1, 1, 0, TRUE, 2, 1) \cup Setup(OneToken, 1, 2, 0, TRUE, 3, 2)

\* What the documentation promises and the code does not keep.
SetupBoth == Setup(OneToken, 1, 2, 2, TRUE, 2, 4)
SetupEmpty == Setup(OneToken, 1, 1, 1, FALSE, 2, 3)
SetupPush == Setup(Push, 1, 1, 1, FALSE, 1, 3)
SetupRebuild == Setup(Rebuild, 1, 1, 2, FALSE, 2, 3)
SetupStart == Setup(Rebuild, 1, 1, 1, FALSE, 1, 3)
SetupStuck == Setup(OneToken, 1, 1, 1, FALSE, 3, 3)
SetupThreshold == Setup(OneToken, 2, 1, 1, FALSE, 3, 3)

Symmetry == Permutations(Req)
=============================================================================
