----------------------------- MODULE MCLBRedis -----------------------------
(***************************************************************************)
(* Instances of LBRedis for TLC.  One redis second is one tick.            *)
(***************************************************************************)
EXTENDS LBRedis, TLC

CONSTANTS r1, r2, r3, a, b, c1

\* Two targets of one backend.
OneBackend == [t \in {a, b} |-> c1]

\* One slot each, or no cap at all.
OneEach == [t \in {a, b} |-> 1]
NoCap   == [t \in {a, b} |-> 0]

\* Streams that all end well, or that all fail but one that may do either: two
\* failures make an ejection, and the success comes before, between or after.
AllWell == [r \in Req |-> {"ok"}]
OneMayRecover == [r \in Req |-> IF r = r3 THEN Outcome ELSE {"fail"}]

Symmetry == Permutations(Req)
=============================================================================
