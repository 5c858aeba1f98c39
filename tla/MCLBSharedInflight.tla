------------------------- MODULE MCLBSharedInflight -------------------------
(***************************************************************************)
(* Instances of LBSharedInflight for TLC.                                  *)
(***************************************************************************)
EXTENDS LBSharedInflight, TLC

CONSTANTS r1, r2, r3, a, b

OneEach == [k \in Key |-> 1]
Two == [k \in Key |-> 2]

Symmetry == Permutations(Req)
=============================================================================
