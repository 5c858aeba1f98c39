-------------------------- MODULE MCLBSharedHealth --------------------------
(***************************************************************************)
(* Instances of LBSharedHealth for TLC.                                    *)
(***************************************************************************)
EXTENDS LBSharedHealth, TLC

CONSTANTS r1, r2, r3, r4, c1

Symmetry == Permutations(Req)
=============================================================================
