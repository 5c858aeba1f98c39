------------------------------ MODULE MCTokenRetry ------------------------------
(***************************************************************************)
(* Instances of TokenRetry for TLC: no symmetry, the run checks liveness.  *)
(***************************************************************************)
EXTENDS TokenRetry

CONSTANTS t1, t2, t3, t4
=================================================================================
