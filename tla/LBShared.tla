------------------------------- MODULE LBShared -------------------------------
(***************************************************************************)
(* The worker threads of one Envoy process, which keep the state of        *)
(* gpustack-lb in shared data: LBSharedInflight counts what runs on a key, *)
(* LBSharedHealth how a cluster fares.                                     *)
(***************************************************************************)

CONSTANTS
  Req,            \* requests, each on a worker of its own
  CasMaxRetries,  \* casMaxRetries
  MaxTime         \* bound: the clock stops here
=============================================================================
