------------------------ MODULE MCEnvironmentLocks ------------------------
(* EnvironmentLocks for TLC: three calls over three environments.  Calls   *)
(* are not made symmetric, because the run checks liveness too.            *)
EXTENDS EnvironmentLocks
===========================================================================
