---------------------- MODULE MCConcurrencyLimiter ----------------------
(* Instances of ConcurrencyLimiter for TLC.  Its requests are no symmetry  *)
(* set: the run checks liveness.                                           *)
EXTENDS ConcurrencyLimiter
=============================================================================
