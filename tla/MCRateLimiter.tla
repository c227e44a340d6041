--------------------------- MODULE MCRateLimiter ---------------------------
(* Instances of RateLimiter for TLC.  Its keys are no symmetry set: the    *)
(* run checks liveness.                                                    *)
EXTENDS RateLimiter
=============================================================================
