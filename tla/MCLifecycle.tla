---------------------------- MODULE MCLifecycle ----------------------------
(* Instances of Lifecycle for TLC.  Connections and callers are            *)
(* interchangeable, but are no symmetry sets: the run checks liveness.     *)
EXTENDS Lifecycle
=============================================================================
