--------------------------- MODULE MCResponsePath ---------------------------
(* Instances of ResponsePath for TLC.                                      *)
EXTENDS ResponsePath

\* Every combination of the middleware.
AllLayerSets == SUBSET Layers

\* A handler that does anything, and one that is orderly.
AllOpSets == {HandlerOps, HandlerOps \ {"raw", "flush"}}
=============================================================================
