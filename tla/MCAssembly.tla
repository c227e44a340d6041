----------------------------- MODULE MCAssembly -----------------------------
(* Instances of Assembly for TLC.                                          *)
EXTENDS Assembly, TLC

\* Three standard keys stand for the eleven that Start treats alike.
SomeKeys == <<"recovery", "gzip", "rate_limit", "metrics">>
SomeOrders == {<<>>, <<"unknown">>, <<"metrics", "unknown", "rate_limit", "recovery">>}

\* What the application brings is interchangeable.
Symmetry == Permutations(Extras) \cup Permutations(Handlers)

\* The probe has a path that a route may have, too.
SomeProbes == << <<"/health">> >>

\* After Build nothing reads the manager or the list of routes, and no step changes
\* the chain, which has been checked by then: states that differ in them alone have
\* the same future.  A failed Start has none.
View ==
    CASE phase = "configuring" -> vars
      [] phase = "failed" -> <<phase>>
      [] mounted = {} /\ groups = <<>> /\ ops = 0 -> vars
      [] OTHER -> <<phase, grouping, mounting>>
=============================================================================
