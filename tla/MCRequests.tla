----------------------------- MODULE MCRequests -----------------------------
(* Instances of Requests for TLC.                                          *)
EXTENDS Requests, TLC

\* A route with parameters in a group and one without either, two handlers
\* behind the one in front; a fallback, a static file.
SomeTargets ==
    {[kind |-> "route", path |-> "/a/:id", group |-> "/a", named |-> TRUE, size |-> 3],
     [kind |-> "route", path |-> "/b", group |-> "", named |-> FALSE, size |-> 2],
     [kind |-> "fallback", path |-> "", group |-> "", named |-> FALSE, size |-> 1],
     [kind |-> "direct", path |-> "", group |-> "", named |-> FALSE, size |-> 0]}

Symmetry == Permutations(Requests) \cup Permutations(Contexts) \cup Permutations(Buffers)
=============================================================================
