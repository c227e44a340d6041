------------------------------ MODULE MCRouter ------------------------------
(* Instances of Router for TLC.                                            *)
EXTENDS Router, TLC

CONSTANTS a, b, x, y

Lit(s) == [kind |-> "literal", name |-> s]
Colon(n) == [kind |-> "colon", name |-> n]
Star(n) == [kind |-> "star", name |-> n]

\* Short patterns that meet in every way, and one of each odd kind.
SomePatterns ==
    {<<>>, <<Lit(a)>>, <<Lit(a), Lit(b)>>, <<Colon(x)>>, <<Colon(x), Lit(b)>>,
     <<Lit(a), Colon(x)>>, <<Lit(a), Colon(y), Star(x)>>, <<Lit(a), Star(x)>>, <<Star(x)>>,
     <<Colon(x), Colon(x)>>,
     <<Lit(a), [kind |-> "braces", name |-> x]>>, <<[kind |-> "mixed", name |-> a]>>,
     <<[kind |-> "dots", name |-> x], Lit(b)>>,
     <<Lit(a), [kind |-> "illegal", name |-> x]>>}

SomePrefixes == {<<>>, <<Lit(a)>>, <<Lit(a), Lit(b)>>}

AllPaths == [segs : UNION {[1 .. n -> {a, b}] : n \in 0 .. 3}, tail : 0 .. 2]
=============================================================================
