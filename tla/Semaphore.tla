----------------------------- MODULE Semaphore -----------------------------
(***************************************************************************)
(* What the concurrency limit of webx promises (concurrencylimit.go): a    *)
(* request is let in, or refused because Max requests are inside at that   *)
(* very moment; it stays inside until it leaves.  Max <= 0 is no limit.    *)
(***************************************************************************)
EXTENDS Integers, FiniteSets

CONSTANTS Requests, Max

VARIABLES
    inside,   \* requests being processed
    refused,  \* requests answered 503
    left      \* requests that have been inside and are not any more

vars == <<inside, refused, left>>

Init == inside = {} /\ refused = {} /\ left = {}

Fresh == Requests \ (inside \cup refused \cup left)

Full == Max > 0 /\ Cardinality(inside) >= Max

Enter(r) ==
    /\ r \in Fresh /\ ~Full
    /\ inside' = inside \cup {r}
    /\ UNCHANGED <<refused, left>>

Refuse(r) ==
    /\ r \in Fresh /\ Full
    /\ refused' = refused \cup {r}
    /\ UNCHANGED <<inside, left>>

Leave(r) ==
    /\ r \in inside
    /\ inside' = inside \ {r}
    /\ left' = left \cup {r}
    /\ UNCHANGED refused

Next == \E r \in Requests : Enter(r) \/ Refuse(r) \/ Leave(r)

Spec == Init /\ [][Next]_vars
=============================================================================
