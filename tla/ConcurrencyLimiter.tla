------------------------ MODULE ConcurrencyLimiter ------------------------
(***************************************************************************)
(* The lock-free limiter of middleware/concurrencylimit.go and the         *)
(* middleware around it.  Every request runs in a goroutine of its own;    *)
(* one action is one access to the atomic counter, or a step of the        *)
(* handler.  The text of the 503 answer and the sink event, which follow   *)
(* from being refused, are left out.                                       *)
(***************************************************************************)
EXTENDS Integers, FiniteSets

CONSTANTS
    Requests,   \* the requests, one goroutine each
    Max         \* the argument of NewConcurrencyLimiter; <= 0 is no limit

ASSUME RequestsAssumption == IsFiniteSet(Requests)
ASSUME MaxAssumption == Max \in Int

VARIABLES
    active,     \* ConcurrencyLimiter.active
    rejected,   \* ConcurrencyLimiter.rejected
    current,    \* the local variable of TryAcquire, for each request
    pc

vars == <<active, rejected, current, pc>>

Init ==
    /\ active = 0 /\ rejected = 0
    /\ current = [r \in Requests |-> 0]
    /\ pc = [r \in Requests |-> "arriving"]

\* Plausible bugs (not part of the specification; README, Mutants).

\* A plain read and write in the place of CompareAndSwap.
StoreInsteadOfCAS(r) ==
    /\ pc[r] = "swapping"
    /\ active' = current[r] + 1
    /\ pc' = [pc EXCEPT ![r] = "handling"]
    /\ UNCHANGED <<rejected, current>>

\* A failed CompareAndSwap is tried again without a new Load.
SwapWithoutReload(r) ==
    /\ pc[r] = "swapping"
    /\ IF active = current[r]
       THEN active' = active + 1 /\ pc' = [pc EXCEPT ![r] = "handling"]
       ELSE UNCHANGED <<active, pc>>
    /\ UNCHANGED <<rejected, current>>

\* A failed CompareAndSwap is taken for a full limiter.
SwapGivesUp(r) ==
    /\ pc[r] = "swapping"
    /\ IF active = current[r]
       THEN active' = active + 1 /\ pc' = [pc EXCEPT ![r] = "handling"]
       ELSE pc' = [pc EXCEPT ![r] = "rejecting"] /\ UNCHANGED active
    /\ UNCHANGED <<rejected, current>>

\* The refusals counted the wrong way.
RejectCountsDown(r) ==
    /\ pc[r] = "rejecting"
    /\ rejected' = rejected - 1
    /\ pc' = [pc EXCEPT ![r] = "refused"]
    /\ UNCHANGED <<active, current>>

\* Release called after ServeHTTP and not deferred: a panic skips it.
ReleaseNotDeferred(r) ==
    /\ \/ /\ pc[r] = "leaving"
          /\ pc' = [pc EXCEPT ![r] = "served"]
          /\ active' = active - 1
       \/ /\ pc[r] = "unwinding"
          /\ pc' = [pc EXCEPT ![r] = "panicked"]
          /\ UNCHANGED active
    /\ UNCHANGED <<rejected, current>>

-----------------------------------------------------------------------------
\* TryAcquire begins; without a limit it succeeds at once and counts nothing.
Arrive(r) ==
    /\ pc[r] = "arriving"
    /\ pc' = [pc EXCEPT ![r] = IF Max <= 0 THEN "handling" ELSE "loading"]
    /\ UNCHANGED <<active, rejected, current>>

Load(r) ==
    /\ pc[r] = "loading"
    /\ current' = [current EXCEPT ![r] = active]
    /\ pc' = [pc EXCEPT ![r] =
                 IF active >= Max THEN "rejecting" ELSE "swapping"]
    /\ UNCHANGED <<active, rejected>>

CompareAndSwap(r) ==
    /\ pc[r] = "swapping"
    /\ IF active = current[r]
       THEN active' = active + 1 /\ pc' = [pc EXCEPT ![r] = "handling"]
       ELSE pc' = [pc EXCEPT ![r] = "loading"] /\ UNCHANGED active
    /\ UNCHANGED <<rejected, current>>

\* rejected.Add(1), the sink event and the 503 answer with Retry-After.
Reject(r) ==
    /\ pc[r] = "rejecting"
    /\ rejected' = rejected + 1
    /\ pc' = [pc EXCEPT ![r] = "refused"]
    /\ UNCHANGED <<active, current>>

\* next.ServeHTTP returns or panics; Release is deferred and runs either way.
Finish(r) ==
    /\ pc[r] = "handling"
    /\ \E how \in {"leaving", "unwinding"} : pc' = [pc EXCEPT ![r] = how]
    /\ UNCHANGED <<active, rejected, current>>

Release(r) ==
    /\ \/ pc[r] = "leaving" /\ pc' = [pc EXCEPT ![r] = "served"]
       \/ pc[r] = "unwinding" /\ pc' = [pc EXCEPT ![r] = "panicked"]
    /\ active' = active - 1
    /\ UNCHANGED <<rejected, current>>

\* The steps of a goroutine that do not wait for its handler.
Step(r) ==
    Arrive(r) \/ Load(r) \/ CompareAndSwap(r) \/ Reject(r) \/ Release(r)

Next == \E r \in Requests : Step(r) \/ Finish(r)

Spec == Init /\ [][Next]_vars

\* Every goroutine is scheduled; a handler need not finish.
FairSpec == Spec /\ \A r \in Requests : WF_vars(Step(r))

-----------------------------------------------------------------------------
Holding == {"handling", "leaving", "unwinding"}
Holders == {r \in Requests : pc[r] \in Holding}

TypeOK ==
    /\ active \in Int /\ rejected \in Nat
    /\ current \in [Requests -> Int]
    /\ pc \in [Requests -> {"arriving", "loading", "swapping", "rejecting",
                            "refused", "served", "panicked"} \cup Holding]

\* With a limit, active is the number of requests inside the handler, however
\* the loads and swaps interleave and whether or not handlers panic; and each
\* refused request has been counted once (TryAcquire, Release, Rejected).
CountersExact ==
    /\ Max > 0 => active = Cardinality(Holders)
    /\ rejected = Cardinality({r \in Requests : pc[r] = "refused"})

\* With a limit, never more than Max requests are inside (TryAcquire, Release).
NeverOverLimit == Max > 0 => Cardinality(Holders) <= Max

\* A request that asks is answered: the swap loop cannot spin for ever, for
\* each failure of one request is the success or the release of another.
Answered == \A r \in Requests :
    pc[r] = "loading"
        ~> pc[r] \in Holding \cup {"refused", "served", "panicked"}

\* The limiter is a semaphore: each acquisition takes effect at its swap and
\* each refusal at a load that finds the limiter full.
Abstract == INSTANCE Semaphore WITH
    inside  <- Holders,
    refused <- {r \in Requests : pc[r] \in {"rejecting", "refused"}},
    left    <- {r \in Requests : pc[r] \in {"served", "panicked"}}

IsSemaphore == Abstract!Spec

=============================================================================
