--------------------- MODULE ConcurrencyLimiter_proofs ---------------------
(***************************************************************************)
(* Proofs about ConcurrencyLimiter for every finite set of requests and    *)
(* every limit.                                                            *)
(***************************************************************************)
EXTENDS ConcurrencyLimiter, FiniteSetTheorems, TLAPS

\* Type correctness of the counters and of every goroutine's program counter
\* (ConcurrencyLimiter, TryAcquire).
THEOREM TypeCorrect == Spec => []TypeOK
<1>1. Init => TypeOK
  BY DEF Init, TypeOK, Holding
<1>2. TypeOK /\ [Next]_vars => TypeOK'
  <2> SUFFICES ASSUME TypeOK, [Next]_vars
               PROVE  TypeOK'
    OBVIOUS
  <2> USE DEF TypeOK, Holding
  <2>1. CASE UNCHANGED vars
    BY <2>1 DEF vars
  <2>2. ASSUME NEW r \in Requests, Arrive(r)
        PROVE  TypeOK'
    BY <2>2, MaxAssumption DEF Arrive
  <2>3. ASSUME NEW r \in Requests, Load(r)
        PROVE  TypeOK'
    BY <2>3, MaxAssumption DEF Load
  <2>4. ASSUME NEW r \in Requests, CompareAndSwap(r)
        PROVE  TypeOK'
    BY <2>4 DEF CompareAndSwap
  <2>5. ASSUME NEW r \in Requests, Reject(r)
        PROVE  TypeOK'
    BY <2>5 DEF Reject
  <2>6. ASSUME NEW r \in Requests, Finish(r)
        PROVE  TypeOK'
    BY <2>6 DEF Finish
  <2>7. ASSUME NEW r \in Requests, Release(r)
        PROVE  TypeOK'
    BY <2>7 DEF Release
  <2>8. QED
    BY <2>1, <2>2, <2>3, <2>4, <2>5, <2>6, <2>7 DEF Next, Step
<1>3. QED
  BY <1>1, <1>2, PTL DEF Spec

-----------------------------------------------------------------------------
Refused == {r \in Requests : pc[r] = "refused"}

\* A request about to swap has seen a slot free, and only a limiter that has a
\* limit makes a request load at all.
SwapSawRoom == \A r \in Requests : pc[r] = "swapping" => current[r] < Max
LoadsOnlyWithLimit ==
    \A r \in Requests :
        pc[r] \in {"loading", "swapping", "rejecting"} => Max > 0

\* NeverOverLimit alone is not inductive: that a swap stays below the limit
\* needs what its load saw, and that active counts the holders exactly.
IInv ==
    /\ TypeOK
    /\ CountersExact
    /\ NeverOverLimit
    /\ SwapSawRoom
    /\ LoadsOnlyWithLimit

\* How one step of one request's program counter changes a set of requests that
\* is defined by program counters, and its cardinality.
LEMMA MoveIn ==
    ASSUME NEW S, NEW T, NEW r, IsFiniteSet(S), r \notin S, T = S \cup {r}
    PROVE  Cardinality(T) = Cardinality(S) + 1
BY FS_AddElement

LEMMA MoveOut ==
    ASSUME NEW S, NEW T, NEW r, IsFiniteSet(S), r \in S, T = S \ {r}
    PROVE  Cardinality(T) = Cardinality(S) - 1
BY FS_RemoveElement

LEMMA FiniteSubsets ==
    /\ IsFiniteSet(Holders) /\ Cardinality(Holders) \in Nat
    /\ IsFiniteSet(Refused) /\ Cardinality(Refused) \in Nat
<1>1. Holders \in SUBSET Requests /\ Refused \in SUBSET Requests
  BY DEF Holders, Refused
<1>2. QED
  BY <1>1, FS_Subset, FS_CardinalityType, RequestsAssumption

\* The steps that leave both sets alone.
LEMMA SameSets ==
    ASSUME TypeOK, NEW r \in Requests, NEW to,
           pc' = [pc EXCEPT ![r] = to],
           pc[r] \in Holding <=> to \in Holding,
           pc[r] # "refused", to # "refused"
    PROVE  Holders' = Holders /\ Refused' = Refused
BY DEF TypeOK, Holders, Refused

LEMMA InitInvariant == Init => IInv
<1> SUFFICES ASSUME Init PROVE IInv
  OBVIOUS
<1>1. TypeOK
  BY DEF Init, TypeOK, Holding
<1>2. Holders = {} /\ Refused = {}
  BY DEF Init, Holders, Holding, Refused
<1>3. Cardinality(Holders) = 0 /\ Cardinality(Refused) = 0
  BY <1>2, FS_EmptySet
<1>4. CountersExact /\ NeverOverLimit
  BY <1>3, MaxAssumption DEF Init, CountersExact, NeverOverLimit, Refused
<1>5. SwapSawRoom /\ LoadsOnlyWithLimit
  BY DEF Init, SwapSawRoom, LoadsOnlyWithLimit
<1>6. QED
  BY <1>1, <1>4, <1>5 DEF IInv

\* The inductive invariant holds of the limiter, for every number of requests.
LEMMA InductiveInvariant == Spec => []IInv
<1>1. ASSUME TypeOK, TypeOK', IInv, [Next]_vars
      PROVE  IInv'
  <2> USE <1>1, MaxAssumption DEF IInv
  <2>1. CASE UNCHANGED vars
    BY <2>1 DEF vars, TypeOK, CountersExact, NeverOverLimit, Holders,
                SwapSawRoom, LoadsOnlyWithLimit
  <2>2. ASSUME NEW r \in Requests, Arrive(r)
        PROVE  IInv'
    <3>1. CASE Max <= 0
      <4>1. CountersExact'
        <5>1. Refused' = Refused
          BY <2>2, <3>1 DEF Arrive, Refused, TypeOK
        <5>2. QED
          BY <2>2, <3>1, <5>1 DEF Arrive, CountersExact, Refused
      <4>2. QED
        BY <2>2, <3>1, <4>1
           DEF Arrive, NeverOverLimit, SwapSawRoom, LoadsOnlyWithLimit, TypeOK
    <3>2. CASE Max > 0
      <4> ~(Max <= 0)
        BY <3>2
      <4>1. pc' = [pc EXCEPT ![r] = "loading"]
        BY <2>2, Zenon DEF Arrive
      <4>2. Holders' = Holders /\ Refused' = Refused
        BY <2>2, <4>1, SameSets DEF Arrive, Holding
      <4>3. CountersExact' /\ NeverOverLimit'
        BY <2>2, <4>2 DEF Arrive, CountersExact, NeverOverLimit, Refused
      <4>4. SwapSawRoom' /\ LoadsOnlyWithLimit'
        BY <2>2, <3>2, <4>1
           DEF Arrive, SwapSawRoom, LoadsOnlyWithLimit, TypeOK
      <4>5. QED
        BY <4>3, <4>4
    <3>3. QED
      BY <3>1, <3>2
  <2>3. ASSUME NEW r \in Requests, Load(r)
        PROVE  IInv'
    <3>1. Holders' = Holders /\ Refused' = Refused
      BY <2>3, SameSets DEF Load, Holding
    <3>2. CountersExact' /\ NeverOverLimit'
      BY <2>3, <3>1 DEF Load, CountersExact, NeverOverLimit, Refused
    <3>3. SwapSawRoom' /\ LoadsOnlyWithLimit'
      BY <2>3 DEF Load, SwapSawRoom, LoadsOnlyWithLimit, TypeOK
    <3>4. QED
      BY <3>2, <3>3
  <2>4. ASSUME NEW r \in Requests, CompareAndSwap(r)
        PROVE  IInv'
    <3>1. CASE active = current[r]
      <4>1. Max > 0 /\ active < Max
        BY <2>4, <3>1 DEF CompareAndSwap, SwapSawRoom, LoadsOnlyWithLimit
      <4>2. Holders' = Holders \cup {r} /\ r \notin Holders
        BY <2>4, <3>1 DEF CompareAndSwap, Holders, Holding, TypeOK
      <4>3. Cardinality(Holders') = Cardinality(Holders) + 1
        BY <4>2, FiniteSubsets, MoveIn
      <4>4. Refused' = Refused
        BY <2>4, <3>1 DEF CompareAndSwap, Refused, TypeOK
      <4>5. CountersExact' /\ NeverOverLimit'
        BY <2>4, <3>1, <4>1, <4>3, <4>4, FiniteSubsets
           DEF CompareAndSwap, CountersExact, NeverOverLimit, Refused, TypeOK
      <4>6. SwapSawRoom' /\ LoadsOnlyWithLimit'
        BY <2>4, <3>1
           DEF CompareAndSwap, SwapSawRoom, LoadsOnlyWithLimit, TypeOK
      <4>7. QED
        BY <4>5, <4>6
    <3>2. CASE active # current[r]
      <4>1. Holders' = Holders /\ Refused' = Refused
        BY <2>4, <3>2, SameSets DEF CompareAndSwap, Holding
      <4>2. CountersExact' /\ NeverOverLimit'
        BY <2>4, <3>2, <4>1
           DEF CompareAndSwap, CountersExact, NeverOverLimit, Refused
      <4>3. SwapSawRoom' /\ LoadsOnlyWithLimit'
        BY <2>4, <3>2
           DEF CompareAndSwap, SwapSawRoom, LoadsOnlyWithLimit, TypeOK
      <4>4. QED
        BY <4>2, <4>3
    <3>3. QED
      BY <3>1, <3>2
  <2>5. ASSUME NEW r \in Requests, Reject(r)
        PROVE  IInv'
    <3>1. Holders' = Holders
      BY <2>5 DEF Reject, Holders, Holding, TypeOK
    <3>2. Refused' = Refused \cup {r} /\ r \notin Refused
      BY <2>5 DEF Reject, Refused, TypeOK
    <3>3. Cardinality(Refused') = Cardinality(Refused) + 1
      BY <3>2, FiniteSubsets, MoveIn
    <3>4. CountersExact' /\ NeverOverLimit'
      BY <2>5, <3>1, <3>3 DEF Reject, CountersExact, NeverOverLimit, Refused
    <3>5. SwapSawRoom' /\ LoadsOnlyWithLimit'
      BY <2>5 DEF Reject, SwapSawRoom, LoadsOnlyWithLimit, TypeOK
    <3>6. QED
      BY <3>4, <3>5
  <2>6. ASSUME NEW r \in Requests, Finish(r)
        PROVE  IInv'
    <3>1. Holders' = Holders /\ Refused' = Refused
      BY <2>6, SameSets DEF Finish, Holding
    <3>2. CountersExact' /\ NeverOverLimit'
      BY <2>6, <3>1 DEF Finish, CountersExact, NeverOverLimit, Refused
    <3>3. SwapSawRoom' /\ LoadsOnlyWithLimit'
      BY <2>6 DEF Finish, SwapSawRoom, LoadsOnlyWithLimit, TypeOK
    <3>4. QED
      BY <3>2, <3>3
  <2>7. ASSUME NEW r \in Requests, Release(r)
        PROVE  IInv'
    <3>1. Holders' = Holders \ {r} /\ r \in Holders
      BY <2>7 DEF Release, Holders, Holding, TypeOK
    <3>2. Cardinality(Holders') = Cardinality(Holders) - 1
      BY <3>1, FiniteSubsets, MoveOut
    <3>3. Refused' = Refused
      BY <2>7 DEF Release, Refused, TypeOK
    <3>4. CountersExact' /\ NeverOverLimit'
      BY <2>7, <3>2, <3>3, FiniteSubsets
         DEF Release, CountersExact, NeverOverLimit, Refused, TypeOK
    <3>5. SwapSawRoom' /\ LoadsOnlyWithLimit'
      BY <2>7 DEF Release, SwapSawRoom, LoadsOnlyWithLimit, TypeOK
    <3>6. QED
      BY <3>4, <3>5
  <2>8. QED
    BY <2>1, <2>2, <2>3, <2>4, <2>5, <2>6, <2>7 DEF Next, Step
<1>2. QED
  BY <1>1, InitInvariant, TypeCorrect, PTL DEF Spec

\* Never more than Max requests are inside, for every Max and every number of
\* competing requests (TryAcquire, Release).
THEOREM LimitHolds == Spec => []NeverOverLimit
<1>1. IInv => NeverOverLimit
  BY DEF IInv
<1>2. QED
  BY <1>1, InductiveInvariant, PTL

\* The counters report exactly the requests inside and the requests refused
\* (TryAcquire, Release, Rejected).
THEOREM CountersAreExact == Spec => []CountersExact
<1>1. IInv => CountersExact
  BY DEF IInv
<1>2. QED
  BY <1>1, InductiveInvariant, PTL

\* Semaphore counts with its own instance of the standard module.
LEMMA SameCardinality == Abstract!Cardinality(Holders) = Cardinality(Holders)
BY Zenon DEF Abstract!Cardinality, Cardinality

\* The lock-free limiter implements the semaphore: every step of it is a step of
\* Semaphore or changes nothing a client of Semaphore can see.
THEOREM Refinement == Spec => IsSemaphore
<1> DEFINE Waiting == {r \in Requests : pc[r] \in {"rejecting", "refused"}}
           Gone    == {r \in Requests : pc[r] \in {"served", "panicked"}}
<1>1. Init => Abstract!Init
  BY DEF Init, Abstract!Init, Holders, Holding
<1>2. ASSUME IInv, [Next]_vars
      PROVE  [Abstract!Next]_(Abstract!vars)
  <2> USE <1>2, MaxAssumption DEF IInv, Abstract!Next, Abstract!vars
  <2>1. CASE UNCHANGED vars
    BY <2>1 DEF vars, Holders
  <2>2. ASSUME NEW r \in Requests, Arrive(r)
        PROVE  [Abstract!Next]_(Abstract!vars)
    <3>1. CASE Max <= 0
      <4>1. Abstract!Enter(r)
        BY <2>2, <3>1
           DEF Arrive, Abstract!Enter, Abstract!Fresh, Abstract!Full, Holders,
               Holding, TypeOK
      <4>2. QED
        BY <4>1
    <3>2. CASE Max > 0
      BY <2>2, <3>2 DEF Arrive, Holders, Holding, TypeOK
    <3>3. QED
      BY <3>1, <3>2
  <2>3. ASSUME NEW r \in Requests, Load(r)
        PROVE  [Abstract!Next]_(Abstract!vars)
    <3>1. CASE active >= Max
      <4>1. Abstract!Full
        BY <2>3, <3>1, SameCardinality
           DEF Load, Abstract!Full, CountersExact, LoadsOnlyWithLimit
      <4>2. Holders' = Holders /\ Gone' = Gone /\ Waiting' = Waiting \cup {r}
        BY <2>3, <3>1 DEF Load, Holders, Holding, TypeOK
      <4>3. r \in Abstract!Fresh
        BY <2>3 DEF Load, Abstract!Fresh, Holders, Holding
      <4>4. Abstract!Refuse(r)
        BY <4>1, <4>2, <4>3 DEF Abstract!Refuse
      <4>5. QED
        BY <4>4
    <3>2. CASE ~(active >= Max)
      BY <2>3, <3>2 DEF Load, Holders, Holding, TypeOK
    <3>3. QED
      BY <3>1, <3>2
  <2>4. ASSUME NEW r \in Requests, CompareAndSwap(r)
        PROVE  [Abstract!Next]_(Abstract!vars)
    <3>1. CASE active = current[r]
      <4>1. ~Abstract!Full
        BY <2>4, <3>1, FiniteSubsets, SameCardinality
           DEF CompareAndSwap, Abstract!Full, CountersExact, SwapSawRoom,
               LoadsOnlyWithLimit
      <4>2. Holders' = Holders \cup {r} /\ Gone' = Gone /\ Waiting' = Waiting
        BY <2>4, <3>1 DEF CompareAndSwap, Holders, Holding, TypeOK
      <4>3. r \in Abstract!Fresh
        BY <2>4 DEF CompareAndSwap, Abstract!Fresh, Holders, Holding
      <4>4. Abstract!Enter(r)
        BY <4>1, <4>2, <4>3 DEF Abstract!Enter
      <4>5. QED
        BY <4>4
    <3>2. CASE active # current[r]
      BY <2>4, <3>2 DEF CompareAndSwap, Holders, Holding, TypeOK
    <3>3. QED
      BY <3>1, <3>2
  <2>5. ASSUME NEW r \in Requests, Reject(r)
        PROVE  [Abstract!Next]_(Abstract!vars)
    BY <2>5 DEF Reject, Holders, Holding, TypeOK
  <2>6. ASSUME NEW r \in Requests, Finish(r)
        PROVE  [Abstract!Next]_(Abstract!vars)
    BY <2>6 DEF Finish, Holders, Holding, TypeOK
  <2>7. ASSUME NEW r \in Requests, Release(r)
        PROVE  [Abstract!Next]_(Abstract!vars)
    <3>1. Holders' = Holders \ {r} /\ r \in Holders /\ Gone' = Gone \cup {r}
          /\ Waiting' = Waiting
      BY <2>7 DEF Release, Holders, Holding, TypeOK
    <3>2. Abstract!Leave(r)
      BY <3>1 DEF Abstract!Leave
    <3>3. QED
      BY <3>2
  <2>8. QED
    BY <2>1, <2>2, <2>3, <2>4, <2>5, <2>6, <2>7 DEF Next, Step
<1>3. QED
  BY <1>1, <1>2, InductiveInvariant, PTL DEF Spec, IsSemaphore, Abstract!Spec
=============================================================================
