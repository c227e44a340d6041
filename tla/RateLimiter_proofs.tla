------------------------ MODULE RateLimiter_proofs ------------------------
(***************************************************************************)
(* Proofs about RateLimiter for any set of keys, any rate, any limit on    *)
(* the number of buckets and any clean-up interval.                        *)
(***************************************************************************)
EXTENDS RateLimiter, FiniteSetTheorems, TLAPS

USE BurstAssumption, TokenAssumption, MaxBucketsAssumption, ExpiryAssumption,
    WrapAssumption

LEMMA FullBucket == Full \in Nat /\ Token <= Full /\ Full - Token \in 0 .. Full
<1>1. Full = Burst * Token
  BY DEF Full
<1>2. \A b, t \in Nat : b >= 1 => b * t >= t /\ b * t \in Nat
  OBVIOUS
<1>3. QED
  BY <1>1, <1>2

LEMMA Counting == rejected \in 0 .. Wrap - 1 =>
                      (rejected + 1) % Wrap \in 0 .. Wrap - 1
OBVIOUS

\* Writing an entry adds at most its key.
LEMMA Written ==
    ASSUME TypeOK, NEW k \in Keys, NEW b \in Bucket
    PROVE  /\ DOMAIN With(k, b) = Known \cup {k}
           /\ With(k, b) \in [Known \cup {k} -> Bucket]
           /\ With(k, b)[k] = b
           /\ \A j \in Known \ {k} : With(k, b)[j] = buckets[j]
           /\ IsFiniteSet(Known \cup {k})
           /\ k \notin Known => Cardinality(Known \cup {k})
                                    = Cardinality(Known) + 1
<1>1. IsFiniteSet(Known)
  BY DEF TypeOK
<1>2. IsFiniteSet(Known \cup {k})
      /\ (k \notin Known => Cardinality(Known \cup {k}) = Cardinality(Known) + 1)
  BY <1>1, FS_AddElement
<1>3. QED
  BY <1>2 DEF TypeOK, With

LEMMA Aged == ASSUME NEW b \in Bucket PROVE Older(b) \in Bucket
BY FullBucket DEF Bucket, Older

LEMMA WriteKeepsType ==
    ASSUME TypeOK, NEW k \in Keys, NEW b \in Bucket, buckets' = With(k, b),
           k \in Known \/ ~Crowded, rejected' \in 0 .. Wrap - 1
    PROVE  TypeOK'
<1>1. Known' = Known \cup {k} /\ buckets' \in [Known \cup {k} -> Bucket]
      /\ IsFiniteSet(Known \cup {k}) /\ Known \cup {k} \subseteq Keys
  BY Written DEF Known, TypeOK
<1>2. Cardinality(Known \cup {k}) <= MaxBuckets
  <2>1. CASE k \in Known
    <3>1. Known \cup {k} = Known
      BY <2>1
    <3>2. QED
      BY <3>1 DEF TypeOK
  <2>2. CASE k \notin Known
    <3>1. Cardinality(Known) \in Nat /\ Cardinality(Known) < MaxBuckets
      BY <2>2, FS_CardinalityType DEF TypeOK, Crowded
    <3>2. Cardinality(Known \cup {k}) = Cardinality(Known) + 1
      BY <2>2, Written
    <3>3. QED
      BY <3>1, <3>2
  <2>3. QED
    BY <2>1, <2>2
<1>3. QED
  BY <1>1, <1>2 DEF TypeOK

\* Types, and the limit on the number of buckets (Allow, Cleanup).
THEOREM TypeCorrect == Spec => []TypeOK
<1>1. Init => TypeOK
  <2> SUFFICES ASSUME Init PROVE TypeOK
    OBVIOUS
  <2>1. Known = {} /\ buckets \in [Known -> Bucket]
    BY DEF Init, Known
  <2>2. QED
    BY <2>1, FS_EmptySet DEF Init, TypeOK
<1>2. TypeOK /\ [Next]_vars => TypeOK'
  <2> SUFFICES ASSUME TypeOK, [Next]_vars PROVE TypeOK'
    OBVIOUS
  <2>1. ASSUME NEW k \in Keys, Allow(k) PROVE TypeOK'
    <3>1. CASE AdmitKnown(k)
      <4>1. [tokens |-> buckets[k].tokens - Token, idle |-> 0] \in Bucket
        BY <3>1, FullBucket DEF AdmitKnown, TypeOK, Bucket
      <4>2. QED
        BY <3>1, <4>1, WriteKeepsType DEF AdmitKnown, TypeOK
    <3>2. CASE AdmitNew(k)
      <4>1. [tokens |-> Full - Token, idle |-> 0] \in Bucket
        BY FullBucket DEF Bucket
      <4>2. QED
        BY <3>2, <4>1, WriteKeepsType DEF AdmitNew, TypeOK
    <3>3. CASE RefuseEmpty(k)
      <4>1. [tokens |-> buckets[k].tokens, idle |-> 0] \in Bucket
        BY <3>3 DEF RefuseEmpty, TypeOK, Bucket
      <4>2. rejected' \in 0 .. Wrap - 1
        BY <3>3, Counting DEF RefuseEmpty, TypeOK
      <4>3. QED
        BY <3>3, <4>1, <4>2, WriteKeepsType DEF RefuseEmpty
    <3>4. CASE RefuseCrowded(k)
      BY <3>4, Counting DEF RefuseCrowded, TypeOK, Known
    <3>5. QED
      BY <2>1, <3>1, <3>2, <3>3, <3>4 DEF Allow, Admit
  <2>2. CASE Cleanup
    <3>1. Known' \subseteq Known /\ buckets' \in [Known' -> Bucket]
      BY <2>2 DEF Cleanup, Known, TypeOK
    <3>2. IsFiniteSet(Known') /\ Cardinality(Known') <= Cardinality(Known)
      BY <3>1, FS_Subset DEF TypeOK
    <3>3. Cardinality(Known) \in Nat /\ Cardinality(Known') \in Nat
      BY <3>2, FS_CardinalityType DEF TypeOK
    <3>4. QED
      BY <2>2, <3>1, <3>2, <3>3 DEF Cleanup, TypeOK
  <2>3. CASE Tick
    <3>1. Known' = Known /\ buckets' \in [Known -> Bucket]
      BY <2>3, Aged DEF Tick, Known, TypeOK
    <3>2. QED
      BY <2>3, <3>1 DEF Tick, TypeOK
  <2>4. CASE UNCHANGED vars
    BY <2>4 DEF vars, TypeOK, Known
  <2>5. QED
    BY <2>1, <2>2, <2>3, <2>4 DEF Next
<1>3. QED
  BY <1>1, <1>2, PTL DEF Spec

-----------------------------------------------------------------------------
(* What is forgotten.                                                      *)

\* A bucket has regained what it could since it was last used.
Refilled ==
    \A k \in Known : buckets[k].tokens >= Full \/ buckets[k].tokens >= buckets[k].idle

LEMMA RefilledInvariant == Spec => []Refilled
<1>1. Init => Refilled
  BY DEF Init, Refilled, Known
<1>2. TypeOK /\ Refilled /\ [Next]_vars => Refilled'
  <2> SUFFICES ASSUME TypeOK, Refilled, [Next]_vars PROVE Refilled'
    OBVIOUS
  <2>1. ASSUME NEW k \in Keys, Allow(k) PROVE Refilled'
    <3>1. ASSUME NEW b \in Bucket, b.idle = 0, buckets' = With(k, b)
          PROVE  Refilled'
      <4>1. Known' = Known \cup {k}
        BY <3>1, Written DEF Known
      <4>2. SUFFICES ASSUME NEW j \in Known'
                     PROVE  \/ buckets'[j].tokens >= Full
                            \/ buckets'[j].tokens >= buckets'[j].idle
        BY DEF Refilled
      <4>3. CASE j = k
        <5>1. buckets'[j] = b
          BY <3>1, <4>3, Written
        <5>2. QED
          BY <3>1, <5>1 DEF Bucket
      <4>4. CASE j # k
        <5>1. j \in Known /\ buckets'[j] = buckets[j]
          BY <3>1, <4>1, <4>4, Written
        <5>2. QED
          BY <5>1 DEF Refilled
      <4>5. QED
        BY <4>3, <4>4
    <3>2. CASE AdmitKnown(k)
      <4>1. [tokens |-> buckets[k].tokens - Token, idle |-> 0] \in Bucket
        BY <3>2, FullBucket DEF AdmitKnown, TypeOK, Bucket
      <4>2. QED
        BY <3>1, <3>2, <4>1 DEF AdmitKnown
    <3>3. CASE AdmitNew(k)
      <4>1. [tokens |-> Full - Token, idle |-> 0] \in Bucket
        BY FullBucket DEF Bucket
      <4>2. QED
        BY <3>1, <3>3, <4>1 DEF AdmitNew
    <3>4. CASE RefuseEmpty(k)
      <4>1. [tokens |-> buckets[k].tokens, idle |-> 0] \in Bucket
        BY <3>4 DEF RefuseEmpty, TypeOK, Bucket
      <4>2. QED
        BY <3>1, <3>4, <4>1 DEF RefuseEmpty
    <3>5. CASE RefuseCrowded(k)
      BY <3>5 DEF RefuseCrowded, Refilled, Known
    <3>6. QED
      BY <2>1, <3>2, <3>3, <3>4, <3>5 DEF Allow, Admit
  <2>2. CASE Cleanup
    BY <2>2 DEF Cleanup, Refilled, Known
  <2>3. CASE Tick
    <3>1. Known' = Known /\ \A k \in Known : buckets'[k] = Older(buckets[k])
      BY <2>3 DEF Tick, Known
    <3>2. \A k \in Known : buckets[k] \in Bucket
      BY DEF TypeOK
    <3>3. ASSUME NEW b \in Bucket, b.tokens >= Full \/ b.tokens >= b.idle
          PROVE  Older(b).tokens >= Full \/ Older(b).tokens >= Older(b).idle
      BY <3>3, FullBucket DEF Bucket, Older
    <3>4. QED
      BY <3>1, <3>2, <3>3 DEF Refilled
  <2>4. CASE UNCHANGED vars
    BY <2>4 DEF vars, Refilled, Known
  <2>5. QED
    BY <2>1, <2>2, <2>3, <2>4 DEF Next
<1>3. QED
  BY <1>1, <1>2, TypeCorrect, PTL DEF Spec

\* A key is forgotten only when its bucket is full, so that forgetting gives nothing
\* away, if ten clean-up intervals are at least the time that filling takes
\* (Cleanup).  EnableRateLimit takes shorter ones.
THEOREM DebtsAreKept ==
    ASSUME Expiry + 1 >= Full
    PROVE  Spec => [][\A k \in Known : k \notin Known' => buckets[k].tokens = Full]_vars
<1>1. TypeOK /\ Refilled /\ [Next]_vars
      => \A k \in Known : k \notin Known' => buckets[k].tokens = Full
  <2> SUFFICES ASSUME TypeOK, Refilled, [Next]_vars, NEW k \in Known, k \notin Known'
               PROVE  buckets[k].tokens = Full
    OBVIOUS
  <2>1. ASSUME NEW j \in Keys, Allow(j) PROVE k \in Known'
    BY <2>1 DEF Allow, Admit, AdmitKnown, AdmitNew, RefuseEmpty, RefuseCrowded,
                With, Known
  <2>2. CASE Cleanup
    <3>1. buckets[k] \in Bucket /\ ~(buckets[k].idle <= Expiry)
      BY <2>2 DEF Cleanup, Known, TypeOK
    <3>2. QED
      BY <3>1, FullBucket DEF Refilled, Bucket
  <2>3. CASE Tick
    BY <2>3 DEF Tick, Known
  <2>4. CASE UNCHANGED vars
    BY <2>4 DEF vars, Known
  <2>5. QED
    BY <2>1, <2>2, <2>3, <2>4 DEF Next
<1>2. QED
  BY <1>1, TypeCorrect, RefilledInvariant, PTL DEF Spec

-----------------------------------------------------------------------------
(* The refinement.                                                         *)

Level == [k \in Keys |-> IF k \in Known THEN buckets[k].tokens ELSE Full]
Rested == [k \in Keys |-> IF k \in Known THEN buckets[k].idle ELSE Expiry + 1]

LEMMA EntryWritten ==
    ASSUME TypeOK, NEW k \in Keys, NEW b \in Bucket, buckets' = With(k, b)
    PROVE  /\ Level' = [Level EXCEPT ![k] = b.tokens]
           /\ Rested' = [Rested EXCEPT ![k] = b.idle]
<1>1. /\ Known' = Known \cup {k} /\ buckets'[k] = b
      /\ \A j \in Known \ {k} : buckets'[j] = buckets[j]
  <2>1. DOMAIN With(k, b) = Known \cup {k}
    BY Written
  <2>2. With(k, b)[k] = b /\ \A j \in Known \ {k} : With(k, b)[j] = buckets[j]
    BY ZenonT(60), Written
  <2>3. QED
    BY <2>1, <2>2 DEF Known
<1>2. \A j \in Keys : Level'[j] = IF j = k THEN b.tokens ELSE Level[j]
  BY <1>1 DEF Level
<1>3. \A j \in Keys : Rested'[j] = IF j = k THEN b.idle ELSE Rested[j]
  BY <1>1 DEF Rested
<1>4. Level' = [Level EXCEPT ![k] = b.tokens]
  BY <1>2 DEF Level
<1>5. Rested' = [Rested EXCEPT ![k] = b.idle]
  BY <1>3 DEF Rested
<1>6. QED
  BY <1>4, <1>5

\* The table of buckets, limited and cleaned up as it is, cannot be told from a
\* bucket for every key that no other key touches and that is filled early only
\* when its own key has not asked for longer than Expiry, whatever the interval
\* of the clean-up (Allow, Cleanup).
THEOREM Refinement == Spec => IsTokenBucket
<1>1. Init => Abstract!Init
  BY DEF Init, Abstract!Init, Known, Full, Abstract!Full
<1>2. TypeOK /\ [Next]_vars => [Abstract!Next]_(Abstract!vars)
  <2> SUFFICES ASSUME TypeOK, [Next]_vars
               PROVE  [Abstract!Next]_(Abstract!vars)
    OBVIOUS
  <2> USE DEF Level, Rested
  <2>1. ASSUME NEW k \in Keys, Allow(k) PROVE Abstract!Next
    <3>1. CASE AdmitKnown(k)
      <4>1. [tokens |-> buckets[k].tokens - Token, idle |-> 0] \in Bucket
        BY <3>1, FullBucket DEF AdmitKnown, TypeOK, Bucket
      <4>2. /\ Level' = [Level EXCEPT ![k] = buckets[k].tokens - Token]
            /\ Rested' = [Rested EXCEPT ![k] = 0]
        BY <3>1, <4>1, EntryWritten DEF AdmitKnown
      <4>3. Abstract!Admit(k)
        BY <3>1, <4>2 DEF AdmitKnown, Abstract!Admit
      <4>4. QED
        BY <4>3 DEF Abstract!Next
    <3>2. CASE AdmitNew(k)
      <4>1. [tokens |-> Full - Token, idle |-> 0] \in Bucket
        BY FullBucket DEF Bucket
      <4>2. /\ Level' = [Level EXCEPT ![k] = Full - Token]
            /\ Rested' = [Rested EXCEPT ![k] = 0]
        BY <3>2, <4>1, EntryWritten DEF AdmitNew
      <4>3. Abstract!Admit(k)
        BY <3>2, <4>2, FullBucket DEF AdmitNew, Abstract!Admit
      <4>4. QED
        BY <4>3 DEF Abstract!Next
    <3>3. CASE RefuseEmpty(k)
      <4>1. [tokens |-> buckets[k].tokens, idle |-> 0] \in Bucket
        BY <3>3 DEF RefuseEmpty, TypeOK, Bucket
      <4>2. Level' = Level
        <5>1. Level' = [Level EXCEPT ![k] = buckets[k].tokens]
          BY <3>3, <4>1, EntryWritten DEF RefuseEmpty
        <5>2. Level[k] = buckets[k].tokens
          BY <3>3 DEF RefuseEmpty
        <5>3. QED
          BY <5>1, <5>2
      <4>3. Rested' = [Rested EXCEPT ![k] = 0]
        BY <3>3, <4>1, EntryWritten DEF RefuseEmpty
      <4>4. Abstract!Refuse(k)
        BY <3>3, <4>2, <4>3 DEF RefuseEmpty, Abstract!Refuse
      <4>5. QED
        BY <4>4 DEF Abstract!Next
    <3>4. CASE RefuseCrowded(k)
      <4>1. Rested[k] = Expiry + 1 /\ Level[k] = Full
        BY <3>4 DEF RefuseCrowded
      <4>2. Abstract!TurnAway(k)
        BY <3>4, <4>1 DEF RefuseCrowded, Abstract!TurnAway, Full, Abstract!Full,
                          Known
      <4>3. QED
        BY <4>2 DEF Abstract!Next
    <3>5. QED
      BY <2>1, <3>1, <3>2, <3>3, <3>4 DEF Allow, Admit
  <2>2. CASE Cleanup
    <3>1. /\ Known' \subseteq Known
          /\ \A k \in Known' : buckets'[k] = buckets[k]
          /\ \A k \in Known : k \in Known' \/ ~(buckets[k].idle <= Expiry)
      BY <2>2 DEF Cleanup, Known
    <3>2. \A k \in Known : k \in Known' \/ buckets[k].idle = Expiry + 1
      BY <3>1 DEF TypeOK, Bucket
    <3>3. Rested' = Rested
      BY <3>1, <3>2
    <3>4. PICK forgotten \in SUBSET Keys : forgotten = Known \ Known'
      BY DEF TypeOK
    <3>5. Level' = [k \in Keys |-> IF k \in forgotten THEN Full ELSE Level[k]]
      BY <3>1, <3>4
    <3>6. \A k \in forgotten : Rested[k] > Expiry
      BY <3>2, <3>4
    <3>7. Abstract!Forget(forgotten)
      BY <2>2, <3>3, <3>5, <3>6 DEF Cleanup, Abstract!Forget, Full, Abstract!Full
    <3>8. QED
      BY <3>7 DEF Abstract!Next
  <2>3. CASE Tick
    <3>1. Known' = Known /\ \A k \in Known : buckets'[k] = Older(buckets[k])
      BY <2>3 DEF Tick, Known
    <3>2. \A k \in Known : buckets[k] \in Bucket
      BY DEF TypeOK
    <3>3. \A b \in Bucket : Older(b).tokens = IF b.tokens < Full
                                             THEN b.tokens + 1 ELSE Full
      BY FullBucket DEF Bucket, Older
    <3>4. Level' = [k \in Keys |-> IF Level[k] < Full THEN Level[k] + 1 ELSE Full]
      BY <3>1, <3>2, <3>3, FullBucket
    <3>5. \A b \in Bucket : Older(b).idle = IF b.idle <= Expiry
                                           THEN b.idle + 1 ELSE b.idle
      BY DEF Bucket, Older
    <3>6. Rested' = [k \in Keys |-> IF Rested[k] <= Expiry THEN Rested[k] + 1
                                                          ELSE Rested[k]]
      BY <3>1, <3>2, <3>5
    <3>7. Abstract!Tick
      BY <2>3, <3>4, <3>6 DEF Tick, Abstract!Tick, Full, Abstract!Full
    <3>8. QED
      BY <3>7 DEF Abstract!Next
  <2>4. CASE UNCHANGED vars
    BY <2>4 DEF vars, Abstract!vars, Known
  <2>5. QED
    BY <2>1, <2>2, <2>3, <2>4 DEF Next
<1>3. QED
  BY <1>1, <1>2, TypeCorrect, PTL DEF Spec, IsTokenBucket, Abstract!Spec
=============================================================================
