---------------------------- MODULE RateLimiter ----------------------------
(***************************************************************************)
(* The rate limiter of middleware/ratelimit.go and its clean-up goroutine  *)
(* (Server.EnableRateLimit).  Allow and Cleanup hold the mutex throughout, *)
(* so each of their outcomes is one action; what interleaves is the        *)
(* requests of many keys, the clean-up and the passing of time.            *)
(*                                                                         *)
(* Time passes in instants, Token of them for a token; ages stop counting  *)
(* when they no longer matter.  The bucket itself is resiliencex's.        *)
(* Requests of whitelisted keys change nothing.  EnableRateLimit wants     *)
(* QPS > 0, which leaves Allow's other refusals out of reach.  The text of *)
(* the 429 and its Retry-After, a reading of the bucket, are left out.     *)
(***************************************************************************)
EXTENDS Integers, FiniteSets

CONSTANTS
    Keys,        \* what RemoteIP or KeyFunc returns, whitelist excepted
    Burst,       \* RateLimiter.qps: tokens a second, and in a full bucket
    Token,       \* instants in which a bucket regains a token
    MaxBuckets,  \* RateLimiter.maxBuckets
    Expiry,      \* ten times the clean-up interval, in instants
    Wrap         \* bound of the counter of refusals (2^64)

ASSUME BurstAssumption == Burst \in Nat \ {0}
ASSUME TokenAssumption == Token \in Nat \ {0}
ASSUME MaxBucketsAssumption == MaxBuckets \in Nat \ {0}
ASSUME ExpiryAssumption == Expiry \in Nat
ASSUME WrapAssumption == Wrap \in Nat \ {0}

VARIABLES
    buckets,   \* RateLimiter.buckets: tokens, and time since lastTime
    rejected   \* RateLimiter.rejected

vars == <<buckets, rejected>>

Full == Burst * Token

Known == DOMAIN buckets
Crowded == Cardinality(Known) >= MaxBuckets

\* The map with one entry more.
With(k, bucket) ==
    [j \in Known \cup {k} |-> IF j = k THEN bucket ELSE buckets[j]]

Init == buckets = << >> /\ rejected = 0

-----------------------------------------------------------------------------
(* Plausible bugs (not part of the specification; README, Mutants).        *)

\* lastTime is set only when the bucket is made.
AdmitKnownOld(k) ==
    /\ k \in Known /\ buckets[k].tokens >= Token
    /\ buckets' = [buckets EXCEPT ![k].tokens = @ - Token]
    /\ UNCHANGED rejected

\* One key too many.
AdmitNewBeyond(k) ==
    /\ k \notin Known /\ Cardinality(Known) <= MaxBuckets
    /\ buckets' = With(k, [tokens |-> Full - Token, idle |-> 0])
    /\ UNCHANGED rejected

\* A clean-up that leaves a full table alone.
CleanupUnlessCrowded ==
    /\ ~Crowded
    /\ buckets' = [k \in {k \in Known : buckets[k].idle <= Expiry} |-> buckets[k]]
    /\ UNCHANGED rejected

-----------------------------------------------------------------------------
AdmitKnown(k) ==
    /\ k \in Known /\ buckets[k].tokens >= Token
    /\ buckets' = With(k, [tokens |-> buckets[k].tokens - Token, idle |-> 0])
    /\ UNCHANGED rejected

\* resiliencex.NewTokenBucket returns a full bucket.
AdmitNew(k) ==
    /\ k \notin Known /\ ~Crowded
    /\ buckets' = With(k, [tokens |-> Full - Token, idle |-> 0])
    /\ UNCHANGED rejected

RefuseEmpty(k) ==
    /\ k \in Known /\ buckets[k].tokens < Token
    /\ buckets' = With(k, [tokens |-> buckets[k].tokens, idle |-> 0])
    /\ rejected' = (rejected + 1) % Wrap

RefuseCrowded(k) ==
    /\ k \notin Known /\ Crowded
    /\ rejected' = (rejected + 1) % Wrap
    /\ UNCHANGED buckets

Admit(k) == AdmitKnown(k) \/ AdmitNew(k)

Allow(k) == Admit(k) \/ RefuseEmpty(k) \/ RefuseCrowded(k)

Cleanup ==
    /\ buckets' = [k \in {k \in Known : buckets[k].idle <= Expiry} |-> buckets[k]]
    /\ UNCHANGED rejected

Older(b) ==
    [tokens |-> IF b.tokens < Full THEN b.tokens + 1 ELSE b.tokens,
     idle   |-> IF b.idle <= Expiry THEN b.idle + 1 ELSE b.idle]

Tick ==
    /\ buckets' = [k \in Known |-> Older(buckets[k])]
    /\ UNCHANGED rejected

Next == Tick \/ Cleanup \/ \E k \in Keys : Allow(k)

Spec == Init /\ [][Next]_vars

\* Time passes, and the clean-up goroutine runs.  Nobody need ask.
FairSpec == Spec /\ WF_vars(Tick) /\ WF_vars(Cleanup)

-----------------------------------------------------------------------------
(* Properties.                                                             *)

Bucket == [tokens : 0 .. Full, idle : 0 .. Expiry + 1]

\* The table never holds more than MaxBuckets keys.
TypeOK ==
    /\ Known \subseteq Keys /\ IsFiniteSet(Known)
    /\ Cardinality(Known) <= MaxBuckets
    /\ buckets \in [Known -> Bucket]
    /\ rejected \in 0 .. Wrap - 1

Abstract == INSTANCE TokenBucket WITH
    level <- [k \in Keys |-> IF k \in Known THEN buckets[k].tokens ELSE Full],
    rested <- [k \in Keys |-> IF k \in Known THEN buckets[k].idle ELSE Expiry + 1],
    refused <- rejected

\* However requests of other keys, the clean-up and the limit on the number of
\* keys interleave, each key is let in exactly as often as a bucket of its own
\* allows, which is filled before its time only when the key has not asked for
\* longer than Expiry; a key that has is never refused for want of room; every
\* refusal is counted (RateLimiter.Allow, Cleanup).
IsTokenBucket == Abstract!Spec

\* A key that keeps asking is let in again and again once the others are
\* quiet: a full table makes room (Cleanup), an empty bucket fills.
ServedInTheEnd ==
    \A k \in Keys :
        /\ <>[][\A j \in Keys \ {k} : ~Allow(j)]_vars
        /\ []<><<Allow(k)>>_vars
        => []<><<Admit(k)>>_vars
=============================================================================
