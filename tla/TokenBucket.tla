---------------------------- MODULE TokenBucket ----------------------------
(***************************************************************************)
(* What the rate limit of webx promises (RateLimitOptions.QPS): every key  *)
(* has a bucket of Burst tokens that regains one every Token instants; a   *)
(* request takes a token or is refused.  Only of a key that has not asked  *)
(* for longer than Expiry may the bucket be filled up at once, what it was *)
(* short of forgotten, and only such a key, if it is owed nothing less     *)
(* than a full bucket, may be refused for want of room.                    *)
(***************************************************************************)
EXTENDS Integers

CONSTANTS Keys, Burst, Token, Expiry, Wrap

VARIABLES
    level,    \* what is left to each key, in units of 1/Token of a token
    rested,   \* how long ago each key last asked, up to Expiry + 1
    refused   \* the number of refusals, modulo Wrap

vars == <<level, rested, refused>>

Full == Burst * Token

Init ==
    /\ level = [k \in Keys |-> Full]
    /\ rested = [k \in Keys |-> Expiry + 1]
    /\ refused = 0

Admit(k) ==
    /\ level[k] >= Token
    /\ level' = [level EXCEPT ![k] = level[k] - Token]
    /\ rested' = [rested EXCEPT ![k] = 0]
    /\ UNCHANGED refused

Refuse(k) ==
    /\ level[k] < Token
    /\ rested' = [rested EXCEPT ![k] = 0]
    /\ refused' = (refused + 1) % Wrap
    /\ UNCHANGED level

TurnAway(k) ==
    /\ rested[k] > Expiry /\ level[k] = Full
    /\ refused' = (refused + 1) % Wrap
    /\ UNCHANGED <<level, rested>>

Forget(forgotten) ==
    /\ \A k \in forgotten : rested[k] > Expiry
    /\ level' = [k \in Keys |-> IF k \in forgotten THEN Full ELSE level[k]]
    /\ UNCHANGED <<rested, refused>>

Tick ==
    /\ level' = [k \in Keys |-> IF level[k] < Full THEN level[k] + 1 ELSE Full]
    /\ rested' = [k \in Keys |->
                      IF rested[k] <= Expiry THEN rested[k] + 1 ELSE rested[k]]
    /\ UNCHANGED refused

Next ==
    \/ Tick
    \/ \E forgotten \in SUBSET Keys : Forget(forgotten)
    \/ \E k \in Keys : Admit(k) \/ Refuse(k) \/ TurnAway(k)

Spec == Init /\ [][Next]_vars
=============================================================================
