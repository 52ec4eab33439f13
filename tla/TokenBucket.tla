---------------------------- MODULE TokenBucket ----------------------------
(***************************************************************************)
(* The token bucket of messaging.RateLimiter.  Tokens are counted in parts *)
(* of a token, TokenParts to the token, so that a refill of Rate parts per *)
(* tick is exact (the code uses floating point).                           *)
(***************************************************************************)
EXTENDS Clock

CONSTANTS
    TokenParts,   \* parts of one token
    Rate,         \* parts refilled per tick
    BucketSize    \* in parts

ASSUME BucketAssumption ==
    /\ TokenParts \in Nat \ {0}
    /\ Rate \in Nat
    /\ BucketSize \in Nat

VARIABLES
    tokens, lastUpdate,     \* RateLimiter
    from, admitted,         \* history: any window of time, what it admitted
    fullAt, spent           \* history: when the bucket was last found full,
                            \* and what it has admitted since

bucketVars == <<tokens, lastUpdate, now, from, admitted, fullAt, spent>>

BucketTypeOK ==
    /\ tokens \in 0..BucketSize
    /\ now \in Nat
    /\ lastUpdate \in 0..now /\ from \in 0..now /\ fullAt \in 0..now
    /\ admitted \in Nat /\ spent \in Nat

BucketInit ==
    /\ tokens = BucketSize
    /\ lastUpdate = 0 /\ now = 0
    /\ from = 0 /\ admitted = 0
    /\ fullAt = 0 /\ spent = 0

\* Mutant: one tick too many.
RefillGenerous ==
    LET grown == tokens + (now - lastUpdate + 1) * Rate
    IN  IF grown > BucketSize THEN BucketSize ELSE grown

Refill ==
    LET grown == tokens + (now - lastUpdate) * Rate
    IN  IF grown > BucketSize THEN BucketSize ELSE grown

\* What Allow does whether or not it grants a token.
Update ==
    /\ lastUpdate' = now
    /\ fullAt' = IF Refill = BucketSize THEN now ELSE fullAt
    /\ UNCHANGED <<now, from>>

Grant ==
    /\ Refill >= TokenParts
    /\ tokens' = Refill - TokenParts
    /\ admitted' = admitted + 1
    /\ spent' = (IF Refill = BucketSize THEN 0 ELSE spent) + 1
    /\ Update

Deny ==
    /\ Refill < TokenParts
    /\ tokens' = Refill
    /\ spent' = IF Refill = BucketSize THEN 0 ELSE spent
    /\ UNCHANGED admitted
    /\ Update

Allow == Grant \/ Deny

\* The window of the history starts anew, at any moment.
Observe ==
    /\ from' = now
    /\ admitted' = 0
    /\ UNCHANGED <<tokens, lastUpdate, now, fullAt, spent>>

BucketTick ==
    /\ Advance
    /\ UNCHANGED <<tokens, lastUpdate, from, admitted, fullAt, spent>>

BucketNext == Allow \/ Observe \/ BucketTick

BucketSpec == BucketInit /\ [][BucketNext]_bucketVars

\* In no window of time are more requests admitted than the bucket holds plus
\* what the rate supplies in that time.
RateBound == admitted * TokenParts <= BucketSize + (now - from) * Rate

\* The bucket forgets nothing: a request is refused only if what was supplied
\* since the bucket was last full is spent, but for less than one token.
RefusedWhenSpent ==
    [][Deny => BucketSize + (now - fullAt') * Rate - spent' * TokenParts < TokenParts]_bucketVars
=============================================================================
