------------------------------ MODULE Limiters ------------------------------
(***************************************************************************)
(* The limiters, which see the same clock and nothing else of each other:  *)
(* the bucket of a connection (TokenBucket), the pool of tenants' buckets  *)
(* (TenantLimiter), the windows of addresses, and the bucket of failed     *)
(* authentications.                                                        *)
(***************************************************************************)
EXTENDS TokenBucket, TenantLimiter, FiniteSets

(***************************************************************************)
(* The two counters that limit requests per address: dcrRateLimiter of     *)
(* pkg/oauth, which keeps the times of the admitted requests, and          *)
(* ipRateLimiter of the signup handler, which counts per window and starts *)
(* a window with the first request after the last one has ended.  Both see *)
(* the same requests of one address.                                       *)
(***************************************************************************)
CONSTANTS
    Limit,      \* 10 for dcrRateLimiter, 5 for ipRateLimiter
    Period,     \* their window
    MaxCount    \* bound on the requests of a tick

ASSUME WindowAssumption ==
    /\ Limit \in Nat \ {0}
    /\ Period \in Nat \ {0}
    /\ MaxCount \in Nat

VARIABLES
    window,         \* dcrRateLimiter: the admission times, as a set of
                    \* <<time, number>>
    count, reset,   \* ipBucket
    asked,          \* requests in this tick
    slid, fixed     \* history: what each limiter admitted, as <<time, number>>

windowVars == <<now, window, count, reset, asked, slid, fixed>>

WindowInit ==
    /\ now = 0
    /\ window = {} /\ slid = {}
    /\ count = 0 /\ reset = 0 /\ fixed = {}
    /\ asked = 0

\* Mutant: forgets an admission one tick too early.
FreshTooShort == {a \in window : a[1] > now - Period + 1}

\* The times after the cutoff.
Fresh == {a \in window : a[1] > now - Period}

\* dcrRateLimiter.Allow
Slide(a) ==
    IF Cardinality(Fresh) >= Limit
    THEN window' = Fresh /\ UNCHANGED slid
    ELSE window' = Fresh \cup {a} /\ slid' = slid \cup {a}

\* ipRateLimiter.allow
Count(a) ==
    LET begins == now >= reset
        n      == (IF begins THEN 0 ELSE count) + 1
    IN  /\ reset' = IF begins THEN now + Period ELSE reset
        /\ count' = n
        /\ fixed' = IF n <= Limit THEN fixed \cup {a} ELSE fixed

Request ==
    /\ asked < MaxCount
    /\ asked' = asked + 1
    /\ Slide(<<now, asked>>)
    /\ Count(<<now, asked>>)
    /\ UNCHANGED now

WindowTick ==
    /\ Advance
    /\ asked' = 0
    /\ UNCHANGED <<window, count, reset, slid, fixed>>

WindowNext == Request \/ WindowTick

WindowSpec == WindowInit /\ [][WindowNext]_windowVars

\* The admissions of a window of time that starts with t.
In(h, t) == {a \in h : t <= a[1] /\ a[1] < t + Period}

\* "<= 10 DCR requests per IP per hour via a sliding window": the limiter of
\* client registrations admits no more than Limit in any window of time, the
\* limiter of signups, which counts in fixed windows, at most twice as many.
WindowBounds ==
    \A t \in 0..MaxTime :
        /\ Cardinality(In(slid, t)) <= Limit
        /\ Cardinality(In(fixed, t)) <= 2 * Limit

(***************************************************************************)
(* billing.authLimiter for one address: a bucket that failed               *)
(* authentications empty.  BearerMiddleware asks it before it looks at a   *)
(* token and debits it after the token was refused; in between, other      *)
(* requests of the address do the same.                                    *)
(***************************************************************************)
CONSTANTS
    AuthRequest,   \* requests of the address that may be under way at a time
    AuthCapacity,  \* authBucketCapacity; one token a tick comes back
    AuthIdle       \* authBucketGCIdle

ASSUME AuthAssumption ==
    /\ IsFiniteSet(AuthRequest) /\ AuthRequest # {}
    /\ AuthCapacity \in Nat /\ AuthIdle \in Nat /\ AuthIdle >= AuthCapacity

VARIABLES
    authBucket,  \* the bucket: [tokens, update, seen]
    known,       \* the bucket is in the map
    checking,    \* requests that were let in and whose token is being looked at
    refusals,    \* history: requests that were let in and refused afterwards
    together     \* history: two requests were in at a time

ownAuthVars == <<authBucket, known, checking, refusals, together>>
authVars == <<ownAuthVars, now>>

NewBucket == [tokens |-> AuthCapacity, update |-> 0, seen |-> 0]

AuthInit ==
    /\ authBucket = NewBucket /\ known = FALSE
    /\ checking = {} /\ refusals = 0 /\ together = FALSE /\ now = 0

\* getOrCreate and refill: the tokens after them.
AuthTokens ==
    IF ~known THEN AuthCapacity
    ELSE LET grown == authBucket.tokens + (now - authBucket.update)
         IN  IF grown > AuthCapacity THEN AuthCapacity ELSE grown

TouchWith(t) ==
    /\ authBucket' = [tokens |-> t, update |-> now, seen |-> now]
    /\ known' = TRUE

\* The middleware lets a request in, or answers 429.
AuthAllow(r) ==
    /\ r \notin checking
    /\ TouchWith(AuthTokens)
    /\ IF AuthTokens >= 1
       THEN checking' = checking \cup {r} /\ together' = (together \/ checking # {})
       ELSE UNCHANGED <<checking, together>>
    /\ UNCHANGED <<refusals, now>>

\* The token is refused: Consume, which leaves an empty bucket as it is.
AuthConsume(r) ==
    /\ r \in checking /\ checking' = checking \ {r}
    /\ TouchWith(IF AuthTokens >= 1 THEN AuthTokens - 1 ELSE AuthTokens)
    /\ refusals' = refusals + 1
    /\ UNCHANGED <<together, now>>

\* The token is good, or there is none.
AuthPass(r) ==
    /\ r \in checking /\ checking' = checking \ {r}
    /\ UNCHANGED <<authBucket, known, refusals, together, now>>

\* Mutant of Collect: idle since this instant is enough.
CollectEarly ==
    /\ known /\ authBucket.seen < now
    /\ known' = FALSE /\ authBucket' = NewBucket
    /\ UNCHANGED <<checking, refusals, together, now>>

\* gcLoop drops a bucket nobody has used for AuthIdle; the next request gets a
\* full one.
Collect ==
    /\ known /\ authBucket.seen < now - AuthIdle
    /\ known' = FALSE /\ authBucket' = NewBucket
    /\ UNCHANGED <<checking, refusals, together, now>>

AuthTick == Advance /\ UNCHANGED ownAuthVars

AuthNext ==
    \/ \E r \in AuthRequest : AuthAllow(r) \/ AuthConsume(r) \/ AuthPass(r)
    \/ Collect \/ AuthTick

AuthSpec == AuthInit /\ [][AuthNext]_authVars

AuthTypeOK ==
    /\ authBucket \in [tokens : 0 .. AuthCapacity, update : 0 .. MaxTime, seen : 0 .. MaxTime]
    /\ checking \subseteq AuthRequest /\ refusals \in Nat
    /\ {known, together} \subseteq BOOLEAN

\* An address gets no more refused tokens looked at than the bucket holds and
\* refills, dropped buckets included, if its requests come one by one.  Requests
\* that race for the last token are all let in and pay for it once: n at a time
\* multiply what refills, and add n - 1.
FailuresBound ==
    LET n == Cardinality(AuthRequest)
    IN  /\ ~together => refusals <= AuthCapacity + now
        /\ refusals <= AuthCapacity + n * now + n - 1

-----------------------------------------------------------------------------
\* The limiters admit no more than they state: per connection in any window of time
\* (RateBound), one budget per tenant (OneBudget), and per address in windows
\* (WindowBounds) or with tokens (FailuresBound).
LimitersBounded == RateBound /\ OneBudget /\ WindowBounds /\ FailuresBound
=============================================================================
