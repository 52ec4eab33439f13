---------------------------- MODULE LimiterProofs ----------------------------
(***************************************************************************)
(* Theorems about what admits a request, for every rate, size, window and  *)
(* number of callers: the circuit breaker, the token bucket of a           *)
(* connection, the buckets of tenants, the windows of addresses, the       *)
(* bucket of failed authentications, and the codes and tokens of the       *)
(* authorization server.                                                   *)
(***************************************************************************)
EXTENDS CircuitBreaker, TokenBucket, Limiters, OAuthGrants, FiniteSetTheorems, TLAPS

-----------------------------------------------------------------------------
(* The circuit breaker.  Types, ClosedIsHealthy and CountsAreRuns are      *)
(* inductive together; the two action properties follow from them.         *)

BreakerInv == BreakerTypeOK /\ ClosedIsHealthy /\ CountsAreRuns

\* A counter that stops at its bound stays within it and never falls.
LEMMA UpBounds ==
  ASSUME NEW max \in Nat, NEW n \in 0..max
  PROVE  /\ Up(n, max) \in 0..max
         /\ n < max => Up(n, max) = n + 1
         /\ n >= max => Up(n, max) = max
  BY DEF Up

\* NewCircuitBreaker establishes the invariant.
LEMMA BreakerInvInit == BreakerInit => BreakerInv
  BY BreakerAssumption DEF BreakerInit, BreakerInv, BreakerTypeOK, ClosedIsHealthy, CountsAreRuns

\* Execute up to the call of the function preserves it.
LEMMA BeginBreakerInv ==
  ASSUME BreakerInv, NEW c \in Caller, Begin(c)
  PROVE  BreakerInv'
  <1>1. BreakerTypeOK'
    BY BreakerAssumption DEF BreakerInv, BreakerTypeOK, Begin, allowRequest
  <1>2. ClosedIsHealthy' /\ CountsAreRuns'
    BY BreakerAssumption
    DEF BreakerInv, BreakerTypeOK, ClosedIsHealthy, CountsAreRuns, Begin, allowRequest
  <1>. QED  BY Zenon, <1>1, <1>2 DEF BreakerInv

\* Recording the result of a call, in whatever state, preserves it.
LEMMA FinishBreakerInv ==
  ASSUME BreakerInv, NEW c \in Caller, Finish(c)
  PROVE  BreakerInv'
  <1>. USE BreakerAssumption
  <1>1. BreakerTypeOK'
    <2>1. CASE call[c] = "err"
      BY <2>1, UpBounds DEF BreakerInv, BreakerTypeOK, Finish, recordFailure
    <2>2. CASE call[c] = "ok"
      BY <2>2, UpBounds DEF BreakerInv, BreakerTypeOK, Finish, recordSuccess
    <2>. QED  BY Zenon, <2>1, <2>2 DEF Finish
  <1>2. ClosedIsHealthy' /\ CountsAreRuns'
    <2>1. CASE call[c] = "err"
      BY SMTT(30), <2>1, UpBounds
      DEF BreakerInv, BreakerTypeOK, ClosedIsHealthy, CountsAreRuns, Finish, recordFailure
    <2>2. CASE call[c] = "ok"
      BY SMTT(30), <2>2, UpBounds
      DEF BreakerInv, BreakerTypeOK, ClosedIsHealthy, CountsAreRuns, Finish, recordSuccess
    <2>. QED  BY Zenon, <2>1, <2>2 DEF Finish
  <1>. QED  BY Zenon, <1>1, <1>2 DEF BreakerInv

\* Reset, the clock and the backend preserve it.
LEMMA BreakerOther ==
  ASSUME BreakerInv, Reset \/ BreakerTick \/ Heal \/ UNCHANGED breakerVars
  PROVE  BreakerInv'
  <1>. USE BreakerAssumption DEF BreakerInv, BreakerTypeOK, ClosedIsHealthy, CountsAreRuns, breaker
  <1>1. CASE Reset  BY <1>1 DEF Reset
  <1>2. CASE BreakerTick  BY <1>2 DEF BreakerTick
  <1>3. CASE Heal  BY Zenon, <1>3 DEF Heal
  <1>4. CASE UNCHANGED breakerVars  BY Zenon, <1>4 DEF breakerVars
  <1>. QED  BY Zenon, <1>1, <1>2, <1>3, <1>4

\* Every step preserves the invariant.
LEMMA BreakerStep == BreakerInv /\ [BreakerNext]_breakerVars => BreakerInv'
  BY Zenon, BeginBreakerInv, FinishBreakerInv, BreakerOther DEF BreakerNext

\* The inductive invariant holds of every behaviour of the breaker.
THEOREM BreakerInvariance == BreakerSpec => []BreakerInv
  BY BreakerInvInit, BreakerStep, PTL DEF BreakerSpec

\* A closed breaker has counted fewer than MaxFailures failures.
THEOREM ClosedHealthy == BreakerSpec => []ClosedIsHealthy
  <1>1. BreakerInv => ClosedIsHealthy  BY Zenon DEF BreakerInv
  <1>. QED  BY <1>1, BreakerInvariance, PTL

\* What the breaker counts is part of an unbroken run of results.
THEOREM RunsCounted == BreakerSpec => []CountsAreRuns
  <1>1. BreakerInv => CountsAreRuns  BY Zenon DEF BreakerInv
  <1>. QED  BY <1>1, BreakerInvariance, PTL

\* A step opens the breaker only on a run of MaxFailures failures.
LEMMA OpensRight == BreakerInv /\ BreakerNext => OpensOnARun
  <1>. SUFFICES ASSUME BreakerInv, BreakerNext, state = "Closed", state' = "Open"
                PROVE  fails' >= MaxFailures
    BY Zenon DEF OpensOnARun
  <1>1. PICK c \in Caller : Finish(c)
    BY Zenon DEF BreakerNext, Begin, allowRequest, Reset, BreakerTick, Heal, breaker
  <1>2. call[c] = "err" /\ recordFailure /\ fails' = Up(fails, MaxFailures)
    BY Zenon, <1>1 DEF Finish, recordSuccess
  <1>3. failures' >= MaxFailures
    BY Zenon, <1>2 DEF recordFailure
  <1>. QED
    BY SMTT(30), <1>2, <1>3, UpBounds, BreakerAssumption
    DEF recordFailure, BreakerInv, BreakerTypeOK, CountsAreRuns

\* A step closes it, other than by Reset, only on a run of HalfOpenMax
\* successes.
LEMMA ClosesRight == BreakerInv /\ BreakerNext => ClosesOnARun
  <1>. SUFFICES ASSUME BreakerInv, BreakerNext, state # "Closed", state' = "Closed", resets' = resets
                PROVE  state = "HalfOpen" /\ oks' >= HalfOpenMax
    BY Zenon DEF ClosesOnARun
  <1>1. PICK c \in Caller : Finish(c)
    BY DEF BreakerInv, BreakerTypeOK, BreakerNext, Begin, allowRequest, Reset, BreakerTick, Heal, breaker
  <1>2. call[c] = "ok" /\ recordSuccess /\ oks' = Up(oks, HalfOpenMax)
    BY Zenon, <1>1 DEF Finish, recordFailure
  <1>3. state = "HalfOpen" /\ successes' = Up(successes, HalfOpenMax) /\ successes' >= HalfOpenMax
    BY Zenon, <1>2 DEF recordSuccess
  <1>. QED
    BY <1>2, <1>3, UpBounds, BreakerAssumption DEF BreakerInv, BreakerTypeOK, CountsAreRuns

\* The breaker switches only on unbroken runs of results, for every number of
\* concurrent callers and every threshold.
THEOREM SwitchesRight == BreakerSpec => SwitchesOnRuns
  <1>1. BreakerInv /\ [BreakerNext]_breakerVars => [OpensOnARun /\ ClosesOnARun]_breakerVars
    BY Zenon, OpensRight, ClosesRight
  <1>. QED  BY <1>1, BreakerInvariance, PTL DEF BreakerSpec, SwitchesOnRuns

-----------------------------------------------------------------------------
(* The token bucket.  The invariant says how many tokens can be left after *)
(* what a window admitted (Budget), and how many are left after what was   *)
(* spent since the bucket was full (Exact).                                *)

Supplied(s, t) == (t - s) * Rate

\* Up to the last refill the window has had at most the bucket and the supply
\* since it began; a window that begins after it has admitted nothing.
Budget ==
    IF from <= lastUpdate
    THEN admitted * TokenParts + tokens <= BucketSize + Supplied(from, lastUpdate)
    ELSE admitted = 0

\* What is left is what was there, plus the supply, minus what was spent.
Exact ==
    /\ fullAt <= lastUpdate
    /\ tokens = BucketSize + Supplied(fullAt, lastUpdate) - spent * TokenParts

BucketInv == BucketTypeOK /\ Budget /\ Exact

\* The supply of a time is not negative.
LEMMA SupplyNat ==
  ASSUME NEW a \in Nat, NEW b \in Nat, a <= b
  PROVE  Supplied(a, b) \in Nat /\ Supplied(a, a) = 0
  <1>1. \A x, y \in Nat : x * y \in Nat
    OBVIOUS
  <1>. QED  BY <1>1, BucketAssumption DEF Supplied

\* It adds up over the parts of the time.
LEMMA SupplyAdds ==
  ASSUME NEW a \in Nat, NEW b \in Nat, NEW c \in Nat
  PROVE  Supplied(a, c) = Supplied(a, b) + Supplied(b, c)
  BY BucketAssumption DEF Supplied

\* NewRateLimiter establishes the invariant.
LEMMA BucketInvInit == BucketInit => BucketInv
  <1>. SUFFICES ASSUME BucketInit PROVE BucketInv  OBVIOUS
  <1>1. BucketTypeOK  BY BucketAssumption DEF BucketInit, BucketTypeOK
  <1>2. Supplied(0, 0) = 0  BY SupplyNat
  <1>. QED  BY <1>1, <1>2, BucketAssumption DEF BucketInit, BucketInv, Budget, Exact

\* What Refill returns.
LEMMA RefillIs ==
  ASSUME BucketTypeOK
  PROVE  /\ Refill \in 0..BucketSize
         /\ Refill <= tokens + Supplied(lastUpdate, now)
         /\ Refill # BucketSize => Refill = tokens + Supplied(lastUpdate, now)
  <1>1. Supplied(lastUpdate, now) \in Nat
    BY SupplyNat DEF BucketTypeOK
  <1>. QED  BY <1>1, BucketAssumption DEF Refill, Supplied, BucketTypeOK

\* A granted request preserves it.
LEMMA GrantBucketInv ==
  ASSUME BucketInv, Grant
  PROVE  BucketInv'
  <1>. USE BucketAssumption
  <1>. DEFINE s == Supplied(lastUpdate, now)
  <1>0. BucketTypeOK /\ s \in Nat
    BY SupplyNat DEF BucketInv, BucketTypeOK
  <1>1. BucketTypeOK'
    BY <1>0, RefillIs DEF BucketTypeOK, Grant, Update
  <1>2. Budget'
    <2>1. CASE from <= lastUpdate
      <3>1. Supplied(from, now) = Supplied(from, lastUpdate) + s
        BY <2>1, <1>0, SupplyAdds DEF BucketTypeOK
      <3>2. admitted * TokenParts + tokens <= BucketSize + Supplied(from, lastUpdate)
        BY Zenon, <2>1 DEF BucketInv, Budget
      <3>3. (admitted + 1) * TokenParts = admitted * TokenParts + TokenParts
        BY <1>0 DEF BucketTypeOK
      <3>4. Supplied(from, lastUpdate) \in Nat /\ admitted * TokenParts \in Nat
        BY <2>1, <1>0, SupplyNat DEF BucketTypeOK
      <3>5. admitted' = admitted + 1 /\ tokens' = Refill - TokenParts /\ from' = from /\ lastUpdate' = now
        BY Zenon DEF Grant, Update
      <3>. QED
        BY <3>1, <3>2, <3>3, <3>4, <3>5, <1>0, RefillIs DEF Budget, Supplied, BucketTypeOK
    <2>2. CASE from > lastUpdate
      <3>1. admitted = 0
        BY <2>2, <1>0 DEF BucketInv, Budget, BucketTypeOK
      <3>2. Supplied(from, now) \in Nat
        BY <1>0, SupplyNat DEF BucketTypeOK
      <3>. QED
        BY <3>1, <3>2, <1>0, RefillIs DEF Budget, Supplied, BucketTypeOK, Grant, Update
    <2>. QED  BY <2>1, <2>2, <1>0 DEF BucketTypeOK
  <1>3. Exact'
    <2>1. CASE Refill = BucketSize
      <3>1. Supplied(now, now) = 0
        BY <1>0, SupplyNat DEF BucketTypeOK
      <3>. QED
        BY <2>1, <3>1, <1>0 DEF Exact, Supplied, BucketTypeOK, Grant, Update
    <2>2. CASE Refill # BucketSize
      <3>1. Supplied(fullAt, now) = Supplied(fullAt, lastUpdate) + s
        BY <1>0, SupplyAdds DEF BucketTypeOK, BucketInv, Exact
      <3>2. tokens = BucketSize + Supplied(fullAt, lastUpdate) - spent * TokenParts
        BY Zenon DEF BucketInv, Exact
      <3>3. (spent + 1) * TokenParts = spent * TokenParts + TokenParts
        BY <1>0 DEF BucketTypeOK
      <3>4. Supplied(fullAt, lastUpdate) \in Nat /\ spent * TokenParts \in Nat
        BY <1>0, SupplyNat DEF BucketTypeOK, BucketInv, Exact
      <3>5. spent' = spent + 1 /\ tokens' = Refill - TokenParts /\ fullAt' = fullAt /\ lastUpdate' = now
        BY Zenon, <2>2, <1>0 DEF Grant, Update, BucketTypeOK
      <3>. QED
        BY <2>2, <3>1, <3>2, <3>3, <3>4, <3>5, <1>0, RefillIs DEF Exact, Supplied, BucketTypeOK
    <2>. QED  BY Zenon, <2>1, <2>2
  <1>. QED  BY Zenon, <1>1, <1>2, <1>3 DEF BucketInv

\* A refused request preserves it.
LEMMA DenyBucketInv ==
  ASSUME BucketInv, Deny
  PROVE  BucketInv'
  <1>. USE BucketAssumption
  <1>. DEFINE s == Supplied(lastUpdate, now)
  <1>0. BucketTypeOK /\ s \in Nat
    BY SupplyNat DEF BucketInv, BucketTypeOK
  <1>1. BucketTypeOK'
    BY <1>0, RefillIs DEF BucketTypeOK, Deny, Update
  <1>2. Budget'
    <2>1. CASE from <= lastUpdate
      <3>1. Supplied(from, now) = Supplied(from, lastUpdate) + s
        BY <2>1, <1>0, SupplyAdds DEF BucketTypeOK
      <3>2. admitted * TokenParts + tokens <= BucketSize + Supplied(from, lastUpdate)
        BY Zenon, <2>1 DEF BucketInv, Budget
      <3>4. Supplied(from, lastUpdate) \in Nat /\ admitted * TokenParts \in Nat
        BY <2>1, <1>0, SupplyNat DEF BucketTypeOK
      <3>5. admitted' = admitted /\ tokens' = Refill /\ from' = from /\ lastUpdate' = now
        BY Zenon DEF Deny, Update
      <3>. QED
        BY <3>1, <3>2, <3>4, <3>5, <1>0, RefillIs DEF Budget, Supplied, BucketTypeOK
    <2>2. CASE from > lastUpdate
      <3>1. admitted = 0
        BY <2>2, <1>0 DEF BucketInv, Budget, BucketTypeOK
      <3>2. Supplied(from, now) \in Nat
        BY <1>0, SupplyNat DEF BucketTypeOK
      <3>. QED
        BY <3>1, <3>2, <1>0, RefillIs DEF Budget, Supplied, BucketTypeOK, Deny, Update
    <2>. QED  BY <2>1, <2>2, <1>0 DEF BucketTypeOK
  <1>3. Exact'
    <2>1. CASE Refill = BucketSize
      <3>1. Supplied(now, now) = 0
        BY <1>0, SupplyNat DEF BucketTypeOK
      <3>. QED
        BY <2>1, <3>1, <1>0 DEF Exact, Supplied, BucketTypeOK, Deny, Update
    <2>2. CASE Refill # BucketSize
      <3>1. Supplied(fullAt, now) = Supplied(fullAt, lastUpdate) + s
        BY <1>0, SupplyAdds DEF BucketTypeOK, BucketInv, Exact
      <3>2. tokens = BucketSize + Supplied(fullAt, lastUpdate) - spent * TokenParts
        BY Zenon DEF BucketInv, Exact
      <3>4. Supplied(fullAt, lastUpdate) \in Nat /\ spent * TokenParts \in Nat
        BY <1>0, SupplyNat DEF BucketTypeOK, BucketInv, Exact
      <3>5. spent' = spent /\ tokens' = Refill /\ fullAt' = fullAt /\ lastUpdate' = now
        BY Zenon, <2>2, <1>0 DEF Deny, Update, BucketTypeOK
      <3>. QED
        BY <2>2, <3>1, <3>2, <3>4, <3>5, <1>0, RefillIs DEF Exact, Supplied, BucketTypeOK
    <2>. QED  BY Zenon, <2>1, <2>2
  <1>. QED  BY Zenon, <1>1, <1>2, <1>3 DEF BucketInv

\* The window, the clock and stuttering preserve it.
LEMMA BucketOther ==
  ASSUME BucketInv, Observe \/ BucketTick \/ UNCHANGED bucketVars
  PROVE  BucketInv'
  <1>. USE BucketAssumption
  <1>1. CASE Observe
    <2>1. BucketTypeOK'  BY <1>1 DEF BucketInv, BucketTypeOK, Observe
    <2>2. Budget'
      <3>1. CASE now <= lastUpdate
        <4>1. now = lastUpdate  BY <3>1 DEF BucketInv, BucketTypeOK
        <4>2. Supplied(now, now) = 0  BY SupplyNat DEF BucketInv, BucketTypeOK
        <4>. QED  BY <1>1, <4>1, <4>2 DEF BucketInv, BucketTypeOK, Budget, Observe, Supplied
      <3>2. CASE ~(now <= lastUpdate)
        BY Zenon, <1>1, <3>2 DEF Budget, Observe
      <3>. QED  BY Zenon, <3>1, <3>2
    <2>3. Exact'  BY Zenon, <1>1 DEF BucketInv, Exact, Observe, Supplied
    <2>. QED  BY Zenon, <2>1, <2>2, <2>3 DEF BucketInv
  <1>2. CASE BucketTick
    <2>1. BucketTypeOK'  BY <1>2 DEF BucketInv, BucketTypeOK, BucketTick, Advance
    <2>2. Budget' /\ Exact'  BY Zenon, <1>2 DEF BucketInv, Budget, Exact, BucketTick, Advance, Supplied
    <2>. QED  BY Zenon, <2>1, <2>2 DEF BucketInv
  <1>3. CASE UNCHANGED bucketVars
    BY Zenon, <1>3 DEF BucketInv, BucketTypeOK, Budget, Exact, Supplied, bucketVars
  <1>. QED  BY Zenon, <1>1, <1>2, <1>3

\* Every step preserves the invariant.
LEMMA BucketStep == BucketInv /\ [BucketNext]_bucketVars => BucketInv'
  BY Zenon, GrantBucketInv, DenyBucketInv, BucketOther DEF BucketNext, Allow

\* The inductive invariant holds of every behaviour of the limiter.
THEOREM BucketInvariance == BucketSpec => []BucketInv
  BY BucketInvInit, BucketStep, PTL DEF BucketSpec

\* No window of time admits more than the bucket and the rate supply.
THEOREM RateHolds == BucketSpec => []RateBound
  <1>1. BucketInv => RateBound
    <2>. SUFFICES ASSUME BucketInv PROVE RateBound  OBVIOUS
    <2>. USE BucketAssumption
    <2>1. CASE from <= lastUpdate
      <3>1. Supplied(from, now) = Supplied(from, lastUpdate) + Supplied(lastUpdate, now)
        BY SupplyAdds DEF BucketInv, BucketTypeOK
      <3>2. Supplied(lastUpdate, now) \in Nat /\ Supplied(from, lastUpdate) \in Nat
        BY <2>1, SupplyNat DEF BucketInv, BucketTypeOK
      <3>3. admitted * TokenParts \in Nat
        BY DEF BucketInv, BucketTypeOK
      <3>4. admitted * TokenParts <= BucketSize + Supplied(from, now)
        BY <2>1, <3>1, <3>2, <3>3 DEF BucketInv, BucketTypeOK, Budget
      <3>. QED  BY Zenon, <3>4 DEF RateBound, Supplied
    <2>2. CASE from > lastUpdate
      <3>1. Supplied(from, now) \in Nat
        BY SupplyNat DEF BucketInv, BucketTypeOK
      <3>2. admitted = 0
        BY <2>2 DEF BucketInv, BucketTypeOK, Budget
      <3>. QED  BY <3>1, <3>2 DEF RateBound, Supplied
    <2>. QED  BY <2>1, <2>2 DEF BucketInv, BucketTypeOK
  <1>. QED  BY <1>1, BucketInvariance, PTL

\* A request is refused only when what was supplied is spent.
THEOREM RefusalsHold == BucketSpec => RefusedWhenSpent
  <1>1. BucketInv /\ [BucketNext]_bucketVars
          => [Deny => BucketSize + (now - fullAt') * Rate - spent' * TokenParts < TokenParts]_bucketVars
    <2>. SUFFICES ASSUME BucketInv, Deny
                  PROVE  BucketSize + (now - fullAt') * Rate - spent' * TokenParts < TokenParts
      OBVIOUS
    <2>1. Exact'
      BY Zenon, DenyBucketInv DEF BucketInv
    <2>2. lastUpdate' = now /\ tokens' < TokenParts
      BY Zenon DEF Deny, Update
    <2>. QED  BY Zenon, <2>1, <2>2 DEF Exact, Supplied
  <1>. QED  BY <1>1, BucketInvariance, PTL DEF BucketSpec, RefusedWhenSpent

-----------------------------------------------------------------------------
(* The pool of tenants' buckets.  Only the bucket in the map is ever made  *)
(* or held, and what it has granted it had or was supplied with.           *)

Plan == Quotas \cup {Default}

PoolInv ==
    /\ now \in Nat /\ granted \in Nat /\ quota \in Quotas
    /\ bucket \in Conn \cup {None}
    /\ DOMAIN made = Conn /\ DOMAIN at = Conn /\ DOMAIN held = Conn
    /\ \A c \in Conn : at[c] = "install" => held[c] \in Plan
    /\ \A c \in Conn : at[c] = "take" => bucket # None /\ held[c] = bucket
    /\ bucket = None => granted = 0
    /\ bucket # None =>
          LET b == made[bucket]
          IN  /\ b \in [rate : Nat, burst : Nat, tokens : Nat, last : Nat]
              /\ b.tokens <= b.burst /\ b.last <= now
              /\ granted + b.tokens <= b.burst + b.last * b.rate

\* A pool starts without a bucket for the tenant.
LEMMA PoolInvInit ==
    ASSUME PoolInit
    PROVE  PoolInv
BY Zenon, LimiterAssumption DEF PoolInit, PoolInv

\* What the bucket holds after the time since its last use.
LEMMA RefilledIs ==
    ASSUME NEW b \in [rate : Nat, burst : Nat, tokens : Nat, last : Nat],
           now \in Nat, b.tokens <= b.burst, b.last <= now
    PROVE  /\ Refilled(b) \in 0 .. b.burst
           /\ Refilled(b) <= b.tokens + now * b.rate - b.last * b.rate
<1>1. (now - b.last) * b.rate = now * b.rate - b.last * b.rate
  OBVIOUS
<1>2. now - b.last \in Nat
  OBVIOUS
<1>3. \A x, y \in Nat : x * y \in Nat
  OBVIOUS
<1>4. (now - b.last) * b.rate \in Nat
  BY Zenon, <1>2, <1>3
<1> DEFINE grown == b.tokens + (now - b.last) * b.rate
<1>5. grown \in Nat /\ grown = b.tokens + now * b.rate - b.last * b.rate
  BY <1>1, <1>4
<1> HIDE DEF grown
<1>6. Refilled(b) = IF grown > b.burst THEN b.burst ELSE grown
  BY Zenon DEF Refilled, grown
<1> QED
  BY <1>5, <1>6

\* What is granted and left was there before, or came with the time.
LEMMA Chained ==
    ASSUME NEW g \in Nat, NEW k \in Nat, NEW v \in Nat, NEW w \in Nat, NEW x \in Nat, NEW y \in Nat,
           NEW p \in Int, NEW q \in Int, g + k <= v + w, w <= x + p - q, v + x <= y + q
    PROVE  g + k <= y + p
OBVIOUS

\* A token is taken from the bucket in the map, however long ago the caller looked it up.
LEMMA TakeKeeps ==
    ASSUME PoolInv, NEW c \in Conn, Take(c)
    PROVE  PoolInv'
<1> DEFINE b == made[bucket]
           r == Refilled(b)
           left == IF r >= 1 THEN r - 1 ELSE r
           b2 == [b EXCEPT !.tokens = left, !.last = now]
           upToNow == now * b.rate
           upToLast == b.last * b.rate
<1>1. bucket # None /\ held[c] = bucket /\ bucket \in Conn /\ now \in Nat /\ granted \in Nat
  BY Zenon DEF Take, PoolInv
<1>2. /\ b \in [rate : Nat, burst : Nat, tokens : Nat, last : Nat]
      /\ b.tokens <= b.burst /\ b.last <= now
      /\ granted + b.tokens <= b.burst + upToLast
  BY Zenon, <1>1 DEF PoolInv
<1>3. made' = [made EXCEPT ![bucket] = b2] /\ granted' = IF r >= 1 THEN granted + 1 ELSE granted
  BY <1>1, Zenon DEF Take
<1>4. bucket' = bucket /\ quota' = quota /\ now' = now
      /\ held' = [held EXCEPT ![c] = None] /\ at' = [at EXCEPT ![c] = "out"]
  BY Zenon DEF Take, Goto
<1>5. r \in 0 .. b.burst /\ r <= b.tokens + upToNow - upToLast
  BY Zenon, <1>1, <1>2, RefilledIs
<1> HIDE DEF b, r
<1>6. b.burst \in Nat /\ b.tokens \in Nat /\ upToNow \in Int /\ upToLast \in Int
  BY <1>1, <1>2
<1> HIDE DEF upToNow, upToLast
<1>7. left \in Nat /\ left <= b.burst /\ granted' \in Nat /\ granted' + left <= granted + r
  BY <1>1, <1>3, <1>5, <1>6
<1> HIDE DEF left
<1>8. /\ b2 \in [rate : Nat, burst : Nat, tokens : Nat, last : Nat]
      /\ b2.rate = b.rate /\ b2.burst = b.burst /\ b2.tokens = left /\ b2.last = now
  BY Zenon, <1>1, <1>2, <1>7
<1>9. granted' + left <= b.burst + upToNow
  <2>1. r \in Nat
    BY <1>5, <1>6
  <2>2. granted + b.tokens <= b.burst + upToLast
    BY Zenon, <1>2
  <2> QED
    BY <1>1, <1>5, <1>6, <1>7, <2>1, <2>2, Chained, Zenon
<1>10. made'[bucket] = b2 /\ DOMAIN made' = Conn
  BY Zenon, <1>1, <1>3 DEF PoolInv
<1> HIDE DEF b2
<1> DEFINE n == made'[bucket]
<1>11. /\ n \in [rate : Nat, burst : Nat, tokens : Nat, last : Nat]
       /\ n.tokens <= n.burst /\ n.last <= now /\ granted' + n.tokens <= n.burst + n.last * n.rate
  BY <1>1, <1>2, <1>7, <1>8, <1>9, <1>10 DEF upToNow
<1> HIDE DEF n
<1>12. \A d \in Conn : (at'[d] = "install" => held'[d] \in Plan) /\ (at'[d] = "take" => held'[d] = bucket)
  BY Zenon, <1>4 DEF PoolInv
<1>13. DOMAIN at' = Conn /\ DOMAIN held' = Conn
  BY Zenon, <1>4 DEF PoolInv
<1> QED
  BY Zenon, <1>1, <1>4, <1>7, <1>10, <1>11, <1>12, <1>13 DEF PoolInv, n

\* The bucket is made once, full, from a quota of the tenant or the fallback.
LEMMA InstallKeeps ==
    ASSUME PoolInv, NEW c \in Conn, Install(c)
    PROVE  PoolInv'
<1>1. at[c] = "install" /\ quota' = quota /\ now' = now /\ granted' = granted
      /\ at' = [at EXCEPT ![c] = "take"] /\ held' = [held EXCEPT ![c] = bucket']
  BY Zenon DEF Install, Goto
<1>2. CASE bucket = None
  <2> DEFINE q == held[c]
             n == newTenantBucket(q)
  <2>1. q \in Plan /\ q.rate \in Nat /\ q.burst \in Nat /\ now \in Nat /\ granted = 0
    BY Zenon, <1>1, <1>2, LimiterAssumption DEF PoolInv, Plan
  <2>2. n = [rate |-> q.rate, burst |-> q.burst, tokens |-> q.burst, last |-> now]
    BY Zenon DEF newTenantBucket
  <2>3. now * q.rate \in Nat
    <3>1. \A x, y \in Nat : x * y \in Nat
      OBVIOUS
    <3> QED
      BY Zenon, <2>1, <3>1
  <2> HIDE DEF q
  <2>4. /\ n \in [rate : Nat, burst : Nat, tokens : Nat, last : Nat]
        /\ n.tokens <= n.burst /\ n.last <= now /\ granted + n.tokens <= n.burst + n.last * n.rate
    BY <2>1, <2>2, <2>3
  <2>5. made' = [made EXCEPT ![c] = n] /\ bucket' = c
    BY Zenon, <1>2 DEF Install, q
  <2> HIDE DEF n
  <2>6. made'[bucket'] = n /\ bucket' # None /\ bucket' \in Conn
    BY Zenon, <2>5, LimiterAssumption DEF PoolInv
  <2>7. \A d \in Conn : (at'[d] = "install" => held'[d] \in Plan) /\ (at'[d] = "take" => held'[d] = bucket')
    BY Zenon, <1>1, <1>2, <2>5 DEF PoolInv
  <2> QED
    BY Zenon, <1>1, <2>4, <2>5, <2>6, <2>7 DEF PoolInv
<1>3. CASE bucket # None
  <2>1. made' = made /\ bucket' = bucket
    BY Zenon, <1>3 DEF Install
  <2>2. \A d \in Conn : (at'[d] = "install" => held'[d] \in Plan) /\ (at'[d] = "take" => held'[d] = bucket)
    BY Zenon, <1>1, <2>1 DEF PoolInv
  <2> QED
    BY Zenon, <1>1, <1>3, <2>1, <2>2 DEF PoolInv
<1> QED
  BY Zenon, <1>2, <1>3

\* Every step of a connection, of the plan and of the clock preserves the invariant.
LEMMA PoolInvStep ==
    ASSUME PoolInv, [PoolNext]_poolVars
    PROVE  PoolInv'
<1>1. ASSUME NEW c \in Conn, Look(c)
      PROVE  PoolInv'
  BY Zenon, <1>1 DEF Look, Goto, PoolInv
<1>2. ASSUME NEW c \in Conn, ReadQuota(c)
      PROVE  PoolInv'
  <2>1. PICK q \in {quota, Default} : held' = [held EXCEPT ![c] = q]
    BY Zenon, <1>2 DEF ReadQuota
  <2>2. q \in Plan
    BY Zenon, <2>1 DEF PoolInv, Plan
  <2> QED
    BY Zenon, <1>2, <2>1, <2>2 DEF ReadQuota, Goto, PoolInv
<1>3. CASE PlanChange
  BY Zenon, <1>3 DEF PlanChange, PoolInv
<1>4. CASE PoolTick
  BY <1>4 DEF PoolTick, Advance, PoolInv
<1>5. CASE UNCHANGED poolVars
  BY Zenon, <1>5 DEF poolVars, PoolInv
<1> QED
  BY Zenon, <1>1, <1>2, <1>3, <1>4, <1>5, InstallKeeps, TakeKeeps DEF PoolNext

\* A tenant gets no more than the burst and the rate of one plan, however many of its
\* connections look for its bucket, create it and take from it at the same time, and
\* whatever happens to its quota meanwhile.
THEOREM TenantsHaveOneBudget == PoolSpec => []OneBudget
<1>1. PoolInv => OneBudget
  <2>1. SUFFICES ASSUME PoolInv, bucket # None
                 PROVE  granted <= made[bucket].burst + now * made[bucket].rate
    BY Zenon DEF PoolInv, OneBudget
  <2> DEFINE b == made[bucket]
  <2>2. /\ b \in [rate : Nat, burst : Nat, tokens : Nat, last : Nat] /\ b.last <= now
        /\ granted + b.tokens <= b.burst + b.last * b.rate /\ now \in Nat /\ granted \in Nat
    BY Zenon, <2>1 DEF PoolInv
  <2> HIDE DEF b
  <2>3. (now - b.last) * b.rate = now * b.rate - b.last * b.rate
    BY <2>2
  <2>4. (now - b.last) * b.rate \in Nat
    <3>1. \A x, y \in Nat : x * y \in Nat
      OBVIOUS
    <3>2. now - b.last \in Nat
      BY <2>2
    <3> QED
      BY Zenon, <2>2, <3>1, <3>2
  <2>5. now * b.rate \in Int /\ b.last * b.rate \in Int
    BY <2>2
  <2>6. granted <= b.burst + now * b.rate
    BY <2>2, <2>3, <2>4, <2>5
  <2> QED
    BY Zenon, <2>6 DEF b
<1> QED
  BY PoolInvInit, PoolInvStep, <1>1, PTL DEF PoolSpec

-----------------------------------------------------------------------------
(* The windows.                                                            *)

\* dcrRateLimiter keeps every admission a window that is not over can hold.
SlidingInv ==
    /\ IsFiniteSet(slid) /\ slid \subseteq Nat \X Nat /\ window \subseteq slid
    /\ \A a \in slid : a[1] <= now /\ (a[1] > now - Period => a \in window)
    /\ \A t \in 0 .. MaxTime : Cardinality(In(slid, t)) <= Limit

\* The admissions of the window that ipRateLimiter counts in, and those that a window
\* of time which reaches into it can have from before.
Counted == {a \in fixed : a[1] >= reset - Period}
Earlier == {a \in fixed : reset - 2 * Period < a[1] /\ a[1] < reset - Period}

FixedInv ==
    /\ IsFiniteSet(fixed) /\ fixed \subseteq Nat \X Nat
    /\ count \in Nat /\ reset \in Nat /\ reset <= now + Period
    /\ \A a \in fixed : a[1] <= now /\ a[1] < reset
    /\ Cardinality(Counted) <= count /\ Cardinality(Counted) <= Limit
    /\ Cardinality(Earlier) <= Limit
    /\ \A t \in 0 .. MaxTime : Cardinality(In(fixed, t)) <= 2 * Limit

WindowInv == now \in Nat /\ asked \in Nat /\ SlidingInv /\ FixedInv

\* One more admission makes a window larger by one at most.
LEMMA OneMore ==
    ASSUME NEW S, NEW x, IsFiniteSet(S)
    PROVE  /\ IsFiniteSet(S \cup {x}) /\ Cardinality(S \cup {x}) \in Nat
           /\ Cardinality(S \cup {x}) <= Cardinality(S) + 1
<1>1. IsFiniteSet(S \cup {x}) /\ Cardinality(S \cup {x}) = IF x \in S THEN Cardinality(S) ELSE Cardinality(S) + 1
  BY FS_AddElement, Zenon
<1>2. Cardinality(S) \in Nat
  BY FS_CardinalityType, Zenon
<1> QED
  BY <1>1, <1>2

\* A request that dcrRateLimiter admits finds fewer than Limit admissions in its window,
\* and what it sees of them is all there are.
LEMMA SlideKeeps ==
    ASSUME WindowInv, NEW n \in Nat, Slide(<<now, n>>), now' = now
    PROVE  SlidingInv'
<1> DEFINE a == <<now, n>>
<1>1. /\ now \in Nat /\ IsFiniteSet(slid) /\ slid \subseteq Nat \X Nat /\ window \subseteq slid
      /\ \A x \in slid : x[1] <= now /\ (x[1] > now - Period => x \in window)
      /\ \A t \in 0 .. MaxTime : Cardinality(In(slid, t)) <= Limit
  BY Zenon DEF WindowInv, SlidingInv
<1>2. a \in Nat \X Nat /\ a[1] = now
  BY Zenon, <1>1
<1>3. Fresh = {x \in slid : x[1] > now - Period}
  BY <1>1, Zenon DEF Fresh
<1>4. IsFiniteSet(Fresh) /\ Cardinality(Fresh) \in Nat
  <2>1. Fresh \in SUBSET slid
    BY Zenon, <1>3
  <2> QED
    BY Zenon, <1>1, <2>1, FS_Subset, FS_CardinalityType
<1>5. CASE Cardinality(Fresh) >= Limit
  <2>1. window' = Fresh /\ slid' = slid
    BY Zenon, <1>5 DEF Slide
  <2> QED
    BY Zenon, <1>1, <1>3, <2>1 DEF SlidingInv, In
<1>6. CASE ~(Cardinality(Fresh) >= Limit)
  <2>1. window' = Fresh \cup {a} /\ slid' = slid \cup {a}
    BY Zenon, <1>6 DEF Slide
  <2>2. IsFiniteSet(slid') /\ slid' \subseteq Nat \X Nat /\ window' \subseteq slid'
    BY Zenon, <1>1, <1>2, <1>3, <2>1, FS_AddElement
  <2> HIDE DEF a
  <2>3. \A x \in slid' : x[1] <= now' /\ (x[1] > now' - Period => x \in window')
    BY <1>1, <1>2, <1>3, <2>1
  <2>4. ASSUME NEW t \in 0 .. MaxTime
        PROVE  Cardinality(In(slid', t)) <= Limit
    <3>1. CASE now < t \/ t + Period <= now
      <4>1. a \notin In(slid', t)
        BY <1>1, <1>2, <3>1, WindowAssumption, ClockAssumption DEF In
      <4>2. In(slid', t) = In(slid, t)
        BY <2>1, <4>1, Zenon DEF In
      <4> QED
        BY Zenon, <1>1, <4>2
    <3>2. CASE t <= now /\ now < t + Period
      <4>1. In(slid', t) \subseteq Fresh \cup {a}
        <5>1. ASSUME NEW x \in slid, t <= x[1]
              PROVE  x[1] > now - Period
          <6>1. x[1] \in Nat
            BY Zenon, <1>1
          <6> QED
            BY <1>1, <3>2, <5>1, <6>1, WindowAssumption, ClockAssumption
        <5> QED
          BY <1>3, <2>1, <5>1, Zenon DEF In
      <4>2. IsFiniteSet(Fresh \cup {a}) /\ Cardinality(Fresh \cup {a}) <= Cardinality(Fresh) + 1
            /\ Cardinality(Fresh \cup {a}) \in Nat
        BY <1>4, OneMore, Zenon
      <4>3. Cardinality(In(slid', t)) <= Cardinality(Fresh \cup {a}) /\ Cardinality(In(slid', t)) \in Nat
        BY Zenon, <4>1, <4>2, FS_Subset, FS_CardinalityType
      <4> QED
        BY <1>4, <1>6, <4>2, <4>3, WindowAssumption
    <3> QED
      BY <1>1, <3>1, <3>2, WindowAssumption, ClockAssumption
  <2> QED
    BY Zenon, <2>2, <2>3, <2>4 DEF SlidingInv, In
<1> QED
  BY Zenon, <1>5, <1>6

\* A window of time meets at most two of the windows that ipRateLimiter counts in, and
\* each has admitted at most Limit.
LEMMA CountKeeps ==
    ASSUME WindowInv, NEW n \in Nat, Count(<<now, n>>), now' = now
    PROVE  FixedInv'
<1> DEFINE a == <<now, n>>
           begins == now >= reset
           k == (IF begins THEN 0 ELSE count) + 1
<1> USE WindowAssumption, ClockAssumption
<1>1. /\ now \in Nat /\ IsFiniteSet(fixed) /\ fixed \subseteq Nat \X Nat
      /\ count \in Nat /\ reset \in Nat /\ reset <= now + Period
      /\ \A x \in fixed : x[1] <= now /\ x[1] < reset
      /\ Cardinality(Counted) <= count /\ Cardinality(Counted) <= Limit
      /\ Cardinality(Earlier) <= Limit
      /\ \A t \in 0 .. MaxTime : Cardinality(In(fixed, t)) <= 2 * Limit
  BY Zenon DEF WindowInv, FixedInv
<1>2. /\ reset' = IF begins THEN now + Period ELSE reset
      /\ count' = k
      /\ fixed' = IF k <= Limit THEN fixed \cup {a} ELSE fixed
  BY Zenon DEF Count
<1>3. a \in Nat \X Nat /\ a[1] = now
  BY Zenon, <1>1
<1> HIDE DEF a
<1>4. count' \in Nat /\ reset' \in Nat /\ now < reset' /\ reset' <= now + Period
  BY <1>1, <1>2
<1>5. fixed' \subseteq Nat \X Nat /\ IsFiniteSet(fixed') /\ \A x \in fixed' : x[1] \in Nat /\ x[1] <= now /\ x[1] < reset'
  <2>1. fixed' \subseteq fixed \cup {a}
    BY Zenon, <1>2
  <2>2. IsFiniteSet(fixed \cup {a})
    BY Zenon, <1>1, FS_AddElement
  <2>3. IsFiniteSet(fixed')
    BY Zenon, <2>1, <2>2, FS_Subset
  <2>4. \A x \in fixed \cup {a} : x \in Nat \X Nat /\ x[1] \in Nat /\ x[1] <= now
    BY <1>1, <1>3
  <2> QED
    BY <1>1, <1>4, <2>1, <2>3, <2>4
<1>6. IsFiniteSet(Counted) /\ Cardinality(Counted) \in Nat /\ IsFiniteSet(Earlier) /\ Cardinality(Earlier) \in Nat
  <2>1. Counted \in SUBSET fixed /\ Earlier \in SUBSET fixed
    BY Zenon DEF Counted, Earlier
  <2> QED
    BY Zenon, <1>1, <2>1, FS_Subset, FS_CardinalityType
<1>7. Cardinality(Counted') <= count' /\ Cardinality(Counted') <= Limit
  <2>1. CASE begins
    <3>1. Counted' = {a} /\ count' = 1
      <4>1. k = 1 /\ fixed' = fixed \cup {a} /\ reset' - Period = now
        BY <1>1, <1>2, <2>1
      <4>2. \A x \in fixed : x[1] \in Nat /\ ~(x[1] >= now)
        BY <1>1, <2>1
      <4>3. a[1] >= now
        BY <1>1, <1>3
      <4>4. Counted' = {x \in fixed' : x[1] >= now}
        BY Zenon, <4>1 DEF Counted
      <4> QED
        BY Zenon, <1>2, <4>1, <4>2, <4>3, <4>4
    <3>2. Cardinality({a}) = 1
      BY FS_Singleton, Zenon
    <3> QED
      BY <3>1, <3>2
  <2>2. CASE ~begins /\ k <= Limit
    <3>1. Counted' \subseteq Counted \cup {a} /\ count' = count + 1 /\ count + 1 <= Limit
      BY Zenon, <1>2, <2>2 DEF Counted
    <3>2. IsFiniteSet(Counted \cup {a}) /\ Cardinality(Counted \cup {a}) <= Cardinality(Counted) + 1
          /\ Cardinality(Counted \cup {a}) \in Nat
      BY <1>6, OneMore, Zenon
    <3>3. Cardinality(Counted') <= Cardinality(Counted \cup {a}) /\ Cardinality(Counted') \in Nat
      BY Zenon, <3>1, <3>2, FS_Subset, FS_CardinalityType
    <3> QED
      BY <1>1, <1>6, <3>1, <3>2, <3>3
  <2>3. CASE ~begins /\ ~(k <= Limit)
    <3>1. Counted' = Counted /\ count' = count + 1
      BY Zenon, <1>2, <2>3 DEF Counted
    <3> QED
      BY <1>1, <1>6, <3>1
  <2> QED
    BY Zenon, <2>1, <2>2, <2>3
<1>8. Cardinality(Earlier') <= Limit
  <2>1. CASE begins
    <3>1. reset' = now + Period /\ now >= reset
      BY Zenon, <1>2, <2>1
    <3>2. ASSUME NEW x \in Earlier'
          PROVE  x \in Counted
      <4>1. x \in fixed' /\ reset' - 2 * Period < x[1] /\ x[1] < reset' - Period
        BY Zenon, <3>2 DEF Earlier
      <4>2. x[1] < now /\ x[1] \in Nat /\ x[1] >= reset - Period
        BY <1>1, <1>5, <3>1, <4>1
      <4>3. x \in fixed
        BY <1>2, <1>3, <1>1, <4>1, <4>2
      <4> QED
        BY Zenon, <4>2, <4>3 DEF Counted
    <3>3. Cardinality(Earlier') <= Cardinality(Counted) /\ Cardinality(Earlier') \in Nat
      BY Zenon, <1>6, <3>2, FS_Subset, FS_CardinalityType
    <3> QED
      BY <1>1, <1>6, <3>3
  <2>2. CASE ~begins
    <3>1. reset' = reset
      BY Zenon, <1>2, <2>2
    <3>2. ASSUME NEW x \in Earlier'
          PROVE  x \in Earlier
      <4>1. x \in fixed' /\ reset - 2 * Period < x[1] /\ x[1] < reset - Period
        BY Zenon, <3>1, <3>2 DEF Earlier
      <4>2. x # a
        BY <1>1, <1>3, <4>1
      <4>3. x \in fixed
        BY Zenon, <1>2, <4>1, <4>2
      <4> QED
        BY Zenon, <4>1, <4>3 DEF Earlier
    <3>3. Cardinality(Earlier') <= Cardinality(Earlier) /\ Cardinality(Earlier') \in Nat
      BY Zenon, <1>6, <3>2, FS_Subset, FS_CardinalityType
    <3> QED
      BY <1>1, <1>6, <3>3
  <2> QED
    BY Zenon, <2>1, <2>2
<1>9. ASSUME NEW t \in 0 .. MaxTime
      PROVE  Cardinality(In(fixed', t)) <= 2 * Limit
  <2>1. CASE now < t \/ t + Period <= now
    <3>1. a \notin In(fixed', t)
      BY <1>1, <1>3, <2>1 DEF In
    <3>2. In(fixed', t) = In(fixed, t)
      BY <1>2, <3>1, Zenon DEF In
    <3> QED
      BY Zenon, <1>1, <3>2
  <2>2. CASE t <= now /\ now < t + Period
    <3>1. IsFiniteSet(Counted') /\ Cardinality(Counted') \in Nat /\ IsFiniteSet(Earlier') /\ Cardinality(Earlier') \in Nat
      <4>1. Counted' \in SUBSET fixed' /\ Earlier' \in SUBSET fixed'
        BY Zenon DEF Counted, Earlier
      <4> QED
        BY Zenon, <1>5, <4>1, FS_Subset, FS_CardinalityType
    <3>2. In(fixed', t) \subseteq Counted' \cup Earlier'
      <4>1. ASSUME NEW x \in fixed', t <= x[1]
            PROVE  x[1] >= reset' - Period \/ (reset' - 2 * Period < x[1] /\ x[1] < reset' - Period)
        <5>1. x[1] \in Nat /\ x[1] > reset' - 2 * Period
          BY <1>1, <1>4, <1>5, <2>2, <4>1
        <5> QED
          BY <1>4, <5>1
      <4> QED
        BY <4>1, Zenon DEF In, Counted, Earlier
    <3>3. /\ IsFiniteSet(Counted' \cup Earlier')
          /\ Cardinality(Counted' \cup Earlier') <= Cardinality(Counted') + Cardinality(Earlier')
          /\ Cardinality(Counted' \cup Earlier') \in Nat
      <4>1. IsFiniteSet(Counted' \cup Earlier') /\ Cardinality(Counted' \cup Earlier') =
                 Cardinality(Counted') + Cardinality(Earlier') - Cardinality(Counted' \cap Earlier')
        BY Zenon, <3>1, FS_Union
      <4>2. IsFiniteSet(Counted' \cap Earlier') /\ Cardinality(Counted' \cap Earlier') \in Nat
        BY Zenon, <3>1, FS_Intersection, FS_CardinalityType
      <4>3. Cardinality(Counted' \cup Earlier') \in Nat
        BY Zenon, <4>1, FS_CardinalityType
      <4> QED
        BY <3>1, <4>1, <4>2, <4>3
    <3>4. Cardinality(In(fixed', t)) <= Cardinality(Counted' \cup Earlier') /\ Cardinality(In(fixed', t)) \in Nat
      BY Zenon, <3>2, <3>3, FS_Subset, FS_CardinalityType
    <3> QED
      BY <1>7, <1>8, <3>1, <3>3, <3>4
  <2> QED
    BY <1>1, <2>1, <2>2
<1> QED
  BY Zenon, <1>4, <1>5, <1>7, <1>8, <1>9 DEF FixedInv, In

\* Requests and the clock preserve the invariant of both windows.
LEMMA WindowInvStep ==
    ASSUME WindowInv, [WindowNext]_windowVars
    PROVE  WindowInv'
<1>1. CASE Request
  <2>1. now' = now /\ asked' = asked + 1 /\ asked \in Nat /\ Slide(<<now, asked>>) /\ Count(<<now, asked>>)
    BY Zenon, <1>1 DEF Request, WindowInv
  <2> QED
    BY <2>1, SlideKeeps, CountKeeps DEF WindowInv
<1>2. CASE WindowTick
  <2>1. now' = now + 1 /\ asked' = 0 /\ UNCHANGED <<window, count, reset, slid, fixed>> /\ now \in Nat
    BY Zenon, <1>2 DEF WindowTick, Advance, WindowInv
  <2>2. \A x \in slid : x[1] \in Nat /\ x[1] <= now' /\ (x[1] > now' - Period => x \in window)
    BY <2>1, WindowAssumption DEF WindowInv, SlidingInv
  <2>3. \A x \in fixed : x[1] \in Nat /\ x[1] <= now' /\ x[1] < reset
    BY <2>1 DEF WindowInv, FixedInv
  <2>4. Counted' = Counted /\ Earlier' = Earlier
    BY Zenon, <2>1 DEF Counted, Earlier
  <2>5. reset <= now' + Period
    BY <2>1, WindowAssumption DEF WindowInv, FixedInv
  <2>6. now' \in Nat /\ asked' \in Nat
    BY <2>1
  <2>7. SlidingInv'
    BY <2>1, <2>2, Zenon DEF WindowInv, SlidingInv, In
  <2>8. FixedInv'
    BY <2>1, <2>3, <2>4, <2>5, Zenon DEF WindowInv, FixedInv, In
  <2> QED
    BY Zenon, <2>6, <2>7, <2>8 DEF WindowInv
<1>3. CASE UNCHANGED windowVars
  BY Zenon, <1>3 DEF windowVars, WindowInv, SlidingInv, FixedInv, Counted, Earlier, In
<1> QED
  BY Zenon, <1>1, <1>2, <1>3 DEF WindowNext

\* The limiter of client registrations admits no more than Limit requests of an address
\* in any window of time, and the limiter of signups at most twice as many.
THEOREM WindowsBound == WindowSpec => []WindowBounds
<1>1. WindowInit => WindowInv
  <2>1. SUFFICES ASSUME WindowInit PROVE WindowInv
    OBVIOUS
  <2>2. IsFiniteSet({}) /\ Cardinality({}) = 0
    BY Zenon, FS_EmptySet
  <2>3. Counted = {} /\ Earlier = {} /\ \A t : In(slid, t) = {} /\ In(fixed, t) = {}
    BY <2>1, Zenon DEF WindowInit, Counted, Earlier, In
  <2>4. now = 0 /\ slid = {} /\ window = {} /\ fixed = {} /\ count = 0 /\ reset = 0 /\ asked = 0
    BY Zenon, <2>1 DEF WindowInit
  <2>5. SlidingInv
    BY <2>2, <2>3, <2>4, WindowAssumption DEF SlidingInv
  <2>6. FixedInv
    <3>1. 0 \in Nat /\ 0 <= Limit /\ 0 <= 2 * Limit /\ 0 <= 0 /\ 0 <= 0 + Period
      BY WindowAssumption
    <3> QED
      BY <2>2, <2>3, <2>4, <3>1, Zenon DEF FixedInv
  <2> QED
    BY Zenon, <2>4, <2>5, <2>6 DEF WindowInv
<1>2. WindowInv => WindowBounds
  BY Zenon DEF WindowInv, SlidingInv, FixedInv, WindowBounds
<1> QED
  BY <1>1, WindowInvStep, <1>2, PTL DEF WindowSpec

-----------------------------------------------------------------------------
(* Failed authentications.                                                 *)

\* The bucket itself: its tokens and its times.
AuthBucketOK ==
    /\ now \in Nat /\ refusals \in Nat /\ checking \subseteq AuthRequest
    /\ together \in BOOLEAN /\ known \in BOOLEAN
    /\ authBucket \in [tokens : 0 .. AuthCapacity, update : Nat, seen : Nat]
    /\ authBucket.update = authBucket.seen /\ authBucket.update <= now

\* While requests come one by one, each refusal has its own token.
PaidSingly ==
    ~together =>
       /\ refusals + AuthTokens <= AuthCapacity + now
       /\ \A r \in checking : checking = {r} /\ AuthTokens >= 1

\* How many more of the requests of a tick can be refused: one for a token, and all
\* that are let in for the last one.
Refusable ==
    IF AuthTokens >= 1 THEN AuthTokens - 1 + Cardinality(AuthRequest) ELSE Cardinality(checking)

Supply == AuthCapacity + Cardinality(AuthRequest) * now + Cardinality(AuthRequest) - 1

AuthInv == AuthBucketOK /\ PaidSingly /\ refusals + Refusable <= Supply

\* What the bucket has after getOrCreate and refill: a full one if it was dropped, which
\* it then would be anyway, since nobody has used it for as long as it takes to fill.
LEMMA AuthTokensIs ==
    ASSUME AuthInv
    PROVE  /\ AuthTokens \in 0 .. AuthCapacity
           /\ Collect => AuthTokens = AuthCapacity
<1>1. /\ authBucket.tokens \in 0 .. AuthCapacity /\ authBucket.update \in Nat /\ now \in Nat
      /\ authBucket.update = authBucket.seen /\ authBucket.update <= now /\ AuthCapacity \in Nat
  BY Zenon, AuthAssumption DEF AuthInv, AuthBucketOK
<1>2. AuthTokens \in 0 .. AuthCapacity
  BY <1>1 DEF AuthTokens
<1>3. ASSUME Collect PROVE AuthTokens = AuthCapacity
  BY <1>1, <1>3, AuthAssumption DEF Collect, AuthTokens
<1> QED
  BY Zenon, <1>2, <1>3

\* What each step does to the tokens: the refusal of a token costs one, a tick gives one
\* back, and nothing else changes them.
LEMMA AuthTokensStep ==
    ASSUME AuthInv
    PROVE  /\ \A r \in AuthRequest : AuthAllow(r) \/ AuthPass(r) => AuthTokens' = AuthTokens
           /\ \A r \in AuthRequest : AuthConsume(r) =>
                 AuthTokens' = IF AuthTokens >= 1 THEN AuthTokens - 1 ELSE AuthTokens
           /\ Collect => AuthTokens' = AuthTokens
           /\ AuthTick => AuthTokens' \in AuthTokens .. AuthTokens + 1 /\ AuthTokens' <= AuthCapacity
<1>1. AuthTokens \in 0 .. AuthCapacity /\ AuthCapacity \in Nat /\ now \in Nat
  BY Zenon, AuthTokensIs, AuthAssumption DEF AuthInv, AuthBucketOK
<1>2. ASSUME NEW x \in 0 .. AuthCapacity, TouchWith(x), now' = now
      PROVE  AuthTokens' = x
  <2>1. authBucket'.tokens = x /\ authBucket'.update = now /\ known' = TRUE
    BY Zenon, <1>2 DEF TouchWith
  <2> QED
    BY <1>1, <1>2, <2>1 DEF AuthTokens
<1>3. ASSUME NEW r \in AuthRequest, AuthAllow(r)
      PROVE  AuthTokens' = AuthTokens
  BY Zenon, <1>1, <1>2, <1>3 DEF AuthAllow
<1>4. ASSUME NEW r \in AuthRequest, AuthPass(r)
      PROVE  AuthTokens' = AuthTokens
  BY Zenon, <1>4 DEF AuthPass, AuthTokens
<1>5. ASSUME NEW r \in AuthRequest, AuthConsume(r)
      PROVE  AuthTokens' = IF AuthTokens >= 1 THEN AuthTokens - 1 ELSE AuthTokens
  <2> DEFINE x == IF AuthTokens >= 1 THEN AuthTokens - 1 ELSE AuthTokens
  <2>1. x \in 0 .. AuthCapacity
    BY <1>1
  <2>2. TouchWith(x) /\ now' = now
    BY Zenon, <1>5 DEF AuthConsume
  <2> HIDE DEF x
  <2>3. AuthTokens' = x
    BY Zenon, <1>2, <2>1, <2>2
  <2> QED
    BY Zenon, <2>3 DEF x
<1>6. ASSUME Collect
      PROVE  AuthTokens' = AuthTokens
  <2>1. AuthTokens = AuthCapacity /\ known' = FALSE
    BY Zenon, <1>6, AuthTokensIs DEF Collect
  <2> QED
    BY Zenon, <2>1 DEF AuthTokens
<1>7. ASSUME AuthTick
      PROVE  AuthTokens' \in AuthTokens .. AuthTokens + 1 /\ AuthTokens' <= AuthCapacity
  <2>1. now' = now + 1 /\ authBucket' = authBucket /\ known' = known
    BY Zenon, <1>7 DEF AuthTick, Advance, ownAuthVars
  <2>2. /\ authBucket.tokens \in 0 .. AuthCapacity /\ authBucket.update \in Nat /\ authBucket.update <= now
    BY Zenon DEF AuthInv, AuthBucketOK
  <2> QED
    BY <1>1, <2>1, <2>2 DEF AuthTokens
<1> QED
  BY Zenon, <1>3, <1>4, <1>5, <1>6, <1>7

\* Every step leaves between no tokens and all of them in the bucket.
LEMMA AuthBucketStep ==
    ASSUME AuthInv, [AuthNext]_authVars
    PROVE  AuthBucketOK'
<1>1. AuthTokens \in 0 .. AuthCapacity /\ AuthCapacity \in Nat /\ AuthBucketOK
  BY Zenon, AuthTokensIs, AuthAssumption DEF AuthInv, AuthBucketOK
<1>2. ASSUME NEW x \in 0 .. AuthCapacity, TouchWith(x), now' = now
      PROVE  /\ authBucket' \in [tokens : 0 .. AuthCapacity, update : Nat, seen : Nat]
             /\ authBucket'.update = authBucket'.seen /\ authBucket'.update <= now'
             /\ known' \in BOOLEAN
  BY <1>1, <1>2 DEF TouchWith, AuthBucketOK
<1>3. ASSUME NEW r \in AuthRequest, AuthAllow(r)
      PROVE  AuthBucketOK'
  <2>1. TouchWith(AuthTokens) /\ now' = now /\ refusals' = refusals
    BY Zenon, <1>3 DEF AuthAllow
  <2>2. checking' \subseteq AuthRequest /\ together' \in BOOLEAN
    BY Zenon, <1>1, <1>3 DEF AuthAllow, AuthBucketOK
  <2> QED
    BY Zenon, <1>1, <1>2, <2>1, <2>2 DEF AuthBucketOK
<1>4. ASSUME NEW r \in AuthRequest, AuthConsume(r)
      PROVE  AuthBucketOK'
  <2> DEFINE x == IF AuthTokens >= 1 THEN AuthTokens - 1 ELSE AuthTokens
  <2>1. x \in 0 .. AuthCapacity
    BY <1>1
  <2>2. TouchWith(x) /\ now' = now /\ refusals' = refusals + 1 /\ together' = together
        /\ checking' \subseteq checking
    BY Zenon, <1>4 DEF AuthConsume
  <2> HIDE DEF x
  <2> QED
    BY <1>1, <1>2, <2>1, <2>2 DEF AuthBucketOK
<1>5. ASSUME NEW r \in AuthRequest, AuthPass(r)
      PROVE  AuthBucketOK'
  BY Zenon, <1>1, <1>5 DEF AuthPass, AuthBucketOK
<1>6. CASE Collect
  <2>1. known' = FALSE /\ authBucket' = NewBucket /\ UNCHANGED <<checking, refusals, together, now>>
    BY Zenon, <1>6 DEF Collect
  <2>2. /\ authBucket' \in [tokens : 0 .. AuthCapacity, update : Nat, seen : Nat]
        /\ authBucket'.update = 0 /\ authBucket'.seen = 0
    BY <1>1, <2>1 DEF NewBucket
  <2>3. 0 <= now
    BY <1>1 DEF AuthBucketOK
  <2> QED
    BY Zenon, <1>1, <2>1, <2>2, <2>3 DEF AuthBucketOK
<1>7. CASE AuthTick
  BY <1>1, <1>7 DEF AuthTick, Advance, ownAuthVars, AuthBucketOK
<1>8. CASE UNCHANGED authVars
  BY Zenon, <1>1, <1>8 DEF authVars, ownAuthVars, AuthBucketOK
<1> QED
  BY Zenon, <1>3, <1>4, <1>5, <1>6, <1>7, <1>8 DEF AuthNext

\* As long as requests come one by one, each failure is paid with a token.
LEMMA PaidSinglyStep ==
    ASSUME AuthInv, [AuthNext]_authVars
    PROVE  PaidSingly'
<1>1. /\ AuthTokens \in 0 .. AuthCapacity /\ AuthCapacity \in Nat /\ now \in Nat /\ refusals \in Nat
      /\ together \in BOOLEAN /\ PaidSingly
  BY Zenon, AuthTokensIs, AuthAssumption DEF AuthInv, AuthBucketOK
<1>2. ASSUME NEW r \in AuthRequest, AuthAllow(r)
      PROVE  PaidSingly'
  <2>1. AuthTokens' = AuthTokens /\ refusals' = refusals /\ now' = now
    BY Zenon, <1>2, AuthTokensStep DEF AuthAllow
  <2>2. CASE AuthTokens >= 1
    <3>1. checking' = checking \cup {r} /\ together' = (together \/ checking # {})
      BY Zenon, <1>2, <2>2 DEF AuthAllow
    <3> QED
      BY Zenon, <1>1, <2>1, <2>2, <3>1 DEF PaidSingly
  <2>3. CASE ~(AuthTokens >= 1)
    <3>1. checking' = checking /\ together' = together
      BY Zenon, <1>2, <2>3 DEF AuthAllow
    <3> QED
      BY Zenon, <1>1, <2>1, <3>1 DEF PaidSingly
  <2> QED
    BY Zenon, <2>2, <2>3
<1>3. ASSUME NEW r \in AuthRequest, AuthConsume(r)
      PROVE  PaidSingly'
  <2>1. r \in checking /\ checking' = checking \ {r} /\ refusals' = refusals + 1 /\ now' = now /\ together' = together
    BY Zenon, <1>3 DEF AuthConsume
  <2>2. SUFFICES ASSUME ~together
                 PROVE  refusals' + AuthTokens' <= AuthCapacity + now' /\ checking' = {}
    BY Zenon, <2>1 DEF PaidSingly
  <2>3. checking = {r} /\ AuthTokens >= 1 /\ refusals + AuthTokens <= AuthCapacity + now
    BY Zenon, <1>1, <2>1, <2>2 DEF PaidSingly
  <2>4. AuthTokens' = AuthTokens - 1
    BY Zenon, <1>3, <2>3, AuthTokensStep
  <2> QED
    BY <1>1, <2>1, <2>3, <2>4
<1>4. ASSUME NEW r \in AuthRequest, AuthPass(r)
      PROVE  PaidSingly'
  <2>1. AuthTokens' = AuthTokens /\ checking' \subseteq checking /\ refusals' = refusals /\ now' = now /\ together' = together
    BY Zenon, <1>4, AuthTokensStep DEF AuthPass
  <2>2. \A x \in checking' : checking = {x} => checking' = {x}
    BY Zenon, <2>1
  <2> QED
    BY Zenon, <1>1, <2>1, <2>2 DEF PaidSingly
<1>5. CASE Collect
  <2>1. AuthTokens' = AuthTokens /\ checking' = checking /\ refusals' = refusals /\ now' = now /\ together' = together
    BY Zenon, <1>5, AuthTokensStep DEF Collect
  <2> QED
    BY Zenon, <1>1, <2>1 DEF PaidSingly
<1>6. CASE AuthTick
  <2>1. /\ AuthTokens' \in AuthTokens .. AuthTokens + 1 /\ now' = now + 1
        /\ checking' = checking /\ refusals' = refusals /\ together' = together
    BY Zenon, <1>6, AuthTokensStep DEF AuthTick, Advance, ownAuthVars
  <2>2. \A a, b, c, d \in Nat : \A x \in b .. b + 1 :
           (a + b <= c + d => a + x <= c + (d + 1)) /\ (b >= 1 => x >= 1)
    OBVIOUS
  <2>3. AuthTokens \in Nat
    BY <1>1
  <2>4. SUFFICES ASSUME ~together
                 PROVE  /\ refusals' + AuthTokens' <= AuthCapacity + now'
                        /\ \A r \in checking' : checking' = {r} /\ AuthTokens' >= 1
    BY Zenon, <2>1 DEF PaidSingly
  <2>5. refusals + AuthTokens <= AuthCapacity + now /\ \A r \in checking : checking = {r} /\ AuthTokens >= 1
    BY Zenon, <1>1, <2>4 DEF PaidSingly
  <2> QED
    BY <1>1, <2>1, <2>2, <2>3, <2>5, Zenon
<1>7. CASE UNCHANGED authVars
  BY Zenon, <1>1, <1>7 DEF authVars, ownAuthVars, PaidSingly, AuthTokens
<1> QED
  BY Zenon, <1>2, <1>3, <1>4, <1>5, <1>6, <1>7 DEF AuthNext

\* However many requests race, the refusals a tick adds are those of one token.
LEMMA RefusableStep ==
    ASSUME AuthInv, [AuthNext]_authVars
    PROVE  refusals' + Refusable' <= Supply'
<1> DEFINE n == Cardinality(AuthRequest)
           k == Cardinality(checking)
           product == n * now
<1>1. /\ AuthTokens \in 0 .. AuthCapacity /\ AuthCapacity \in Nat /\ now \in Nat /\ refusals \in Nat
      /\ checking \subseteq AuthRequest /\ IsFiniteSet(AuthRequest) /\ AuthRequest # {}
  BY Zenon, AuthTokensIs, AuthAssumption DEF AuthInv, AuthBucketOK
<1>2. n \in Nat /\ n # 0
  BY Zenon, <1>1, FS_CardinalityType, FS_EmptySet
<1>3. IsFiniteSet(checking) /\ k \in Nat /\ k <= n
  BY Zenon, <1>1, FS_Subset, FS_CardinalityType
<1>4. product \in Int
  BY <1>1, <1>2
<1>5. /\ Refusable = IF AuthTokens >= 1 THEN AuthTokens - 1 + n ELSE k
      /\ Supply = AuthCapacity + product + n - 1
      /\ refusals + Refusable <= Supply
  BY Zenon DEF AuthInv, Refusable, Supply
<1>6. ASSUME NEW r \in AuthRequest, AuthAllow(r)
      PROVE  refusals' + Refusable' <= Supply'
  <2>1. AuthTokens' = AuthTokens /\ refusals' = refusals /\ now' = now /\ (AuthTokens >= 1 \/ checking' = checking)
    BY Zenon, <1>6, AuthTokensStep DEF AuthAllow
  <2>2. Refusable' = Refusable /\ Supply' = Supply
    BY Zenon, <2>1 DEF Refusable, Supply
  <2> QED
    BY Zenon, <1>5, <2>1, <2>2
<1>7. ASSUME NEW r \in AuthRequest, r \in checking, checking' = checking \ {r}
      PROVE  Cardinality(checking') = k - 1
  BY Zenon, <1>3, <1>7, FS_RemoveElement
<1> HIDE DEF n, k
<1>8. ASSUME NEW r \in AuthRequest, AuthConsume(r)
      PROVE  refusals' + Refusable' <= Supply'
  <2>1. /\ refusals' = refusals + 1 /\ now' = now /\ Cardinality(checking') = k - 1
        /\ AuthTokens' = IF AuthTokens >= 1 THEN AuthTokens - 1 ELSE AuthTokens
    BY Zenon, <1>7, <1>8, AuthTokensStep DEF AuthConsume
  <2>2. Supply' = Supply /\ Refusable' = IF AuthTokens' >= 1 THEN AuthTokens' - 1 + n ELSE k - 1
    BY Zenon, <2>1 DEF Supply, Refusable, n
  <2>3. refusals' + Refusable' <= refusals + Refusable
    BY <1>1, <1>2, <1>3, <1>5, <2>1, <2>2
  <2>4. refusals' + Refusable' \in Int /\ refusals + Refusable \in Int /\ Supply \in Int
    BY <1>1, <1>2, <1>3, <1>4, <1>5, <2>1, <2>2
  <2> QED
    BY <1>5, <2>2, <2>3, <2>4
<1>9. ASSUME NEW r \in AuthRequest, AuthPass(r)
      PROVE  refusals' + Refusable' <= Supply'
  <2>1. /\ refusals' = refusals /\ now' = now /\ Cardinality(checking') = k - 1 /\ AuthTokens' = AuthTokens
    BY Zenon, <1>7, <1>9, AuthTokensStep DEF AuthPass
  <2>2. Supply' = Supply /\ Refusable' = IF AuthTokens >= 1 THEN AuthTokens - 1 + n ELSE k - 1
    BY Zenon, <2>1 DEF Supply, Refusable, n
  <2>3. refusals' + Refusable' <= refusals + Refusable
    BY <1>1, <1>2, <1>3, <1>5, <2>1, <2>2
  <2>4. refusals' + Refusable' \in Int /\ refusals + Refusable \in Int /\ Supply \in Int
    BY <1>1, <1>2, <1>3, <1>4, <1>5, <2>1, <2>2
  <2> QED
    BY <1>5, <2>2, <2>3, <2>4
<1>10. CASE Collect
  <2>1. AuthTokens' = AuthTokens /\ checking' = checking /\ refusals' = refusals /\ now' = now
    BY Zenon, <1>10, AuthTokensStep DEF Collect
  <2> QED
    BY Zenon, <1>5, <2>1 DEF Refusable, Supply
<1>11. CASE AuthTick
  <2>1. AuthTokens' \in AuthTokens .. AuthTokens + 1 /\ now' = now + 1 /\ checking' = checking /\ refusals' = refusals
    BY Zenon, <1>11, AuthTokensStep DEF AuthTick, Advance, ownAuthVars
  <2>2. n * (now + 1) = product + n
    BY <1>1, <1>2
  <2>3. Supply' = AuthCapacity + (product + n) + n - 1
    BY Zenon, <2>1, <2>2 DEF Supply, n
  <2>4. Refusable' = IF AuthTokens' >= 1 THEN AuthTokens' - 1 + n ELSE k
    BY Zenon, <2>1 DEF Refusable, n, k
  <2> HIDE DEF product
  <2>5. Refusable' <= Refusable + n
    <3>1. \A t, c, d \in Nat : \A x \in t .. t + 1 : c <= d /\ d # 0 =>
             (IF x >= 1 THEN x - 1 + d ELSE c) <= (IF t >= 1 THEN t - 1 + d ELSE c) + d
      OBVIOUS
    <3>2. AuthTokens \in Nat
      BY <1>1
    <3> QED
      BY <1>2, <1>3, <1>5, <2>1, <2>4, <3>1, <3>2, Zenon
  <2>6. Supply' = Supply + n /\ Refusable \in Int /\ Refusable' \in Int /\ Supply \in Int
    BY <1>1, <1>2, <1>3, <1>4, <1>5, <2>1, <2>3, <2>4
  <2> QED
    BY <1>1, <1>2, <1>5, <2>1, <2>5, <2>6
<1>12. CASE UNCHANGED authVars
  BY Zenon, <1>5, <1>12 DEF authVars, ownAuthVars, Refusable, Supply, AuthTokens
<1> QED
  BY Zenon, <1>6, <1>8, <1>9, <1>10, <1>11, <1>12 DEF AuthNext

\* An address gets no more failed authentications than the bucket holds and refills, if
\* its requests come one by one; n at a time multiply what refills, and add n - 1.
THEOREM FailuresAreBounded == AuthSpec => []FailuresBound
<1> DEFINE n == Cardinality(AuthRequest)
<1>1. n \in Nat /\ n # 0
  BY Zenon, FS_CardinalityType, FS_EmptySet, AuthAssumption
<1>2. AuthInit => AuthInv
  <2>1. SUFFICES ASSUME AuthInit PROVE AuthInv
    OBVIOUS
  <2>2. /\ authBucket = NewBucket /\ known = FALSE /\ checking = {} /\ refusals = 0
        /\ together = FALSE /\ now = 0 /\ AuthTokens = AuthCapacity /\ AuthCapacity \in Nat
    BY Zenon, <2>1, AuthAssumption DEF AuthInit, AuthTokens
  <2>3. AuthBucketOK
    <3>1. /\ authBucket \in [tokens : 0 .. AuthCapacity, update : Nat, seen : Nat]
          /\ authBucket.update = 0 /\ authBucket.seen = 0
      BY <2>2 DEF NewBucket
    <3>2. 0 \in Nat /\ 0 <= 0
      OBVIOUS
    <3> QED
      BY <2>2, <3>1, <3>2, Zenon DEF AuthBucketOK
  <2>4. PaidSingly
    BY <2>2 DEF PaidSingly
  <2>5. Cardinality(checking) = 0
    BY Zenon, <2>2, FS_EmptySet
  <2>6. refusals + Refusable <= Supply
    <3>1. n * 0 = 0
      BY <1>1
    <3>2. Refusable = IF AuthCapacity >= 1 THEN AuthCapacity - 1 + n ELSE 0
      BY Zenon, <2>2, <2>5 DEF Refusable
    <3>3. Supply = AuthCapacity + 0 + n - 1
      BY Zenon, <2>2, <3>1 DEF Supply
    <3> HIDE DEF n
    <3> QED
      BY <1>1, <2>2, <3>2, <3>3
  <2> QED
    BY Zenon, <2>3, <2>4, <2>6 DEF AuthInv
<1>3. AuthInv /\ [AuthNext]_authVars => AuthInv'
  BY Zenon, AuthBucketStep, PaidSinglyStep, RefusableStep DEF AuthInv
<1>4. AuthInv => FailuresBound
  <2>1. SUFFICES ASSUME AuthInv PROVE FailuresBound
    OBVIOUS
  <2>2. /\ AuthTokens \in 0 .. AuthCapacity /\ AuthCapacity \in Nat /\ now \in Nat /\ refusals \in Nat
    BY Zenon, <2>1, AuthTokensIs, AuthAssumption DEF AuthInv, AuthBucketOK
  <2>3. ~together => refusals <= AuthCapacity + now
    BY <2>1, <2>2 DEF AuthInv, PaidSingly
  <2>4. IsFiniteSet(checking) /\ Cardinality(checking) \in Nat
    BY Zenon, <2>1, FS_Subset, FS_CardinalityType, AuthAssumption DEF AuthInv, AuthBucketOK
  <2>5. Refusable \in Nat
    BY <1>1, <2>2, <2>4 DEF Refusable
  <2>6. Supply \in Int
    BY <1>1, <2>2 DEF Supply
  <2>7. refusals <= Supply
    BY <2>1, <2>2, <2>5, <2>6 DEF AuthInv
  <2> QED
    BY <2>3, <2>7, Zenon DEF FailuresBound, Supply
<1> QED
  BY <1>2, <1>3, <1>4, PTL DEF AuthSpec

\* The limiters on one clock: none admits more than it states.
THEOREM LimitersHold == BucketSpec /\ PoolSpec /\ WindowSpec /\ AuthSpec => []LimitersBounded
<1>1. RateBound /\ OneBudget /\ WindowBounds /\ FailuresBound => LimitersBounded
  BY Zenon DEF LimitersBounded
<1> QED
  BY RateHolds, TenantsHaveOneBudget, WindowsBound, FailuresAreBounded, <1>1, PTL

-----------------------------------------------------------------------------
(***************************************************************************)
(* Grants.  A code is used before a token comes of it, by one request; a   *)
(* request between its statements holds the connection, so that what it    *)
(* has read is still so.                                                   *)
(***************************************************************************)
CodeRow == [client : Client, tenant : Tenant, used : BOOLEAN, expired : BOOLEAN]
TokenRow == [tenant : Tenant \cup {""}, code : 1 .. MaxCodes, revoked : BOOLEAN, expired : BOOLEAN]
RequestState == [at : {"new", "use", "put", "rotate", "done"}, row : Nat,
                 client : Client \cup {""}, ok : BOOLEAN]

GrantTypes ==
    /\ clients \subseteq Client /\ signedIn \in Tenant \cup {""} /\ atIdP \in BOOLEAN
    /\ forms \subseteq [client : Client, tenant : Tenant]
    /\ codes \in Seq(CodeRow) /\ Len(codes) <= MaxCodes /\ refresh \in Seq(TokenRow)
    /\ access \subseteq [tenant : Tenant \cup {""}, code : 1 .. MaxCodes]
    /\ request \in [TokenRequest -> RequestState]
    /\ holder \subseteq TokenRequest

\* A token, and the end of a chain, are of a code that was used.
FromCodes ==
    /\ \A n \in DOMAIN refresh : refresh[n].code \in DOMAIN codes /\ codes[refresh[n].code].used
    /\ \A i \in ended : i \in DOMAIN codes /\ codes[i].used

\* A chain has one live token, or none if it was ended.
OneChain ==
    \A n \in DOMAIN refresh : ~refresh[n].revoked =>
        /\ refresh[n].code \notin ended
        /\ \A m \in DOMAIN refresh : refresh[m].code = refresh[n].code /\ ~refresh[m].revoked => m = n

UsingCode(r) ==
    request[r].at = "use" =>
        /\ holder = {r} /\ request[r].row \in DOMAIN codes
        /\ request[r].ok => ~codes[request[r].row].used

Rotating(r) ==
    request[r].at = "rotate" =>
        /\ holder = {r} /\ request[r].row \in DOMAIN refresh
        /\ request[r].ok => ~refresh[request[r].row].revoked

\* A request that has used its code, and no token has come of it yet.
Putting(r) ==
    request[r].at = "put" =>
        /\ request[r].row \in DOMAIN codes /\ codes[request[r].row].used /\ request[r].row \notin ended
        /\ \A n \in DOMAIN refresh : refresh[n].code # request[r].row
        /\ \A q \in TokenRequest : request[q].at = "put" /\ request[q].row = request[r].row => q = r

Requests == \A r \in TokenRequest : UsingCode(r) /\ Rotating(r) /\ Putting(r)

GrantInv == GrantTypes /\ FromCodes /\ OneChain /\ Requests

\* What Append does to a table.
LEMMA RowAdded ==
    ASSUME NEW S, NEW s \in Seq(S), NEW e \in S
    PROVE  /\ Append(s, e) \in Seq(S) /\ Len(Append(s, e)) = Len(s) + 1
           /\ DOMAIN Append(s, e) = DOMAIN s \cup {Len(s) + 1} /\ Len(s) + 1 \notin DOMAIN s
           /\ Append(s, e)[Len(s) + 1] = e /\ \A i \in DOMAIN s : Append(s, e)[i] = s[i]
OBVIOUS

\* A row of a table.
LEMMA RowOf ==
    ASSUME NEW S, NEW s \in Seq(S), NEW i \in DOMAIN s
    PROVE  s[i] \in S
OBVIOUS

LEMMA RowNumber ==
    ASSUME NEW S, NEW s \in Seq(S)
    PROVE  Len(s) \in Nat /\ \A i \in DOMAIN s : i \in Nat
OBVIOUS

\* What a statement on one row does to a table.
RowPut(s, i, e) == [s EXCEPT ![i] = e]

LEMMA RowChanged ==
    ASSUME NEW S, NEW s \in Seq(S), NEW i \in DOMAIN s, NEW e \in S
    PROVE  /\ RowPut(s, i, e) \in Seq(S) /\ Len(RowPut(s, i, e)) = Len(s)
           /\ DOMAIN RowPut(s, i, e) = DOMAIN s
           /\ RowPut(s, i, e)[i] = e /\ \A j \in DOMAIN s \ {i} : RowPut(s, i, e)[j] = s[j]
BY DEF RowPut

\* Used codes.
LEMMA CodeUsed ==
    ASSUME GrantTypes, NEW i \in DOMAIN codes, codes' = [codes EXCEPT ![i].used = TRUE]
    PROVE  /\ codes' \in Seq(CodeRow) /\ Len(codes') = Len(codes) /\ DOMAIN codes' = DOMAIN codes
           /\ codes'[i].used /\ codes'[i].client = codes[i].client
           /\ \A j \in DOMAIN codes \ {i} : codes'[j] = codes[j]
<1> DEFINE e == [codes[i] EXCEPT !.used = TRUE]
<1>1. codes \in Seq(CodeRow) /\ codes[i] \in CodeRow
  BY Zenon, RowOf DEF GrantTypes
<1>2. e \in CodeRow /\ e.used /\ e.client = codes[i].client
  BY Zenon, <1>1 DEF CodeRow
<1>3. codes' = RowPut(codes, i, e)
  BY Zenon DEF RowPut
<1> HIDE DEF e
<1>4. /\ RowPut(codes, i, e) \in Seq(CodeRow) /\ Len(RowPut(codes, i, e)) = Len(codes)
      /\ DOMAIN RowPut(codes, i, e) = DOMAIN codes
      /\ RowPut(codes, i, e)[i] = e /\ \A j \in DOMAIN codes \ {i} : RowPut(codes, i, e)[j] = codes[j]
  BY <1>1, <1>2, RowChanged
<1> QED BY Zenon, <1>2, <1>3, <1>4

\* Codes whose time has passed.
LEMMA CodeExpired ==
    ASSUME GrantTypes, NEW i \in DOMAIN codes, codes' = [codes EXCEPT ![i].expired = TRUE]
    PROVE  /\ codes' \in Seq(CodeRow) /\ Len(codes') = Len(codes) /\ DOMAIN codes' = DOMAIN codes
           /\ \A j \in DOMAIN codes : codes'[j].used = codes[j].used
<1> DEFINE e == [codes[i] EXCEPT !.expired = TRUE]
<1>1. codes \in Seq(CodeRow) /\ codes[i] \in CodeRow
  BY Zenon, RowOf DEF GrantTypes
<1>2. e \in CodeRow /\ e.used = codes[i].used
  BY Zenon, <1>1 DEF CodeRow
<1>3. codes' = RowPut(codes, i, e)
  BY Zenon DEF RowPut
<1> HIDE DEF e
<1>4. /\ RowPut(codes, i, e) \in Seq(CodeRow) /\ Len(RowPut(codes, i, e)) = Len(codes)
      /\ DOMAIN RowPut(codes, i, e) = DOMAIN codes
      /\ RowPut(codes, i, e)[i] = e /\ \A j \in DOMAIN codes \ {i} : RowPut(codes, i, e)[j] = codes[j]
  BY <1>1, <1>2, RowChanged
<1> QED BY Zenon, <1>2, <1>3, <1>4

\* Tokens that are revoked.
LEMMA TokenRevoked ==
    ASSUME GrantTypes, NEW i \in DOMAIN refresh, NEW kept, kept = [refresh EXCEPT ![i].revoked = TRUE]
    PROVE  /\ kept \in Seq(TokenRow) /\ Len(kept) = Len(refresh) /\ DOMAIN kept = DOMAIN refresh
           /\ kept[i].revoked /\ kept[i].code = refresh[i].code
           /\ \A j \in DOMAIN refresh \ {i} : kept[j] = refresh[j]
<1> DEFINE e == [refresh[i] EXCEPT !.revoked = TRUE]
<1>1. refresh \in Seq(TokenRow) /\ refresh[i] \in TokenRow
  BY Zenon, RowOf DEF GrantTypes
<1>2. e \in TokenRow /\ e.revoked /\ e.code = refresh[i].code
  BY Zenon, <1>1 DEF TokenRow
<1>3. kept = RowPut(refresh, i, e)
  BY Zenon DEF RowPut
<1> HIDE DEF e
<1>4. /\ RowPut(refresh, i, e) \in Seq(TokenRow) /\ Len(RowPut(refresh, i, e)) = Len(refresh)
      /\ DOMAIN RowPut(refresh, i, e) = DOMAIN refresh
      /\ RowPut(refresh, i, e)[i] = e /\ \A j \in DOMAIN refresh \ {i} : RowPut(refresh, i, e)[j] = refresh[j]
  BY <1>1, <1>2, RowChanged
<1> QED BY Zenon, <1>2, <1>3, <1>4

\* Tokens whose time has passed.
LEMMA TokenExpired ==
    ASSUME GrantTypes, NEW i \in DOMAIN refresh, refresh' = [refresh EXCEPT ![i].expired = TRUE]
    PROVE  /\ refresh' \in Seq(TokenRow) /\ DOMAIN refresh' = DOMAIN refresh
           /\ \A j \in DOMAIN refresh : refresh'[j].code = refresh[j].code
                                        /\ refresh'[j].revoked = refresh[j].revoked
<1> DEFINE e == [refresh[i] EXCEPT !.expired = TRUE]
<1>1. refresh \in Seq(TokenRow) /\ refresh[i] \in TokenRow
  BY Zenon, RowOf DEF GrantTypes
<1>2. e \in TokenRow /\ e.code = refresh[i].code /\ e.revoked = refresh[i].revoked
  BY Zenon, <1>1 DEF TokenRow
<1>3. refresh' = RowPut(refresh, i, e)
  BY Zenon DEF RowPut
<1> HIDE DEF e
<1>4. /\ RowPut(refresh, i, e) \in Seq(TokenRow) /\ Len(RowPut(refresh, i, e)) = Len(refresh)
      /\ DOMAIN RowPut(refresh, i, e) = DOMAIN refresh
      /\ RowPut(refresh, i, e)[i] = e /\ \A j \in DOMAIN refresh \ {i} : RowPut(refresh, i, e)[j] = refresh[j]
  BY <1>1, <1>2, RowChanged
<1> QED BY Zenon, <1>2, <1>3, <1>4

\* A request that takes a step, and the others, which do not.
RequestMoves(r, moved) ==
    /\ request' \in [TokenRequest -> RequestState] /\ request'[r] = moved
    /\ \A q \in TokenRequest \ {r} : request'[q] = request[q]

LEMMA RequestStep ==
    ASSUME GrantTypes, NEW r \in TokenRequest, NEW moved \in RequestState,
           request' = [request EXCEPT ![r] = moved]
    PROVE  RequestMoves(r, moved)
BY Zenon DEF GrantTypes, RequestMoves

LEMMA EndedState == Ended \in RequestState /\ Ended.at = "done"
BY Zenon DEF Ended, Waiting, RequestState

\* A request that is about to store the first token of its code.
LEMMA PuttingKept ==
    ASSUME NEW q \in TokenRequest, Putting(q), request'[q] = request[q],
           \A p \in TokenRequest : request'[p].at = "put" => request'[p] = request[p],
           \A i \in DOMAIN codes : codes[i].used => i \in DOMAIN codes' /\ codes'[i].used,
           request[q].row \in ended' => request[q].row \in ended,
           \A n \in DOMAIN refresh' :
               refresh'[n].code # request[q].row \/ (n \in DOMAIN refresh /\ refresh'[n].code = refresh[n].code)
    PROVE  Putting(q)'
<1> SUFFICES ASSUME request[q].at = "put"  PROVE Putting(q)'
  BY Zenon DEF Putting
<1>1. /\ request[q].row \in DOMAIN codes /\ codes[request[q].row].used /\ request[q].row \notin ended
      /\ \A n \in DOMAIN refresh : refresh[n].code # request[q].row
      /\ \A p \in TokenRequest : request[p].at = "put" /\ request[p].row = request[q].row => p = q
  BY Zenon DEF Putting
<1>2. \A p \in TokenRequest : request'[p].at = "put" /\ request'[p].row = request[q].row => p = q
  BY Zenon, <1>1
<1>3. /\ request[q].row \in DOMAIN codes' /\ codes'[request[q].row].used /\ request[q].row \notin ended'
      /\ \A n \in DOMAIN refresh' : refresh'[n].code # request[q].row
  BY Zenon, <1>1
<1> QED BY Zenon, <1>2, <1>3 DEF Putting

\* Registration, sign-in, consent pages.
LEMMA BrowserStep ==
    ASSUME GrantInv, UNCHANGED <<codes, refresh, access, request, holder, ended>>,
           \/ \E c \in Client : DCRHandler(c) \/ HandleAuthorize(c)
           \/ \E t \in Tenant : HandleGoogleCallback(t)
           \/ SessionExpires
    PROVE  GrantInv'
<1>1. GrantTypes'
  <2>1. ASSUME NEW c \in Client, DCRHandler(c)  PROVE GrantTypes'
    BY Zenon, <2>1 DEF DCRHandler, GrantInv, GrantTypes, browser
  <2>2. ASSUME NEW c \in Client, HandleAuthorize(c)  PROVE GrantTypes'
    <3>1. CASE signedIn = ""
      BY Zenon, <2>2, <3>1 DEF HandleAuthorize, GrantInv, GrantTypes
    <3>2. CASE signedIn # ""
      <4>1. signedIn \in Tenant /\ forms' = forms \cup {[client |-> c, tenant |-> signedIn]}
        BY Zenon, <2>2, <3>2 DEF HandleAuthorize, GrantInv, GrantTypes
      <4>2. [client |-> c, tenant |-> signedIn] \in [client : Client, tenant : Tenant]
        BY <4>1
      <4> QED BY Zenon, <2>2, <3>2, <4>1, <4>2 DEF HandleAuthorize, GrantInv, GrantTypes
    <3> QED BY Zenon, <3>1, <3>2
  <2>3. ASSUME NEW t \in Tenant, HandleGoogleCallback(t)  PROVE GrantTypes'
    BY Zenon, <2>3 DEF HandleGoogleCallback, GrantInv, GrantTypes
  <2>4. CASE SessionExpires
    BY Zenon, <2>4 DEF SessionExpires, GrantInv, GrantTypes
  <2> QED BY Zenon, <2>1, <2>2, <2>3, <2>4
<1>2. FromCodes' /\ OneChain' /\ Requests'
  BY Zenon DEF GrantInv, FromCodes, OneChain, Requests, UsingCode, Rotating, Putting
<1> QED BY Zenon, <1>1, <1>2 DEF GrantInv

\* A consent gives a code, which nobody has used.
LEMMA ConfirmStep ==
    ASSUME GrantInv, NEW f \in forms, HandleConfirm(f)
    PROVE  GrantInv'
<1> DEFINE row == [client |-> f.client, tenant |-> f.tenant, used |-> FALSE, expired |-> FALSE]
<1>1. /\ codes' = Append(codes, row) /\ Len(codes) < MaxCodes
      /\ UNCHANGED <<clients, browser, refresh, access, request, holder, ended>>
  BY Zenon DEF HandleConfirm
<1>2. row \in CodeRow
  <2>1. f \in [client : Client, tenant : Tenant]
    BY Zenon DEF GrantInv, GrantTypes
  <2> QED BY <2>1 DEF CodeRow
<1> HIDE DEF row
<1>3. /\ codes' \in Seq(CodeRow) /\ Len(codes') = Len(codes) + 1
      /\ \A i \in DOMAIN codes : i \in DOMAIN codes' /\ codes'[i] = codes[i]
  <2>1. codes \in Seq(CodeRow)
    BY Zenon DEF GrantInv, GrantTypes
  <2> QED BY <1>1, <1>2, <2>1, RowAdded
<1>4. GrantTypes'
  <2>1. Len(codes') <= MaxCodes
    <3>1. Len(codes) \in Nat
      BY Zenon, RowNumber DEF GrantInv, GrantTypes
    <3> QED BY <1>1, <1>3, <3>1, GrantAssumption
  <2> QED BY Zenon, <1>1, <1>3, <2>1 DEF GrantInv, GrantTypes, browser
<1>5. FromCodes' /\ OneChain' /\ Requests'
  BY Zenon, <1>1, <1>3 DEF GrantInv, FromCodes, OneChain, Requests, UsingCode, Rotating, Putting
<1> QED BY Zenon, <1>4, <1>5 DEF GrantInv

\* The SELECTs.  Nobody else is between two statements of a transaction.
LEMMA ReadStep ==
    ASSUME GrantInv, NEW r \in TokenRequest,
           \/ \E i \in DOMAIN codes, c \in Client : ReadCode(r, i, c)
           \/ \E i \in DOMAIN refresh : ReadRefreshToken(r, i)
    PROVE  GrantInv'
<1>1. PICK moved \in RequestState :
         /\ RequestMoves(r, moved) /\ holder = {} /\ holder' = {r}
         /\ moved.at \in {"use", "rotate"}
         /\ moved.at = "use" => moved.row \in DOMAIN codes /\ (moved.ok => ~codes[moved.row].used)
         /\ moved.at = "rotate" => moved.row \in DOMAIN refresh /\ (moved.ok => ~refresh[moved.row].revoked)
         /\ UNCHANGED <<clients, browser, codes, refresh, access, ended>>
  <2>1. ASSUME NEW i \in DOMAIN codes, NEW c \in Client, ReadCode(r, i, c)
        PROVE  \E moved \in RequestState :
                 /\ RequestMoves(r, moved) /\ holder = {} /\ holder' = {r}
                 /\ moved.at = "use" /\ moved.row \in DOMAIN codes /\ (moved.ok => ~codes[moved.row].used)
                 /\ UNCHANGED <<clients, browser, codes, refresh, access, ended>>
    <3> DEFINE moved == [at |-> "use", row |-> i, client |-> c, ok |-> ~codes[i].used /\ ~codes[i].expired]
    <3>1. i \in Nat
      BY Zenon, RowNumber DEF GrantInv, GrantTypes
    <3>2. moved \in RequestState /\ moved.at = "use" /\ moved.row = i /\ (moved.ok => ~codes[i].used)
      BY Zenon, <3>1 DEF RequestState
    <3>3. /\ request' = [request EXCEPT ![r] = moved] /\ holder = {} /\ holder' = {r}
          /\ UNCHANGED <<clients, browser, codes, refresh, access, ended>>
      BY Zenon, <2>1 DEF ReadCode, BeginTx
    <3> HIDE DEF moved
    <3>4. RequestMoves(r, moved)
      BY Zenon, <3>2, <3>3, RequestStep DEF GrantInv
    <3> QED BY Zenon, <3>2, <3>3, <3>4
  <2>2. ASSUME NEW i \in DOMAIN refresh, ReadRefreshToken(r, i)
        PROVE  \E moved \in RequestState :
                 /\ RequestMoves(r, moved) /\ holder = {} /\ holder' = {r}
                 /\ moved.at = "rotate" /\ moved.row \in DOMAIN refresh /\ (moved.ok => ~refresh[moved.row].revoked)
                 /\ UNCHANGED <<clients, browser, codes, refresh, access, ended>>
    <3> DEFINE moved == [at |-> "rotate", row |-> i, client |-> "", ok |-> ~refresh[i].revoked /\ ~refresh[i].expired]
    <3>1. i \in Nat
      BY Zenon, RowNumber DEF GrantInv, GrantTypes
    <3>2. moved \in RequestState /\ moved.at = "rotate" /\ moved.row = i /\ (moved.ok => ~refresh[i].revoked)
      BY Zenon, <3>1 DEF RequestState
    <3>3. /\ request' = [request EXCEPT ![r] = moved] /\ holder = {} /\ holder' = {r}
          /\ UNCHANGED <<clients, browser, codes, refresh, access, ended>>
      BY Zenon, <2>2 DEF ReadRefreshToken, BeginTx
    <3> HIDE DEF moved
    <3>4. RequestMoves(r, moved)
      BY Zenon, <3>2, <3>3, RequestStep DEF GrantInv
    <3> QED BY Zenon, <3>2, <3>3, <3>4
  <2> QED BY <2>1, <2>2
<1>2. GrantTypes'
  BY Zenon, <1>1 DEF GrantInv, GrantTypes, RequestMoves, browser
<1>3. \A q \in TokenRequest \ {r} : request'[q] = request[q] /\ request[q].at \notin {"use", "rotate"}
  BY Zenon, <1>1 DEF GrantInv, Requests, UsingCode, Rotating, RequestMoves
<1>4. Requests'
  <2>1. request'[r].at # "put"
    BY Zenon, <1>1 DEF RequestMoves
  <2>2. UsingCode(r)' /\ Rotating(r)' /\ Putting(r)'
    BY Zenon, <1>1, <2>1 DEF UsingCode, Rotating, Putting, RequestMoves
  <2>3. ASSUME NEW q \in TokenRequest \ {r}  PROVE UsingCode(q)' /\ Rotating(q)' /\ Putting(q)'
    <3>1. UsingCode(q)' /\ Rotating(q)'
      BY Zenon, <1>3, <2>3 DEF UsingCode, Rotating
    <3>2. Putting(q) /\ request'[q] = request[q] /\ UNCHANGED <<codes, refresh, ended>>
      BY Zenon, <1>1, <1>3, <2>3 DEF GrantInv, Requests
    <3>3. \A p \in TokenRequest : request'[p].at = "put" => request'[p] = request[p]
      BY Zenon, <1>3, <2>1
    <3> QED BY Zenon, <3>1, <3>2, <3>3 DEF Putting
  <2> QED BY Zenon, <2>2, <2>3 DEF Requests
<1>5. FromCodes' /\ OneChain'
  BY Zenon, <1>1 DEF GrantInv, FromCodes, OneChain
<1> QED BY Zenon, <1>2, <1>4, <1>5 DEF GrantInv

\* The rest of UseCode.  The code was unused, so no token has come of it.
LEMMA UseStep ==
    ASSUME GrantInv, NEW r \in TokenRequest, UseCode(r)
    PROVE  GrantInv'
<1> DEFINE i == request[r].row
<1>1. /\ request[r].at = "use" /\ holder = {r} /\ holder' = {} /\ i \in DOMAIN codes
      /\ UNCHANGED <<clients, browser, refresh, access, ended>>
      /\ GrantTypes /\ FromCodes /\ OneChain /\ Requests
  BY Zenon DEF UseCode, GrantInv, Requests, UsingCode
<1>2. \A q \in TokenRequest \ {r} : request[q].at \notin {"use", "rotate"}
  BY Zenon, <1>1 DEF Requests, UsingCode, Rotating
<1>3. CASE ~request[r].ok
  <2>1. request' = [request EXCEPT ![r] = Ended] /\ UNCHANGED codes
    BY Zenon, <1>3 DEF UseCode
  <2>2. RequestMoves(r, Ended)
    BY Zenon, <1>1, <2>1, EndedState, RequestStep
  <2>3. GrantTypes'
    BY Zenon, <1>1, <2>1, <2>2 DEF GrantTypes, RequestMoves, browser
  <2>4. \A q \in TokenRequest : request'[q] = request[q] \/ request'[q].at = "done"
    BY Zenon, <2>2, EndedState DEF RequestMoves
  <2>5. \A q \in TokenRequest : request'[q].at \notin {"use", "rotate"}
    BY Zenon, <1>2, <2>2, EndedState DEF RequestMoves
  <2>6. Requests'
    <3>1. \A q \in TokenRequest : UsingCode(q)' /\ Rotating(q)'
      BY Zenon, <2>5 DEF UsingCode, Rotating
    <3>2. \A q \in TokenRequest : request'[q].at = "put" => request'[q] = request[q]
      BY Zenon, <2>4
    <3>3. \A q \in TokenRequest : Putting(q)'
      <4>1. ASSUME NEW q \in TokenRequest, request'[q].at = "put"  PROVE Putting(q)'
        BY Zenon, <1>1, <2>1, <3>2, <4>1, PuttingKept DEF Requests
      <4> QED BY Zenon, <4>1 DEF Putting
    <3> QED BY Zenon, <3>1, <3>3 DEF Requests
  <2>7. FromCodes' /\ OneChain'
    BY Zenon, <1>1, <2>1 DEF FromCodes, OneChain
  <2> QED BY Zenon, <2>3, <2>6, <2>7 DEF GrantInv
<1>4. CASE request[r].ok
  <2>1. /\ codes' = [codes EXCEPT ![i].used = TRUE]
        /\ request' = [request EXCEPT ![r] = IF @.client = codes[i].client
                                             THEN [@ EXCEPT !.at = "put"] ELSE Ended]
    BY Zenon, <1>4 DEF UseCode
  <2>2. ~codes[i].used
    BY Zenon, <1>1, <1>4 DEF Requests, UsingCode
  <2>3. PICK moved \in RequestState :
           /\ RequestMoves(r, moved) /\ moved.at \in {"put", "done"}
           /\ moved.at = "put" => moved.row = i
    <3>1. /\ [request[r] EXCEPT !.at = "put"] \in RequestState
          /\ [request[r] EXCEPT !.at = "put"].at = "put" /\ [request[r] EXCEPT !.at = "put"].row = i
      <4>1. request[r] \in RequestState
        BY Zenon, <1>1 DEF GrantTypes
      <4> QED BY Zenon, <4>1 DEF RequestState
    <3>2. CASE request[r].client = codes[i].client
      <4>1. request' = [request EXCEPT ![r] = [request[r] EXCEPT !.at = "put"]]
        BY <2>1, <3>2
      <4>2. RequestMoves(r, [request[r] EXCEPT !.at = "put"])
        BY Zenon, <1>1, <3>1, <4>1, RequestStep
      <4> QED BY Zenon, <3>1, <4>2
    <3>3. CASE request[r].client # codes[i].client
      <4>1. request' = [request EXCEPT ![r] = Ended]
        BY <2>1, <3>3
      <4> QED BY Zenon, <1>1, <4>1, EndedState, RequestStep
    <3> QED BY Zenon, <3>2, <3>3
  <2> HIDE DEF i
  <2>4. /\ codes' \in Seq(CodeRow) /\ Len(codes') = Len(codes) /\ DOMAIN codes' = DOMAIN codes
        /\ codes'[i].used /\ \A j \in DOMAIN codes \ {i} : codes'[j] = codes[j]
    BY Zenon, <1>1, <2>1, CodeUsed
  <2>5. GrantTypes'
    BY Zenon, <1>1, <2>3, <2>4 DEF GrantTypes, RequestMoves, browser
  <2>6. \A j \in DOMAIN codes : codes[j].used => codes'[j].used
    BY Zenon, <2>4
  <2>7. FromCodes' /\ OneChain'
    BY Zenon, <1>1, <2>4, <2>6 DEF FromCodes, OneChain
  <2>8. \A q \in TokenRequest : request[q].at = "put" => request[q].row # i
    BY Zenon, <1>1, <2>2 DEF Requests, Putting
  <2>9. i \notin ended /\ \A n \in DOMAIN refresh : refresh[n].code # i
    BY Zenon, <1>1, <2>2 DEF FromCodes
  <2>10. ASSUME NEW q \in TokenRequest, request'[q].at = "put"  PROVE Putting(q)'
    <3>1. CASE q = r
      <4>1. request'[q].row = i
        BY Zenon, <2>3, <2>10, <3>1 DEF RequestMoves
      <4>2. \A p \in TokenRequest : request'[p].at = "put" /\ request'[p].row = i => p = q
        BY Zenon, <2>3, <2>8, <3>1 DEF RequestMoves
      <4> QED BY Zenon, <1>1, <2>4, <2>9, <4>1, <4>2 DEF Putting
    <3>2. CASE q # r
      <4>1. request'[q] = request[q] /\ Putting(q) /\ request[q].row # i
        BY Zenon, <1>1, <2>3, <2>8, <2>10, <3>2 DEF RequestMoves, Requests
      <4>2. \A p \in TokenRequest : request'[p].at = "put" /\ request'[p].row # i => request'[p] = request[p]
        BY Zenon, <2>3 DEF RequestMoves
      <4> QED BY Zenon, <1>1, <2>4, <2>6, <2>10, <4>1, <4>2 DEF Putting
    <3> QED BY Zenon, <3>1, <3>2
  <2>11. \A q \in TokenRequest : request'[q].at \notin {"use", "rotate"}
    BY Zenon, <1>2, <2>3 DEF RequestMoves
  <2>12. Requests'
    <3>1. \A q \in TokenRequest : UsingCode(q)' /\ Rotating(q)'
      BY Zenon, <2>11 DEF UsingCode, Rotating
    <3>2. \A q \in TokenRequest : Putting(q)'
      BY Zenon, <2>10 DEF Putting
    <3> QED BY Zenon, <3>1, <3>2 DEF Requests
  <2> QED BY Zenon, <2>5, <2>7, <2>12 DEF GrantInv
<1> QED BY Zenon, <1>3, <1>4

\* PutRefreshToken: the first token of its code.
LEMMA PutStep ==
    ASSUME GrantInv, NEW r \in TokenRequest, PutRefreshToken(r)
    PROVE  GrantInv'
<1> DEFINE i == request[r].row
           row == [tenant |-> codes[i].tenant, code |-> i, revoked |-> FALSE, expired |-> FALSE]
<1>1. /\ request[r].at = "put" /\ holder = {} /\ i \in DOMAIN codes
      /\ refresh' = Append(refresh, row)
      /\ access' = access \cup {[tenant |-> codes[i].tenant, code |-> i]}
      /\ request' = [request EXCEPT ![r] = Ended]
      /\ UNCHANGED <<clients, browser, codes, holder, ended>>
      /\ GrantTypes /\ FromCodes /\ OneChain /\ Requests
  BY Zenon DEF PutRefreshToken, Issue, GrantInv, Requests, Putting
<1>2. /\ codes[i].used /\ i \notin ended /\ \A n \in DOMAIN refresh : refresh[n].code # i
      /\ \A q \in TokenRequest \ {r} : request[q].at = "put" => request[q].row # i
  BY Zenon, <1>1 DEF Requests, Putting
<1>3. RequestMoves(r, Ended)
  BY Zenon, <1>1, EndedState, RequestStep
<1>4. /\ i \in 1 .. MaxCodes /\ codes[i].tenant \in Tenant
      /\ [tenant |-> codes[i].tenant, code |-> i] \in [tenant : Tenant \cup {""}, code : 1 .. MaxCodes]
      /\ row \in TokenRow /\ row.code = i
  <2>1. codes \in Seq(CodeRow) /\ Len(codes) <= MaxCodes
    BY Zenon, <1>1 DEF GrantTypes
  <2> HIDE DEF i
  <2>2. codes[i] \in CodeRow
    BY <1>1, <2>1, RowOf
  <2>3. codes[i].tenant \in Tenant
    BY <2>2 DEF CodeRow
  <2>4. i \in 1 .. MaxCodes
    BY <1>1, <2>1, GrantAssumption
  <2> QED BY Zenon, <2>3, <2>4 DEF TokenRow
<1> HIDE DEF i, row
<1>5. /\ refresh' \in Seq(TokenRow) /\ DOMAIN refresh' = DOMAIN refresh \cup {Len(refresh) + 1}
      /\ Len(refresh) + 1 \notin DOMAIN refresh
      /\ refresh'[Len(refresh) + 1] = row /\ \A n \in DOMAIN refresh : refresh'[n] = refresh[n]
  <2>1. refresh \in Seq(TokenRow)
    BY Zenon, <1>1 DEF GrantTypes
  <2>2. refresh' = Append(refresh, row) /\ row \in TokenRow
    BY Zenon, <1>1, <1>4
  <2> QED BY <2>1, <2>2, RowAdded
<1>6. GrantTypes'
  BY Zenon, <1>1, <1>3, <1>4, <1>5 DEF GrantTypes, RequestMoves, browser
<1>7. FromCodes'
  BY Zenon, <1>1, <1>2, <1>4, <1>5 DEF FromCodes
<1>8. OneChain'
  <2>1. \A n \in DOMAIN refresh' : IF n = Len(refresh) + 1 THEN refresh'[n].code = i
                                   ELSE n \in DOMAIN refresh /\ refresh'[n] = refresh[n]
    BY Zenon, <1>4, <1>5
  <2>2. ASSUME NEW n \in DOMAIN refresh', ~refresh'[n].revoked
        PROVE  /\ refresh'[n].code \notin ended
               /\ \A m \in DOMAIN refresh' : refresh'[m].code = refresh'[n].code /\ ~refresh'[m].revoked => m = n
    <3>1. CASE n = Len(refresh) + 1
      BY Zenon, <1>2, <2>1, <3>1
    <3>2. CASE n # Len(refresh) + 1
      <4>1. n \in DOMAIN refresh /\ refresh'[n] = refresh[n]
        BY Zenon, <2>1, <3>2
      <4>2. /\ refresh[n].code \notin ended
            /\ \A m \in DOMAIN refresh : refresh[m].code = refresh[n].code /\ ~refresh[m].revoked => m = n
        BY Zenon, <1>1, <2>2, <4>1 DEF OneChain
      <4> QED BY Zenon, <1>2, <2>1, <4>1, <4>2
    <3> QED BY Zenon, <3>1, <3>2
  <2> QED BY Zenon, <1>1, <2>2 DEF OneChain
<1>9. Requests'
  <2>1. \A q \in TokenRequest : request'[q].at \notin {"use", "rotate"}
    BY Zenon, <1>1, <1>3, EndedState DEF Requests, UsingCode, Rotating, RequestMoves
  <2>2. \A q \in TokenRequest : request'[q].at = "put" => request'[q] = request[q] /\ request[q].row # i
    BY Zenon, <1>2, <1>3, EndedState DEF RequestMoves
  <2>3. \A q \in TokenRequest : UsingCode(q)' /\ Rotating(q)'
    BY Zenon, <2>1 DEF UsingCode, Rotating
  <2>4. \A q \in TokenRequest : Putting(q)'
    <3>1. \A n \in DOMAIN refresh' : IF n = Len(refresh) + 1 THEN refresh'[n].code = i
                                     ELSE n \in DOMAIN refresh /\ refresh'[n] = refresh[n]
      BY Zenon, <1>4, <1>5
    <3>2. ASSUME NEW q \in TokenRequest, request'[q].at = "put"  PROVE Putting(q)'
      BY Zenon, <1>1, <2>2, <3>1, <3>2, PuttingKept DEF Requests
    <3> QED BY Zenon, <3>2 DEF Putting
  <2> QED BY Zenon, <2>3, <2>4 DEF Requests
<1> QED BY Zenon, <1>6, <1>7, <1>8, <1>9 DEF GrantInv

\* RotateRefreshToken: the new token takes the place of the one that was live.
LEMMA RotateTokenStep ==
    ASSUME GrantInv, NEW r \in TokenRequest, RotateRefreshToken(r)
    PROVE  GrantInv'
<1> DEFINE i == request[r].row
           kept == [refresh EXCEPT ![i].revoked = TRUE]
           c == refresh[i].code
           row == [tenant |-> "", code |-> c, revoked |-> FALSE, expired |-> FALSE]
<1>1. /\ request[r].at = "rotate" /\ holder = {r} /\ holder' = {} /\ i \in DOMAIN refresh
      /\ UNCHANGED <<clients, browser, codes, ended>>
      /\ GrantTypes /\ FromCodes /\ OneChain /\ Requests
  BY Zenon DEF RotateRefreshToken, GrantInv, Requests, Rotating
<1>2. \A q \in TokenRequest \ {r} : request[q].at \notin {"use", "rotate"}
  BY Zenon, <1>1 DEF Requests, UsingCode, Rotating
<1>3. request' = [request EXCEPT ![r] = Ended]
  BY Zenon DEF RotateRefreshToken, Issue
<1>4. RequestMoves(r, Ended)
  BY Zenon, <1>1, <1>3, EndedState, RequestStep
<1>5. \A q \in TokenRequest : request'[q].at \notin {"use", "rotate"}
  BY Zenon, <1>2, <1>4, EndedState DEF RequestMoves
<1>6. \A q \in TokenRequest : request'[q].at = "put" => request'[q] = request[q]
  BY Zenon, <1>4, EndedState DEF RequestMoves
<1>7. \A q \in TokenRequest : UsingCode(q)' /\ Rotating(q)'
  BY Zenon, <1>5 DEF UsingCode, Rotating
<1>8. CASE ~request[r].ok
  <2>1. UNCHANGED <<refresh, access>>
    BY Zenon, <1>8 DEF RotateRefreshToken
  <2>2. GrantTypes'
    BY Zenon, <1>1, <1>4, <2>1 DEF GrantTypes, RequestMoves, browser
  <2>3. FromCodes' /\ OneChain'
    BY Zenon, <1>1, <2>1 DEF FromCodes, OneChain
  <2>4. \A q \in TokenRequest : Putting(q)'
    BY ZenonT(40), <1>1, <1>6, <2>1 DEF Requests, Putting
  <2> QED BY Zenon, <1>7, <2>2, <2>3, <2>4 DEF GrantInv, Requests
<1>9. CASE request[r].ok
  <2>1. /\ refresh' = Append(kept, row)
        /\ access' = access \cup {[tenant |-> "", code |-> c]}
    BY Zenon, <1>9 DEF RotateRefreshToken, Issue
  <2>2. ~refresh[i].revoked
    BY Zenon, <1>1, <1>9 DEF Requests, Rotating
  <2>3. c \in DOMAIN codes /\ codes[c].used /\ c \notin ended
        /\ \A m \in DOMAIN refresh : refresh[m].code = c /\ ~refresh[m].revoked => m = i
    BY Zenon, <1>1, <2>2 DEF FromCodes, OneChain
  <2>4. c \in 1 .. MaxCodes
    <3>1. refresh[i] \in TokenRow
      BY Zenon, <1>1, RowOf DEF GrantTypes
    <3> QED BY Zenon, <3>1 DEF TokenRow
  <2> HIDE DEF c
  <2>5. [tenant |-> "", code |-> c] \in [tenant : Tenant \cup {""}, code : 1 .. MaxCodes]
        /\ row \in TokenRow /\ row.code = c
    BY <2>4 DEF TokenRow
  <2>6. refresh[i].code = c /\ kept = [refresh EXCEPT ![i].revoked = TRUE]
    BY Zenon DEF c
  <2> HIDE DEF row, kept, i
  <2>7. /\ kept \in Seq(TokenRow) /\ Len(kept) = Len(refresh) /\ DOMAIN kept = DOMAIN refresh
        /\ kept[i].revoked /\ kept[i].code = c
        /\ \A j \in DOMAIN refresh \ {i} : kept[j] = refresh[j]
    BY Zenon, <1>1, <2>6, TokenRevoked
  <2>8. /\ refresh' \in Seq(TokenRow) /\ DOMAIN refresh' = DOMAIN refresh \cup {Len(refresh) + 1}
        /\ Len(refresh) + 1 \notin DOMAIN refresh
        /\ refresh'[Len(refresh) + 1] = row /\ \A n \in DOMAIN refresh : refresh'[n] = kept[n]
    <3>1. refresh' = Append(kept, row) /\ row \in TokenRow /\ kept \in Seq(TokenRow)
      BY Zenon, <2>1, <2>5, <2>7
    <3>2. /\ refresh' \in Seq(TokenRow) /\ DOMAIN refresh' = DOMAIN kept \cup {Len(kept) + 1}
          /\ Len(kept) + 1 \notin DOMAIN kept
          /\ refresh'[Len(kept) + 1] = row /\ \A n \in DOMAIN kept : refresh'[n] = kept[n]
      BY <3>1, RowAdded
    <3> QED BY Zenon, <2>7, <3>2
  <2>9. /\ \A n \in DOMAIN refresh' : refresh'[n].code = c \/ (n \in DOMAIN refresh \ {i} /\ refresh'[n] = refresh[n])
        /\ \A n \in DOMAIN refresh' : ~refresh'[n].revoked =>
              \/ n = Len(refresh) + 1 /\ refresh'[n].code = c
              \/ n \in DOMAIN refresh \ {i} /\ refresh'[n] = refresh[n]
    <3>1. ASSUME NEW n \in DOMAIN refresh'
          PROVE  \/ n = Len(refresh) + 1 /\ refresh'[n].code = c
                 \/ n = i /\ refresh'[n].revoked /\ refresh'[n].code = c
                 \/ n \in DOMAIN refresh \ {i} /\ refresh'[n] = refresh[n]
      BY Zenon, <2>5, <2>7, <2>8, <3>1
    <3>2. ASSUME NEW n \in DOMAIN refresh'
          PROVE  refresh'[n].code = c \/ (n \in DOMAIN refresh \ {i} /\ refresh'[n] = refresh[n])
      BY Zenon, <3>1, <3>2
    <3>3. ASSUME NEW n \in DOMAIN refresh', ~refresh'[n].revoked
          PROVE  \/ n = Len(refresh) + 1 /\ refresh'[n].code = c
                 \/ n \in DOMAIN refresh \ {i} /\ refresh'[n] = refresh[n]
      BY Zenon, <3>1, <3>3
    <3> QED BY Zenon, <3>2, <3>3
  <2>10. GrantTypes'
    BY Zenon, <1>1, <1>4, <2>1, <2>5, <2>8 DEF GrantTypes, RequestMoves, browser
  <2>11. FromCodes'
    BY Zenon, <1>1, <2>3, <2>9 DEF FromCodes
  <2>12. OneChain'
    <3>1. ASSUME NEW n \in DOMAIN refresh', ~refresh'[n].revoked
          PROVE  /\ refresh'[n].code \notin ended
                 /\ \A m \in DOMAIN refresh' : refresh'[m].code = refresh'[n].code /\ ~refresh'[m].revoked => m = n
      <4>1. CASE n = Len(refresh) + 1 /\ refresh'[n].code = c
        BY Zenon, <2>3, <2>9, <4>1
      <4>2. CASE n \in DOMAIN refresh \ {i} /\ refresh'[n] = refresh[n]
        <5>1. /\ refresh[n].code \notin ended /\ refresh[n].code # c
              /\ \A m \in DOMAIN refresh : refresh[m].code = refresh[n].code /\ ~refresh[m].revoked => m = n
          BY Zenon, <1>1, <2>3, <3>1, <4>2 DEF OneChain
        <5> QED BY Zenon, <2>9, <4>2, <5>1
      <4> QED BY Zenon, <2>9, <3>1, <4>1, <4>2
    <3> QED BY Zenon, <1>1, <3>1 DEF OneChain
  <2>13. \A q \in TokenRequest : Putting(q)'
    <3>1. \A q \in TokenRequest : request[q].at = "put" => request[q].row # c
      BY Zenon, <1>1, <2>6 DEF Requests, Putting
    <3>2. \A n \in DOMAIN refresh' : refresh'[n].code = c \/ (n \in DOMAIN refresh /\ refresh'[n] = refresh[n])
      BY Zenon, <2>9
    <3>3. ASSUME NEW q \in TokenRequest, request'[q].at = "put"  PROVE Putting(q)'
      BY Zenon, <1>1, <1>6, <3>1, <3>2, <3>3, PuttingKept DEF Requests
    <3> QED BY Zenon, <3>3 DEF Putting
  <2> QED BY Zenon, <1>7, <2>10, <2>11, <2>12, <2>13 DEF GrantInv, Requests
<1> QED BY Zenon, <1>8, <1>9

\* An open transaction is rolled back; a request that has used its code gets nothing for it.
LEMMA FailStep ==
    ASSUME GrantInv, NEW r \in TokenRequest, RequestFails(r)
    PROVE  GrantInv'
<1>1. /\ request' = [request EXCEPT ![r] = Ended] /\ holder' = holder \ {r}
      /\ UNCHANGED <<clients, browser, codes, refresh, access, ended>>
      /\ GrantTypes /\ FromCodes /\ OneChain /\ Requests
  BY Zenon DEF RequestFails, GrantInv
<1>2. RequestMoves(r, Ended)
  BY Zenon, <1>1, EndedState, RequestStep
<1>3. GrantTypes'
  BY Zenon, <1>1, <1>2 DEF GrantTypes, RequestMoves, browser
<1>4. FromCodes' /\ OneChain'
  BY Zenon, <1>1 DEF FromCodes, OneChain
<1>5. \A q \in TokenRequest : request'[q].at # "done" => q # r /\ request'[q] = request[q]
  BY Zenon, <1>2, EndedState DEF RequestMoves
<1>6. ASSUME NEW q \in TokenRequest  PROVE UsingCode(q)' /\ Rotating(q)' /\ Putting(q)'
  <2>1. CASE request'[q].at = "done"
    BY Zenon, <2>1 DEF UsingCode, Rotating, Putting
  <2>2. CASE request'[q].at # "done"
    <3>1. q # r /\ request'[q] = request[q] /\ UsingCode(q) /\ Rotating(q) /\ Putting(q)
      BY Zenon, <1>1, <1>5, <2>2 DEF Requests
    <3>2. holder = {q} => holder' = {q}
      BY Zenon, <1>1, <3>1
    <3>3. UsingCode(q)' /\ Rotating(q)'
      BY Zenon, <1>1, <3>1, <3>2 DEF UsingCode, Rotating
    <3>4. \A p \in TokenRequest : request'[p].at = "put" => request'[p] = request[p]
      BY Zenon, <1>5
    <3>5. Putting(q)'
      BY Zenon, <1>1, <3>1, <3>4, PuttingKept
    <3> QED BY Zenon, <3>3, <3>5
  <2> QED BY Zenon, <2>1, <2>2
<1> QED BY Zenon, <1>3, <1>4, <1>6 DEF GrantInv, Requests

\* RevokeRefreshToken ends a chain if the token was live.
LEMMA RevokeStep ==
    ASSUME GrantInv, NEW i \in DOMAIN refresh, RevokeRefreshToken(i)
    PROVE  GrantInv'
<1> DEFINE c == refresh[i].code
<1>1. /\ holder = {} /\ refresh' = [refresh EXCEPT ![i].revoked = TRUE]
      /\ ended' = IF refresh[i].revoked THEN ended ELSE ended \cup {c}
      /\ UNCHANGED <<clients, browser, codes, access, request, holder>>
      /\ GrantTypes /\ FromCodes /\ OneChain /\ Requests
  BY Zenon DEF RevokeRefreshToken, GrantInv
<1>2. /\ refresh' \in Seq(TokenRow) /\ DOMAIN refresh' = DOMAIN refresh
      /\ refresh'[i].revoked /\ refresh'[i].code = c
      /\ \A j \in DOMAIN refresh \ {i} : refresh'[j] = refresh[j]
  <2> DEFINE kept == [refresh EXCEPT ![i].revoked = TRUE]
  <2>1. refresh' = kept
    BY Zenon, <1>1
  <2>2. /\ kept \in Seq(TokenRow) /\ DOMAIN kept = DOMAIN refresh
        /\ kept[i].revoked /\ kept[i].code = refresh[i].code
        /\ \A j \in DOMAIN refresh \ {i} : kept[j] = refresh[j]
    BY Zenon, <1>1, TokenRevoked
  <2> QED BY Zenon, <2>1, <2>2
<1>3. GrantTypes'
  BY Zenon, <1>1, <1>2 DEF GrantTypes, browser
<1>4. \A n \in DOMAIN refresh' : n \in DOMAIN refresh /\ refresh'[n].code = refresh[n].code
  BY Zenon, <1>2
<1>5. \A n \in DOMAIN refresh' : ~refresh'[n].revoked => n # i /\ ~refresh[n].revoked
  BY Zenon, <1>2
<1>6. FromCodes'
  BY Zenon, <1>1, <1>4 DEF FromCodes
<1>7. OneChain'
  <2>1. ASSUME NEW n \in DOMAIN refresh', ~refresh'[n].revoked
        PROVE  /\ refresh'[n].code \notin ended'
               /\ \A m \in DOMAIN refresh' : refresh'[m].code = refresh'[n].code /\ ~refresh'[m].revoked => m = n
    <3>1. /\ n # i /\ ~refresh[n].revoked /\ refresh[n].code \notin ended
          /\ \A m \in DOMAIN refresh : refresh[m].code = refresh[n].code /\ ~refresh[m].revoked => m = n
      BY Zenon, <1>1, <1>4, <1>5, <2>1 DEF OneChain
    <3>2. ~refresh[i].revoked => refresh[n].code # c
      BY Zenon, <3>1
    <3> QED BY Zenon, <1>1, <1>4, <1>5, <2>1, <3>1, <3>2
  <2> QED BY Zenon, <2>1 DEF OneChain
<1>8. ASSUME NEW q \in TokenRequest  PROVE UsingCode(q)' /\ Rotating(q)' /\ Putting(q)'
  <2>1. UsingCode(q) /\ Rotating(q) /\ Putting(q)
    BY Zenon, <1>1 DEF Requests
  <2>2. UsingCode(q)' /\ Rotating(q)'
    BY Zenon, <1>1, <2>1 DEF UsingCode, Rotating
  <2>3. CASE request[q].at = "put"
    <3>1. request[q].row \in ended' => request[q].row \in ended
      BY Zenon, <1>1, <2>1, <2>3 DEF Putting
    <3> QED BY Zenon, <1>1, <1>4, <2>1, <2>2, <3>1, PuttingKept
  <2>4. CASE request[q].at # "put"
    BY Zenon, <1>1, <2>2, <2>4 DEF Putting
  <2> QED BY Zenon, <2>3, <2>4
<1> QED BY Zenon, <1>3, <1>6, <1>7, <1>8 DEF GrantInv, Requests

\* Deadlines pass; what is used or revoked stays so.
LEMMA ExpiryStep ==
    ASSUME GrantInv, GrantExpires
    PROVE  GrantInv'
<1>1. /\ UNCHANGED <<clients, browser, access, request, holder, ended>>
      /\ GrantTypes /\ FromCodes /\ OneChain /\ Requests
  BY Zenon DEF GrantExpires, GrantInv
<1>2. /\ codes' \in Seq(CodeRow) /\ Len(codes') = Len(codes) /\ DOMAIN codes' = DOMAIN codes
      /\ \A j \in DOMAIN codes : codes'[j].used = codes[j].used
      /\ refresh' \in Seq(TokenRow) /\ DOMAIN refresh' = DOMAIN refresh
      /\ \A j \in DOMAIN refresh : refresh'[j].code = refresh[j].code
                                   /\ refresh'[j].revoked = refresh[j].revoked
  <2>1. ASSUME NEW i \in DOMAIN codes, codes' = [codes EXCEPT ![i].expired = TRUE], UNCHANGED refresh
        PROVE  <1>2!:
    BY Zenon, <1>1, <2>1, CodeExpired DEF GrantTypes
  <2>2. ASSUME NEW i \in DOMAIN refresh, refresh' = [refresh EXCEPT ![i].expired = TRUE], UNCHANGED codes
        PROVE  <1>2!:
    BY Zenon, <1>1, <2>2, TokenExpired DEF GrantTypes
  <2> QED BY Zenon, <2>1, <2>2 DEF GrantExpires
<1>3. GrantTypes'
  BY Zenon, <1>1, <1>2 DEF GrantTypes, browser
<1>4. FromCodes' /\ OneChain'
  BY Zenon, <1>1, <1>2 DEF FromCodes, OneChain
<1>5. ASSUME NEW q \in TokenRequest  PROVE UsingCode(q)' /\ Rotating(q)' /\ Putting(q)'
  <2>1. UsingCode(q) /\ Rotating(q) /\ Putting(q)
    BY Zenon, <1>1 DEF Requests
  <2>2. UsingCode(q)' /\ Rotating(q)'
    BY Zenon, <1>1, <1>2, <2>1 DEF UsingCode, Rotating
  <2>3. Putting(q)'
    BY Zenon, <1>1, <1>2, <2>1, PuttingKept
  <2> QED BY Zenon, <2>2, <2>3
<1> QED BY Zenon, <1>3, <1>4, <1>5 DEF GrantInv, Requests

\* However codes and refresh tokens are presented, again and at the same time, and
\* wherever a request fails, a consent is good for one chain of refresh tokens, of which
\* one at most is live, and none once the client has revoked it.  pkg/oauth and
\* pkg/billing/oauth_store.go: UseCode, RotateRefreshToken, RevokeRefreshToken.
THEOREM GrantsWorkOnce == GrantSpec => [](GrantTypeOK /\ GrantsOnce)
<1>1. GrantInit => GrantInv
  <2> SUFFICES ASSUME GrantInit PROVE GrantInv
    OBVIOUS
  <2>1. Waiting \in RequestState /\ Waiting.at = "new"
    BY DEF Waiting, RequestState
  <2>2. /\ codes = <<>> /\ refresh = <<>> /\ request \in [TokenRequest -> RequestState]
        /\ \A r \in TokenRequest : request[r].at = "new"
        /\ holder = {} /\ ended = {} /\ clients = {} /\ signedIn = "" /\ atIdP = FALSE /\ forms = {}
        /\ access = {}
    BY Zenon, <2>1 DEF GrantInit
  <2>3. /\ codes \in Seq(CodeRow) /\ Len(codes) <= MaxCodes /\ refresh \in Seq(TokenRow)
        /\ DOMAIN refresh = {}
    <3>1. codes = <<>> /\ refresh = <<>>
      BY Zenon, <2>2
    <3> QED BY <3>1, GrantAssumption
  <2>4. GrantTypes
    BY Zenon, <2>2, <2>3 DEF GrantTypes
  <2>5. FromCodes /\ OneChain
    BY Zenon, <2>2, <2>3 DEF FromCodes, OneChain
  <2>6. Requests
    BY Zenon, <2>2 DEF Requests, UsingCode, Rotating, Putting
  <2> QED BY Zenon, <2>4, <2>5, <2>6 DEF GrantInv
<1>2. GrantInv /\ [GrantNext]_grantVars => GrantInv'
  <2> SUFFICES ASSUME GrantInv, [GrantNext]_grantVars PROVE GrantInv'
    OBVIOUS
  <2>1. CASE UNCHANGED grantVars
    BY Zenon, <2>1 DEF grantVars, GrantInv, GrantTypes, FromCodes, OneChain, Requests, UsingCode, Rotating, Putting
  <2>2. CASE \/ \E c \in Client : DCRHandler(c) \/ HandleAuthorize(c)
             \/ \E t \in Tenant : HandleGoogleCallback(t)
             \/ SessionExpires
    <3>1. UNCHANGED <<codes, refresh, access, request, holder, ended>>
      BY Zenon, <2>2 DEF DCRHandler, HandleAuthorize, HandleGoogleCallback, SessionExpires
    <3> QED BY Zenon, <2>2, <3>1, BrowserStep
  <2>3. ASSUME NEW f \in forms, HandleConfirm(f)  PROVE GrantInv'
    BY Zenon, <2>3, ConfirmStep
  <2>4. ASSUME NEW r \in TokenRequest,
               \/ \E i \in DOMAIN codes, c \in Client : ReadCode(r, i, c)
               \/ \E i \in DOMAIN refresh : ReadRefreshToken(r, i)
        PROVE  GrantInv'
    BY Zenon, <2>4, ReadStep
  <2>5. ASSUME NEW r \in TokenRequest,
               UseCode(r) \/ PutRefreshToken(r) \/ RotateRefreshToken(r) \/ RequestFails(r)
        PROVE  GrantInv'
    BY Zenon, <2>5, UseStep, PutStep, RotateTokenStep, FailStep
  <2>6. ASSUME NEW i \in DOMAIN refresh, RevokeRefreshToken(i)  PROVE GrantInv'
    BY Zenon, <2>6, RevokeStep
  <2>7. CASE GrantExpires
    BY Zenon, <2>7, ExpiryStep
  <2> QED BY Zenon, <2>1, <2>2, <2>3, <2>4, <2>5, <2>6, <2>7 DEF GrantNext
<1>3. GrantInv => GrantTypeOK /\ GrantsOnce
  <2> SUFFICES ASSUME GrantInv PROVE GrantTypeOK /\ GrantsOnce
    OBVIOUS
  <2>1. GrantTypes /\ FromCodes /\ OneChain
    BY Zenon DEF GrantInv
  <2>2. ended \subseteq 1 .. MaxCodes
    <3>1. codes \in Seq(CodeRow) /\ Len(codes) <= MaxCodes /\ \A i \in ended : i \in DOMAIN codes
      BY Zenon, <2>1 DEF GrantTypes, FromCodes
    <3> QED BY <3>1, GrantAssumption
  <2>3. GrantTypeOK
    BY Zenon, <2>1, <2>2 DEF GrantTypeOK, GrantTypes, CodeRow, TokenRow, RequestState
  <2>4. GrantsOnce
    BY Zenon, <2>1 DEF GrantsOnce, OneChain, Live
  <2> QED BY Zenon, <2>3, <2>4
<1> QED BY <1>1, <1>2, <1>3, PTL DEF GrantSpec
=============================================================================
