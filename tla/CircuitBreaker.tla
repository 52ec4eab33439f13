--------------------------- MODULE CircuitBreaker ---------------------------
(***************************************************************************)
(* messaging.CircuitBreaker: callers run functions through Execute, which  *)
(* asks allowRequest, runs the function without the lock, and records the  *)
(* result.  A call may therefore be recorded in another state than the one *)
(* it was admitted in.                                                     *)
(*                                                                         *)
(* Time is the age of the last failure, which the code compares with       *)
(* resetTimeout and nothing else.  Counters stop where the code can no     *)
(* longer tell them apart (Up).                                            *)
(***************************************************************************)
EXTENDS Integers

CONSTANTS
    Caller,        \* goroutines that call Execute
    MaxFailures,   \* CircuitBreakerConfig
    ResetTimeout,
    HalfOpenMax,
    Resets         \* how often an operator may call Reset

ASSUME BreakerAssumption ==
    /\ MaxFailures \in Nat \ {0}
    /\ HalfOpenMax \in Nat \ {0}
    /\ ResetTimeout \in Nat
    /\ Resets \in Nat

VARIABLES
    state, failures, successes,   \* CircuitBreaker
    age,       \* time since lastFailure
    call,      \* per caller: not in Execute, or inside a function that will
               \* succeed or fail
    backend,   \* whether calls that start now may fail
    oks, fails,  \* history: the length of the run of successes, or failures,
                 \* that was recorded last
    resets     \* history: how often Reset was called

breaker == <<state, failures, successes>>
breakerVars == <<state, failures, successes, age, call, backend, oks, fails, resets>>

BreakerTypeOK ==
    /\ state \in {"Closed", "Open", "HalfOpen"}
    /\ failures \in 0..MaxFailures
    /\ successes \in 0..HalfOpenMax
    /\ age \in 0..(ResetTimeout + 1)
    /\ call \in [Caller -> {"out", "ok", "err"}]
    /\ backend \in {"flaky", "healthy"}
    /\ oks \in 0..HalfOpenMax
    /\ fails \in 0..MaxFailures
    /\ resets \in 0..Resets

Up(n, max) == IF n < max THEN n + 1 ELSE n

BreakerInit ==
    /\ state = "Closed"
    /\ failures = 0
    /\ successes = 0
    /\ age = ResetTimeout + 1   \* lastFailure is the zero time
    /\ call = [c \in Caller |-> "out"]
    /\ backend = "flaky"
    /\ oks = 0
    /\ fails = 0
    /\ resets = 0

\* Mutant: lets a trial call through and stays open.
allowRequestStaysOpen ==
    /\ state # "Open" \/ age > ResetTimeout
    /\ UNCHANGED <<state, successes>>

\* allowRequest returns true: an open breaker whose timeout has passed lets
\* the request through and becomes half-open.
allowRequest ==
    \/ /\ state \in {"Closed", "HalfOpen"}
       /\ UNCHANGED <<state, successes>>
    \/ /\ state = "Open"
       /\ age > ResetTimeout
       /\ state' = "HalfOpen"
       /\ successes' = 0

\* Execute up to the call of the function.  A refused request changes nothing.
Begin(c) ==
    /\ call[c] = "out"
    /\ allowRequest
    /\ \E r \in IF backend = "healthy" THEN {"ok"} ELSE {"ok", "err"} :
          call' = [call EXCEPT ![c] = r]
    /\ UNCHANGED <<failures, age, backend, oks, fails, resets>>

recordFailure ==
    /\ failures' = Up(failures, MaxFailures)
    /\ age' = 0
    /\ state' = IF state = "HalfOpen" \/ failures' >= MaxFailures THEN "Open" ELSE state
    /\ UNCHANGED successes

\* Mutant: a success does not end a run of failures.
recordSuccessForgets ==
    /\ IF state = "HalfOpen"
       THEN /\ successes' = Up(successes, HalfOpenMax)
            /\ IF successes' >= HalfOpenMax
               THEN state' = "Closed" /\ failures' = 0
               ELSE UNCHANGED <<state, failures>>
       ELSE UNCHANGED breaker
    /\ UNCHANGED age

recordSuccess ==
    /\ IF state = "HalfOpen"
       THEN /\ successes' = Up(successes, HalfOpenMax)
            /\ IF successes' >= HalfOpenMax
               THEN state' = "Closed" /\ failures' = 0
               ELSE UNCHANGED <<state, failures>>
       ELSE failures' = 0 /\ UNCHANGED <<state, successes>>
    /\ UNCHANGED age

\* The rest of Execute: the function returned.
Finish(c) ==
    /\ \/ /\ call[c] = "err"
          /\ recordFailure
          /\ fails' = Up(fails, MaxFailures)
          /\ oks' = 0
       \/ /\ call[c] = "ok"
          /\ recordSuccess
          /\ oks' = Up(oks, HalfOpenMax)
          /\ fails' = 0
    /\ call' = [call EXCEPT ![c] = "out"]
    /\ UNCHANGED <<backend, resets>>

Reset ==
    /\ resets < Resets
    /\ resets' = resets + 1
    /\ state' = "Closed"
    /\ failures' = 0
    /\ successes' = 0
    /\ UNCHANGED <<age, call, backend, oks, fails>>

BreakerTick ==
    /\ age <= ResetTimeout
    /\ age' = age + 1
    /\ UNCHANGED <<breaker, call, backend, oks, fails, resets>>

\* The cause of the failures goes away.
Heal ==
    /\ backend = "flaky"
    /\ backend' = "healthy"
    /\ UNCHANGED <<breaker, age, call, oks, fails, resets>>

BreakerNext ==
    \/ \E c \in Caller : Begin(c) \/ Finish(c)
    \/ Reset \/ BreakerTick \/ Heal

BreakerSpec == BreakerInit /\ [][BreakerNext]_breakerVars

\* A closed breaker has seen fewer than MaxFailures failures in a row: the
\* failure that makes it MaxFailures opens it, whichever call it belongs to.
ClosedIsHealthy == state = "Closed" => failures < MaxFailures

\* The counters of the code never claim more than happened: failures counted
\* by a closed breaker, and successes counted by a half-open one, are part of
\* an unbroken run of results, late results of earlier states included.
CountsAreRuns ==
    /\ state = "Closed" => failures <= fails
    /\ state = "HalfOpen" => successes <= oks

\* A step opens the breaker from closed only on a run of MaxFailures failures.
OpensOnARun ==
    state = "Closed" /\ state' = "Open" => fails' >= MaxFailures

\* A step closes it, other than by Reset, only on a run of HalfOpenMax successes.
ClosesOnARun ==
    state # "Closed" /\ state' = "Closed" /\ resets' = resets
        => state = "HalfOpen" /\ oks' >= HalfOpenMax

\* The breaker switches only on unbroken runs of results, even when results
\* arrive in a later state than the one that admitted the call.
SwitchesOnRuns == [][OpensOnARun /\ ClosesOnARun]_breakerVars

\* Once nothing fails any more the breaker closes for good.
Recovers == backend = "healthy" ~> [](state = "Closed")
=============================================================================
