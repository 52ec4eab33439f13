------------------------------- MODULE Clock -------------------------------
(* The clock that time.Now() reads, in ticks. *)
EXTENDS Integers

CONSTANT MaxTime   \* bound on the clock

ASSUME ClockAssumption == MaxTime \in Nat

VARIABLE now

Advance ==
    /\ now < MaxTime
    /\ now' = now + 1
=============================================================================
