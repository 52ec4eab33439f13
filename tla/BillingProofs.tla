---------------------------- MODULE BillingProofs ----------------------------
(***************************************************************************)
(* Theorems about what a tenant is charged, told and known to have, for    *)
(* every number of calls, months, restarts and events, and every quota.    *)
(***************************************************************************)
EXTENDS QuotaNotices, TenantAccounts, FiniteSetTheorems, TLAPS

-----------------------------------------------------------------------------
(* The usage meter.  What counts against a month is never more than its    *)
(* counter, what was released into it from an earlier month, and what      *)
(* restarts have forgotten; the totals are what the counter was when the   *)
(* last event was written.                                                 *)

Charged(m) == Calls({"over", "running", "served"}, m)

\* What allows for the calls of a month.
Cover(m) == (IF process = "down" THEN before[m] ELSE counters[m]) + stray[m] + forgotten[m]

Covered(m) == Cardinality(Charged(m)) <= Cover(m)

Written == eventCh = 0 /\ batch = 0 /\ ~writing

\* Once no event waits, the totals cover the calls that were served.
Billed ==
    complete /\ restarts = 0 /\ Written =>
        \A m \in Month : Cardinality(Calls({"served"}, m)) <= aggregates[m] + stray[m]

MeterInv ==
    /\ MeterTypeOK
    /\ \A m \in Month : IsFiniteSet(Charged(m)) /\ Covered(m)
    /\ restarts = 0 => process # "down" /\ \A m \in Month : forgotten[m] = 0
    /\ QuotaKept /\ Billed


\* Adding or taking away a call changes the number of calls by at most one.
LEMMA OneCall ==
    ASSUME NEW S, IsFiniteSet(S), NEW c
    PROVE  /\ IsFiniteSet(S \cup {c}) /\ IsFiniteSet(S \ {c})
           /\ Cardinality(S) \in Nat /\ Cardinality(S \cup {c}) \in Nat /\ Cardinality(S \ {c}) \in Nat
           /\ Cardinality(S \cup {c}) <= Cardinality(S) + 1
           /\ Cardinality(S \ {c}) <= Cardinality(S)
           /\ c \in S => Cardinality(S \ {c}) = Cardinality(S) - 1
<1>1. /\ IsFiniteSet(S \cup {c}) /\ IsFiniteSet(S \ {c})
      /\ Cardinality(S \cup {c}) = IF c \in S THEN Cardinality(S) ELSE Cardinality(S) + 1
      /\ Cardinality(S \ {c}) = IF c \in S THEN Cardinality(S) - 1 ELSE Cardinality(S)
    BY Zenon, FS_AddElement, FS_RemoveElement
<1>2. Cardinality(S) \in Nat /\ Cardinality(S \cup {c}) \in Nat /\ Cardinality(S \ {c}) \in Nat
    BY Zenon, <1>1, FS_CardinalityType
<1> QED
    BY <1>1, <1>2

\* What is found among the calls when one of them moves.
LEMMA CallMoves ==
    ASSUME NEW c \in ToolCall, \A d \in ToolCall \ {c} : tools'[d] = tools[d]
    PROVE  \A P, m : IF tools'[c].at \in P /\ tools'[c].month = m
                     THEN Calls(P, m)' = Calls(P, m) \cup {c} ELSE Calls(P, m)' = Calls(P, m) \ {c}
BY Zenon DEF Calls

\* A subset of the calls that count is finite, and no larger.
LEMMA FewerCalls ==
    ASSUME NEW S, NEW T, IsFiniteSet(T), S \subseteq T
    PROVE  IsFiniteSet(S) /\ Cardinality(S) \in Nat /\ Cardinality(T) \in Nat /\ Cardinality(S) <= Cardinality(T)
BY Zenon, FS_Subset, FS_CardinalityType

\* Every step of the meter keeps its types.
LEMMA MeterTypes ==
    ASSUME MeterTypeOK, [MeterNext]_meterVars
    PROVE  MeterTypeOK'
<1> USE MeterAssumption DEF MeterTypeOK, storeSide, processSide
<1>1. ASSUME NEW c \in ToolCall, Consume(c) PROVE MeterTypeOK'
    BY <1>1 DEF Consume
<1>2. ASSUME NEW c \in ToolCall, RollBack(c) PROVE MeterTypeOK'
    BY <1>2 DEF RollBack
<1>3. ASSUME NEW c \in ToolCall, ReleaseQuota(c) PROVE MeterTypeOK'
    BY <1>3 DEF ReleaseQuota
<1>4. ASSUME NEW c \in ToolCall, queueAudit(c) PROVE MeterTypeOK'
  <2>1. complete' \in BOOLEAN
    BY Zenon, <1>4 DEF queueAudit
  <2>2. eventCh' \in 0 .. EventBuffer
    BY <1>4 DEF queueAudit
  <2> QED
    BY Zenon, <1>4, <2>1, <2>2 DEF queueAudit
<1>5. CASE TakeEvent
    BY <1>5 DEF TakeEvent
<1>6. CASE RecordBatch
    BY Zenon, <1>6 DEF RecordBatch
<1>7. CASE FlushAggregates
  <2>1. complete' \in BOOLEAN
    BY Zenon, <1>7 DEF FlushAggregates
  <2>2. PICK written \in SUBSET Snapshot :
            aggregates' = [m \in Month |-> IF m \in written THEN counters[m] ELSE aggregates[m]]
    BY Zenon, <1>7 DEF FlushAggregates
  <2>3. \A m \in Month : m \in written => counters[m] \in Nat
    BY DEF Snapshot
  <2>4. aggregates' \in [Month -> Nat]
    BY Zenon, <2>2, <2>3
  <2> QED
    BY Zenon, <1>7, <2>1, <2>4 DEF FlushAggregates
<1>8. CASE Shutdown
    BY Zenon, <1>8 DEF Shutdown
<1>9. CASE End
  <2>1. restarts' \in 0 .. MaxRestarts
    BY <1>9 DEF End
  <2>2. tools' \in [ToolCall -> [at : {"new", "over", "running", "refused", "released", "late",
                                     "served", "cut"}, month : Month]]
    BY Zenon, <1>9 DEF End
  <2>3. complete' \in BOOLEAN /\ writing' \in BOOLEAN
    BY Zenon, <1>9 DEF End
  <2> QED
    BY <1>9, <2>1, <2>2, <2>3 DEF End, Zero
<1>10. CASE Restart
    BY <1>10 DEF Restart, Zero
<1>11. CASE NextMonth
  <2>1. month' \in Month
    BY <1>11 DEF NextMonth, Month
  <2> QED
    BY Zenon, <1>11, <2>1 DEF NextMonth
<1>12. CASE UNCHANGED meterVars
    BY Zenon, <1>12 DEF meterVars
<1> QED
    BY Zenon, <1>1, <1>2, <1>3, <1>4, <1>5, <1>6, <1>7, <1>8, <1>9, <1>10, <1>11, <1>12 DEF MeterNext


\* What the calls of a step may do to the month m for the charges to stay covered: fewer
\* calls count, and what covers them does not shrink.
LEMMA CoveredStill ==
    ASSUME MeterInv, MeterTypeOK', NEW m \in Month, Charged(m)' \subseteq Charged(m),
           Cover(m) <= Cover(m)'
    PROVE  IsFiniteSet(Charged(m))' /\ Covered(m)'
<1>1. /\ IsFiniteSet(Charged(m)') /\ Cardinality(Charged(m)') \in Nat /\ Cardinality(Charged(m)) \in Nat
      /\ Cardinality(Charged(m)') <= Cardinality(Charged(m))
    BY Zenon, FewerCalls DEF MeterInv
<1>2. Cardinality(Charged(m)) <= Cover(m)
    BY Zenon DEF MeterInv, Covered
<1>3. Cover(m) \in Int /\ Cover(m)' \in Int
    BY DEF MeterInv, MeterTypeOK, Cover
<1>4. \A x, y \in Nat, a, b \in Int : x <= y /\ y <= a /\ a <= b => x <= b
    OBVIOUS
<1> QED
    BY Zenon, <1>1, <1>2, <1>3, <1>4 DEF Covered

\* The same when a call that counts is taken off the counter.
LEMMA CoveredLess ==
    ASSUME MeterInv, MeterTypeOK', NEW m \in Month, NEW c \in Charged(m), Charged(m)' = Charged(m) \ {c},
           Cover(m)' = Cover(m) - 1
    PROVE  IsFiniteSet(Charged(m))' /\ Covered(m)'
<1>1. /\ IsFiniteSet(Charged(m)') /\ Cardinality(Charged(m)') \in Nat /\ Cardinality(Charged(m)) \in Nat
      /\ Cardinality(Charged(m)') = Cardinality(Charged(m)) - 1
    BY Zenon, OneCall DEF MeterInv
<1>2. Cardinality(Charged(m)) <= Cover(m)
    BY Zenon DEF MeterInv, Covered
<1>3. Cover(m) \in Int
    BY DEF MeterInv, MeterTypeOK, Cover
<1>4. \A x \in Nat, a \in Int : x <= a => x - 1 <= a - 1
    OBVIOUS
<1> QED
    BY Zenon, <1>1, <1>2, <1>3, <1>4 DEF Covered

\* The calls that were let through or served stay within the quota, and the served ones
\* within the totals, while they grow no more and what allows for them does not shrink.
LEMMA KeptStill ==
    ASSUME MeterInv, MeterTypeOK', NEW m \in Month, stray[m] <= stray'[m], forgotten[m] <= forgotten'[m],
           Calls({"running", "served"}, m)' \subseteq Calls({"running", "served"}, m)
    PROVE  Cardinality(Calls({"running", "served"}, m)') <= Quota + stray'[m] + forgotten'[m]
<1>1. /\ IsFiniteSet(Charged(m))
      /\ Calls({"running", "served"}, m) \subseteq Charged(m)
    BY Zenon DEF MeterInv, Charged, Calls
<1>2. IsFiniteSet(Calls({"running", "served"}, m))
    BY Zenon, <1>1, FewerCalls
<1>3. /\ Cardinality(Calls({"running", "served"}, m)') \in Nat
      /\ Cardinality(Calls({"running", "served"}, m)) \in Nat
      /\ Cardinality(Calls({"running", "served"}, m)') <= Cardinality(Calls({"running", "served"}, m))
    BY Zenon, <1>2, FewerCalls
<1>4. Cardinality(Calls({"running", "served"}, m)) <= Quota + stray[m] + forgotten[m]
    BY Zenon DEF MeterInv, QuotaKept
<1>5. \A x, y, q, a, b, c, d \in Nat : x <= y /\ y <= q + a + b /\ a <= c /\ b <= d => x <= q + c + d
    OBVIOUS
<1>6. /\ stray[m] \in Nat /\ forgotten[m] \in Nat /\ stray'[m] \in Nat /\ forgotten'[m] \in Nat
      /\ Quota \in Nat
    BY Zenon, MeterAssumption DEF MeterInv, MeterTypeOK
<1> QED
    BY Zenon, <1>3, <1>4, <1>5, <1>6

\* The same for the served calls and the totals.
LEMMA BilledStill ==
    ASSUME MeterInv, MeterTypeOK', NEW m \in Month, stray[m] <= stray'[m], aggregates' = aggregates,
           Calls({"served"}, m)' \subseteq Calls({"served"}, m),
           Cardinality(Calls({"served"}, m)) <= aggregates[m] + stray[m]
    PROVE  Cardinality(Calls({"served"}, m)') <= aggregates'[m] + stray'[m]
<1>1. /\ IsFiniteSet(Charged(m))
      /\ Calls({"served"}, m) \subseteq Charged(m)
    BY Zenon DEF MeterInv, Charged, Calls
<1>2. IsFiniteSet(Calls({"served"}, m))
    BY Zenon, <1>1, FewerCalls
<1>3. /\ Cardinality(Calls({"served"}, m)') \in Nat
      /\ Cardinality(Calls({"served"}, m)) \in Nat
      /\ Cardinality(Calls({"served"}, m)') <= Cardinality(Calls({"served"}, m))
    BY Zenon, <1>2, FewerCalls
<1>4. \A x, y, a, b, c \in Nat : x <= y /\ y <= a + b /\ b <= c => x <= a + c
    OBVIOUS
<1>5. stray[m] \in Nat /\ stray'[m] \in Nat /\ aggregates[m] \in Nat /\ aggregates'[m] = aggregates[m]
    BY Zenon DEF MeterInv, MeterTypeOK
<1> QED
    BY Zenon, <1>3, <1>4, <1>5


\* A call is charged: one more counts, in the month whose counter has one more.
LEMMA ConsumeMeter ==
    ASSUME MeterInv, MeterTypeOK', NEW c \in ToolCall, Consume(c)
    PROVE  MeterInv'
<1>1. /\ \A d \in ToolCall \ {c} : tools'[d] = tools[d]
      /\ tools'[c].month = month /\ tools'[c].at \in {"over", "running", "served"} /\ tools'[c].at # "served"
      /\ tools'[c].at = "running" => ~(counters'[month] > Quota)
      /\ counters' = [counters EXCEPT ![month] = @ + 1]
      /\ UNCHANGED <<month, aggregates, eventCh, batch, writing, complete, process, restarts, before, forgotten, stray>>
      /\ process # "down"
    BY Zenon DEF Consume, storeSide, processSide, MeterInv, MeterTypeOK
<1>2. /\ MeterTypeOK /\ month \in Month
      /\ \A m \in Month : /\ IsFiniteSet(Charged(m)) /\ Covered(m) /\ counters[m] \in Int /\ counters'[m] \in Int
                          /\ stray[m] \in Nat /\ forgotten[m] \in Nat
    BY Zenon DEF MeterInv, MeterTypeOK
<1>9. \A P, m : IF tools'[c].at \in P /\ month = m
                THEN Calls(P, m)' = Calls(P, m) \cup {c} ELSE Calls(P, m)' = Calls(P, m) \ {c}
    BY Zenon, <1>1, CallMoves
<1>3. ASSUME NEW m \in Month PROVE IsFiniteSet(Charged(m))' /\ Covered(m)'
  <2>1. CASE m # month
    <3>1. Charged(m)' \subseteq Charged(m)
      BY <1>9, <2>1 DEF Charged
    <3>2. counters'[m] = counters[m] /\ before' = before /\ stray' = stray /\ forgotten' = forgotten /\ process' = process
      BY Zenon, <1>1, <1>2, <2>1 DEF MeterTypeOK
    <3>3. Cover(m) <= Cover(m)'
      BY <1>1, <1>2, <3>2 DEF Cover
    <3> QED
      BY Zenon, <3>1, <3>3, CoveredStill
  <2>2. CASE m = month
    <3>1. Charged(m)' = Charged(m) \cup {c}
      BY Zenon, <1>1, <1>9, <2>2 DEF Charged
    <3>2. /\ IsFiniteSet(Charged(m)') /\ Cardinality(Charged(m)') \in Nat /\ Cardinality(Charged(m)) \in Nat
          /\ Cardinality(Charged(m)') <= Cardinality(Charged(m)) + 1
      BY Zenon, <1>2, <3>1, OneCall
    <3>3. counters'[m] = counters[m] + 1
      BY Zenon, <1>1, <1>2, <2>2 DEF MeterTypeOK
    <3>4. Cardinality(Charged(m)) <= counters[m] + stray[m] + forgotten[m]
      BY Zenon, <1>1, <1>2 DEF Covered, Cover
    <3>5. \A x, y, a, b \in Nat, n \in Int : x <= y + 1 /\ y <= n + a + b => x <= (n + 1) + a + b
      OBVIOUS
    <3>6. Cardinality(Charged(m)') <= counters'[m] + stray[m] + forgotten[m]
      BY Zenon, <1>2, <3>2, <3>3, <3>4, <3>5
    <3> QED
      BY Zenon, <1>1, <3>2, <3>6 DEF Covered, Cover
  <2> QED
    BY Zenon, <2>1, <2>2
<1>4. QuotaKept'
  <2> SUFFICES ASSUME NEW m \in Month
               PROVE  Cardinality(Calls({"running", "served"}, m)') <= Quota + stray'[m] + forgotten'[m]
    BY Zenon DEF QuotaKept
  <2>1. CASE m = month /\ tools'[c].at = "running"
    <3>1. counters'[m] <= Quota
      BY <1>1, <1>2, <2>1, MeterAssumption
    <3>2. Calls({"running", "served"}, m)' \subseteq Charged(m)'
      BY Zenon DEF Calls, Charged
    <3>3. Cardinality(Charged(m)') <= counters'[m] + stray[m] + forgotten[m]
      BY Zenon, <1>1, <1>3 DEF Covered, Cover
    <3>4. /\ Cardinality(Calls({"running", "served"}, m)') \in Nat /\ Cardinality(Charged(m)') \in Nat
          /\ Cardinality(Calls({"running", "served"}, m)') <= Cardinality(Charged(m)')
      BY Zenon, <1>3, <3>2, FewerCalls
    <3>5. \A x, y, a, b \in Nat, n, q \in Int : x <= y /\ y <= n + a + b /\ n <= q => x <= q + a + b
      OBVIOUS
    <3>6. Quota \in Int
      BY MeterAssumption
    <3> QED
      BY Zenon, <1>1, <1>2, <3>1, <3>3, <3>4, <3>5, <3>6
  <2>2. CASE ~(m = month /\ tools'[c].at = "running")
    <3>1. Calls({"running", "served"}, m)' \subseteq Calls({"running", "served"}, m)
      BY <1>1, <1>9, <2>2
    <3>2. stray[m] <= stray'[m] /\ forgotten[m] <= forgotten'[m]
      BY <1>1, <1>2
    <3> QED
      BY Zenon, <3>1, <3>2, KeptStill
  <2> QED
    BY Zenon, <2>1, <2>2
<1>5. Billed'
  <2>1. ASSUME NEW m \in Month, Cardinality(Calls({"served"}, m)) <= aggregates[m] + stray[m]
        PROVE  Cardinality(Calls({"served"}, m)') <= aggregates'[m] + stray'[m]
    <3>1. Calls({"served"}, m)' \subseteq Calls({"served"}, m)
      BY <1>1, <1>9
    <3>2. stray[m] <= stray'[m] /\ aggregates' = aggregates
      BY <1>1, <1>2
    <3> QED
      BY Zenon, <2>1, <3>1, <3>2, BilledStill
  <2> QED
    BY Zenon, <1>1, <2>1 DEF Billed, Written, MeterInv
<1> QED
    BY Zenon, <1>1, <1>3, <1>4, <1>5 DEF MeterInv


\* A call over the quota is taken off the counter it was added to.
LEMMA RollBackMeter ==
    ASSUME MeterInv, MeterTypeOK', NEW c \in ToolCall, RollBack(c)
    PROVE  MeterInv'
<1> DEFINE n == tools[c].month
<1>1. /\ \A d \in ToolCall \ {c} : tools'[d] = tools[d]
      /\ n \in Month /\ tools[c].at = "over" /\ tools'[c].at = "refused"
      /\ counters' = [counters EXCEPT ![n] = @ - 1]
      /\ UNCHANGED <<month, aggregates, eventCh, batch, writing, complete, process, restarts, before, forgotten, stray>>
      /\ process # "down"
    BY Zenon DEF RollBack, storeSide, processSide, MeterInv, MeterTypeOK
<1>2. /\ \A m \in Month : /\ counters[m] \in Int /\ stray[m] \in Nat /\ forgotten[m] \in Nat
                          /\ counters'[m] = IF m = n THEN counters[m] - 1 ELSE counters[m]
    BY Zenon, <1>1 DEF MeterInv, MeterTypeOK
<1>3. ASSUME NEW P, "refused" \notin P, NEW m PROVE Calls(P, m)' = Calls(P, m) \ {c}
    BY <1>1, <1>3, CallMoves
<1>4. ASSUME NEW m \in Month PROVE IsFiniteSet(Charged(m))' /\ Covered(m)'
  <2>1. Charged(m)' = Charged(m) \ {c}
    BY Zenon, <1>3 DEF Charged
  <2>2. CASE m = n
    <3>1. c \in Charged(m)
      BY Zenon, <1>1, <2>2 DEF Charged, Calls
    <3>2. Cover(m)' = Cover(m) - 1
      BY <1>1, <1>2, <2>2 DEF Cover
    <3> QED
      BY Zenon, <2>1, <3>1, <3>2, CoveredLess
  <2>3. CASE m # n
    <3>1. Cover(m) <= Cover(m)'
      BY <1>1, <1>2, <2>3 DEF Cover
    <3> QED
      BY Zenon, <2>1, <3>1, CoveredStill
  <2> QED
    BY Zenon, <2>2, <2>3
<1>5. \A m \in Month : stray[m] <= stray'[m] /\ forgotten[m] <= forgotten'[m]
    BY <1>1, <1>2
<1>6. QuotaKept'
  <2>1. \A m \in Month : Calls({"running", "served"}, m)' \subseteq Calls({"running", "served"}, m)
    BY Zenon, <1>3
  <2> QED
    BY Zenon, <1>5, <2>1, KeptStill DEF QuotaKept
<1>7. Billed'
  <2>1. \A m \in Month : Calls({"served"}, m)' \subseteq Calls({"served"}, m)
    BY Zenon, <1>3
  <2>2. ASSUME NEW m \in Month, Cardinality(Calls({"served"}, m)) <= aggregates[m] + stray[m]
        PROVE  Cardinality(Calls({"served"}, m)') <= aggregates'[m] + stray'[m]
    BY Zenon, <1>1, <1>5, <2>1, <2>2, BilledStill
  <2> QED
    BY Zenon, <1>1, <2>2 DEF Billed, Written, MeterInv
<1> QED
    BY Zenon, <1>1, <1>4, <1>6, <1>7 DEF MeterInv

\* A call that failed is taken off the counter of the present month: if it was charged
\* to an earlier one, the present month has a stray release more.
LEMMA ReleaseMeter ==
    ASSUME MeterInv, MeterTypeOK', NEW c \in ToolCall, ReleaseQuota(c)
    PROVE  MeterInv'
<1> DEFINE n == tools[c].month
<1>1. /\ \A d \in ToolCall \ {c} : tools'[d] = tools[d]
      /\ n \in Month /\ month \in Month /\ tools[c].at = "running" /\ tools'[c].at \in {"released", "late"}
      /\ UNCHANGED <<month, aggregates, eventCh, batch, writing, complete, process, restarts, before, forgotten>>
      /\ process # "down"
    BY DEF ReleaseQuota, storeSide, processSide, MeterInv, MeterTypeOK
<1>2. \A m \in Month : /\ counters[m] \in Int /\ stray[m] \in Nat /\ forgotten[m] \in Nat
                       /\ counters'[m] = IF m = month THEN counters[m] - 1 ELSE counters[m]
                       /\ stray'[m] = IF m = month /\ n # month THEN stray[m] + 1 ELSE stray[m]
    BY Zenon, <1>1 DEF ReleaseQuota, MeterInv, MeterTypeOK
<1>3. ASSUME NEW P, "released" \notin P, "late" \notin P, NEW m PROVE Calls(P, m)' = Calls(P, m) \ {c}
    BY <1>1, <1>3, CallMoves
<1>4. ASSUME NEW m \in Month PROVE IsFiniteSet(Charged(m))' /\ Covered(m)'
  <2>1. Charged(m)' = Charged(m) \ {c}
    BY Zenon, <1>3 DEF Charged
  <2>2. CASE m = month /\ n = month
    <3>1. c \in Charged(m)
      BY Zenon, <1>1, <2>2 DEF Charged, Calls
    <3>2. Cover(m)' = Cover(m) - 1
      BY <1>1, <1>2, <2>2 DEF Cover
    <3> QED
      BY Zenon, <2>1, <3>1, <3>2, CoveredLess
  <2>3. CASE ~(m = month /\ n = month)
    <3>1. Cover(m) <= Cover(m)'
      BY <1>1, <1>2, <2>3 DEF Cover
    <3> QED
      BY Zenon, <2>1, <3>1, CoveredStill
  <2> QED
    BY Zenon, <2>2, <2>3
<1>5. \A m \in Month : stray[m] <= stray'[m] /\ forgotten[m] <= forgotten'[m]
    BY <1>1, <1>2
<1>6. QuotaKept'
  <2>1. \A m \in Month : Calls({"running", "served"}, m)' \subseteq Calls({"running", "served"}, m)
    BY Zenon, <1>3
  <2> QED
    BY Zenon, <1>5, <2>1, KeptStill DEF QuotaKept
<1>7. Billed'
  <2>1. \A m \in Month : Calls({"served"}, m)' \subseteq Calls({"served"}, m)
    BY Zenon, <1>3
  <2>2. ASSUME NEW m \in Month, Cardinality(Calls({"served"}, m)) <= aggregates[m] + stray[m]
        PROVE  Cardinality(Calls({"served"}, m)') <= aggregates'[m] + stray'[m]
    BY Zenon, <1>1, <1>5, <2>1, <2>2, BilledStill
  <2> QED
    BY Zenon, <1>1, <2>2 DEF Billed, Written, MeterInv
<1> QED
    BY Zenon, <1>1, <1>4, <1>6, <1>7 DEF MeterInv

\* A call that is served counts as before, and leaves an event unless it is dropped.
LEMMA AuditMeter ==
    ASSUME MeterInv, MeterTypeOK', NEW c \in ToolCall, queueAudit(c)
    PROVE  MeterInv'
<1>1. /\ \A d \in ToolCall \ {c} : tools'[d] = tools[d]
      /\ tools[c].at = "running" /\ tools'[c].at = "served" /\ tools'[c].month = tools[c].month
      /\ UNCHANGED <<month, counters, aggregates, batch, writing, process, restarts, before, forgotten, stray>>
      /\ process # "down"
    BY Zenon DEF queueAudit, storeSide, processSide, MeterInv, MeterTypeOK
<1>2. \A m \in Month : /\ counters[m] \in Int /\ before[m] \in Int /\ stray[m] \in Nat /\ forgotten[m] \in Nat
                       /\ Cover(m) \in Int
    BY DEF MeterInv, MeterTypeOK, Cover
<1>3. ASSUME NEW P, "running" \in P, "served" \in P, NEW m PROVE Calls(P, m)' = Calls(P, m)
    BY Zenon, <1>1, <1>3 DEF Calls
<1>4. ASSUME NEW m \in Month PROVE IsFiniteSet(Charged(m))' /\ Covered(m)'
  <2>1. Charged(m)' = Charged(m)
    BY Zenon, <1>3 DEF Charged
  <2>2. Cover(m)' = Cover(m)
    BY Zenon, <1>1 DEF Cover
  <2> QED
    BY Zenon, <2>1, <2>2 DEF MeterInv, Covered
<1>5. QuotaKept'
  <2>1. \A m \in Month : Calls({"running", "served"}, m)' = Calls({"running", "served"}, m)
    BY Zenon, <1>3
  <2> QED
    BY Zenon, <1>1, <2>1 DEF QuotaKept, MeterInv
<1>6. Billed'
  <2>1. ~(complete /\ Written)'
    BY DEF queueAudit, Written, MeterInv, MeterTypeOK
  <2> QED
    BY Zenon, <2>1 DEF Billed
<1> QED
    BY Zenon, <1>1, <1>4, <1>5, <1>6 DEF MeterInv


\* A complete write of the totals covers every call that counts, and so every served one.
LEMMA FlushMeter ==
    ASSUME MeterInv, MeterTypeOK', FlushAggregates
    PROVE  MeterInv'
<1>1. /\ UNCHANGED <<month, counters, tools, eventCh, batch, process, restarts, before, forgotten, stray>>
      /\ process # "down"
    BY Zenon DEF FlushAggregates, processSide
<1>2. \A P, m : Calls(P, m)' = Calls(P, m)
    BY Zenon, <1>1 DEF Calls
<1>3. ASSUME NEW m \in Month PROVE IsFiniteSet(Charged(m))' /\ Covered(m)'
    BY Zenon, <1>1, <1>2 DEF Covered, Cover, Charged, MeterInv
<1>4. QuotaKept'
    BY Zenon, <1>1, <1>2 DEF QuotaKept, MeterInv
<1>5. Billed'
  <2> SUFFICES ASSUME complete', restarts = 0, NEW m \in Month
               PROVE  Cardinality(Calls({"served"}, m)) <= aggregates'[m] + stray[m]
    BY Zenon, <1>1, <1>2 DEF Billed
  <2>1. aggregates'[m] = IF counters[m] > 0 THEN counters[m] ELSE aggregates[m]
    BY Zenon DEF FlushAggregates, Snapshot
  <2>2. counters[m] \in Int /\ aggregates[m] \in Nat /\ stray[m] \in Nat /\ forgotten[m] = 0 /\ aggregates'[m] \in Nat
    BY Zenon DEF MeterInv, MeterTypeOK
  <2>3. counters[m] <= aggregates'[m]
    BY <2>1, <2>2
  <2>4. Calls({"served"}, m) \subseteq Charged(m)
    BY Zenon DEF Charged, Calls
  <2>5. /\ Cardinality(Calls({"served"}, m)) \in Nat /\ Cardinality(Charged(m)) \in Nat
        /\ Cardinality(Calls({"served"}, m)) <= Cardinality(Charged(m))
    BY Zenon, <2>4, FewerCalls DEF MeterInv
  <2>6. Cardinality(Charged(m)) <= counters[m] + stray[m] + 0
    BY Zenon, <1>1, <2>2 DEF MeterInv, Covered, Cover
  <2>7. \A x, y, a, b \in Nat, k \in Int : x <= y /\ y <= k + b + 0 /\ k <= a => x <= a + b
    OBVIOUS
  <2> QED
    BY Zenon, <2>2, <2>3, <2>5, <2>6, <2>7
<1> QED
    BY Zenon, <1>1, <1>3, <1>4, <1>5 DEF MeterInv

\* When the process ends the calls it was making no longer count.
LEMMA EndMeter ==
    ASSUME MeterInv, MeterTypeOK', End
    PROVE  MeterInv'
<1>1. /\ process # "down" /\ process' = "down" /\ before' = counters
      /\ UNCHANGED <<aggregates, stray, forgotten>>
      /\ restarts' # 0
    BY DEF End, MeterInv, MeterTypeOK
<1>2. \A m \in Month : /\ counters[m] \in Int /\ stray[m] \in Nat /\ forgotten[m] \in Nat
    BY Zenon DEF MeterInv, MeterTypeOK
<1>3. \A c \in ToolCall : /\ tools'[c].at = IF tools[c].at \in {"over", "running"} THEN "cut" ELSE tools[c].at
                          /\ tools'[c].month = tools[c].month
    BY Zenon DEF End, MeterInv, MeterTypeOK
<1>4. ASSUME NEW P, "cut" \notin P, NEW m PROVE Calls(P, m)' \subseteq Calls(P, m)
    BY Zenon, <1>3, <1>4 DEF Calls
<1>5. ASSUME NEW m \in Month PROVE IsFiniteSet(Charged(m))' /\ Covered(m)'
  <2>1. Charged(m)' \subseteq Charged(m)
    BY Zenon, <1>4 DEF Charged
  <2>2. Cover(m) <= Cover(m)'
    BY <1>1, <1>2 DEF Cover
  <2> QED
    BY Zenon, <2>1, <2>2, CoveredStill
<1>6. QuotaKept'
  <2>1. \A m \in Month : Calls({"running", "served"}, m)' \subseteq Calls({"running", "served"}, m)
    BY Zenon, <1>4
  <2>2. \A m \in Month : stray[m] <= stray'[m] /\ forgotten[m] <= forgotten'[m]
    BY <1>1, <1>2
  <2> QED
    BY Zenon, <2>1, <2>2, KeptStill DEF QuotaKept
<1> QED
    BY Zenon, <1>1, <1>5, <1>6 DEF MeterInv, Billed

\* What a restart takes off the counter is forgotten.
LEMMA RestartMeter ==
    ASSUME MeterInv, MeterTypeOK', Restart
    PROVE  MeterInv'
<1>1. /\ process = "down" /\ process' = "up" /\ restarts' = restarts /\ restarts # 0
      /\ UNCHANGED <<tools, stray>>
    BY Zenon DEF Restart, MeterInv
<1>2. \A m \in Month : /\ before[m] \in Int /\ counters'[m] \in Int /\ stray[m] \in Nat /\ forgotten[m] \in Nat
                       /\ forgotten'[m] \in Nat
                       /\ forgotten'[m] = forgotten[m] +
                             (IF before[m] > counters'[m] THEN before[m] - counters'[m] ELSE 0)
    BY Zenon DEF Restart, MeterInv, MeterTypeOK
<1>3. \A P, m : Calls(P, m)' = Calls(P, m)
    BY Zenon, <1>1 DEF Calls
<1>4. ASSUME NEW m \in Month PROVE IsFiniteSet(Charged(m))' /\ Covered(m)'
  <2>1. Charged(m)' \subseteq Charged(m)
    BY Zenon, <1>3 DEF Charged
  <2>2. Cover(m) <= Cover(m)'
    BY <1>1, <1>2 DEF Cover
  <2> QED
    BY Zenon, <2>1, <2>2, CoveredStill
<1>5. QuotaKept'
  <2>1. \A m \in Month : Calls({"running", "served"}, m)' \subseteq Calls({"running", "served"}, m)
    BY Zenon, <1>3
  <2>2. \A m \in Month : stray[m] <= stray'[m] /\ forgotten[m] <= forgotten'[m]
    BY <1>1, <1>2
  <2> QED
    BY Zenon, <2>1, <2>2, KeptStill DEF QuotaKept
<1> QED
    BY Zenon, <1>1, <1>4, <1>5 DEF MeterInv, Billed

\* The steps that touch neither the calls nor the counters.
LEMMA QuietMeter ==
    ASSUME MeterInv, MeterTypeOK',
           UNCHANGED <<tools, counters, aggregates, before, stray, forgotten, restarts, complete>>,
           (process = "down") = (process' = "down"),
           Written' => Written
    PROVE  MeterInv'
<1>1. \A P, m : Calls(P, m)' = Calls(P, m)
    BY Zenon DEF Calls
<1>2. ASSUME NEW m \in Month PROVE IsFiniteSet(Charged(m))' /\ Covered(m)'
    BY Zenon, <1>1 DEF Covered, Cover, Charged, MeterInv
<1>3. QuotaKept'
    BY Zenon, <1>1 DEF QuotaKept, MeterInv
<1>4. Billed'
    BY Zenon, <1>1 DEF Billed, MeterInv
<1> QED
    BY Zenon, <1>2, <1>3, <1>4 DEF MeterInv

\* A relay starts with nothing counted, charged or written.
LEMMA MeterInvInit == MeterInit => MeterInv
<1> SUFFICES ASSUME MeterInit PROVE MeterInv
    OBVIOUS
<1>1. MeterTypeOK
  <2>1. 0 \in Month /\ 0 \in 0 .. EventBuffer /\ 0 \in 0 .. MaxRestarts
    BY MeterAssumption DEF Month
  <2>2. writing \in BOOLEAN /\ complete \in BOOLEAN
    BY Zenon DEF MeterInit
  <2> QED
    BY <2>1, <2>2 DEF MeterInit, MeterTypeOK, Zero
<1>2. \A P, m : "new" \notin P => Calls(P, m) = {}
    BY Zenon DEF MeterInit, Calls
<1>3. /\ \A m \in Month : Charged(m) = {} /\ Calls({"served"}, m) = {} /\ Calls({"running", "served"}, m) = {}
      /\ Cardinality({}) = 0 /\ IsFiniteSet({})
    BY Zenon, <1>2, FS_EmptySet DEF Charged
<1>4. \A m \in Month : /\ counters[m] = 0 /\ stray[m] = 0 /\ forgotten[m] = 0 /\ aggregates[m] = 0
                       /\ process = "up"
    BY Zenon DEF MeterInit, Zero
<1>5. ASSUME NEW m \in Month PROVE IsFiniteSet(Charged(m)) /\ Covered(m)
    BY <1>3, <1>4 DEF Covered, Cover
<1>6. QuotaKept /\ Billed
  <2>1. 0 <= 0 + 0 /\ 0 <= Quota + 0 + 0
    BY MeterAssumption
  <2> QED
    BY Zenon, <1>3, <1>4, <2>1 DEF QuotaKept, Billed
<1>7. process # "down"
    BY Zenon DEF MeterInit
<1> QED
    BY Zenon, <1>1, <1>4, <1>5, <1>6, <1>7 DEF MeterInv

\* Every step of calls, writer, month and restart preserves the invariant of the meter.
LEMMA MeterStep == MeterInv /\ [MeterNext]_meterVars => MeterInv'
<1> SUFFICES ASSUME MeterInv, [MeterNext]_meterVars PROVE MeterInv'
    OBVIOUS
<1>1. MeterTypeOK /\ MeterTypeOK'
    BY Zenon, MeterTypes DEF MeterInv
<1>2. ASSUME NEW c \in ToolCall, Consume(c) \/ RollBack(c) \/ ReleaseQuota(c) \/ queueAudit(c) PROVE MeterInv'
    BY Zenon, <1>1, <1>2, ConsumeMeter, RollBackMeter, ReleaseMeter, AuditMeter
<1>3. CASE TakeEvent
  <2>1. ~Written'
    BY <1>1, <1>3 DEF TakeEvent, Written, MeterTypeOK
  <2> QED
    BY Zenon, <1>1, <1>3, <2>1, QuietMeter DEF TakeEvent, processSide
<1>4. CASE RecordBatch
    BY Zenon, <1>1, <1>4, QuietMeter DEF RecordBatch, processSide, Written
<1>5. CASE Shutdown
    BY Zenon, <1>1, <1>5, QuietMeter DEF Shutdown, storeSide, Written
<1>6. CASE NextMonth
    BY Zenon, <1>1, <1>6, QuietMeter DEF NextMonth, storeSide, processSide, Written
<1>7. CASE UNCHANGED meterVars
    BY Zenon, <1>1, <1>7, QuietMeter DEF meterVars, Written
<1>8. CASE FlushAggregates \/ End \/ Restart
    BY Zenon, <1>1, <1>8, FlushMeter, EndMeter, RestartMeter
<1> QED
    BY Zenon, <1>2, <1>3, <1>4, <1>5, <1>6, <1>7, <1>8 DEF MeterNext

\* Calls racing TryConsume (meter.go) never exceed the quota of a month, but for what
\* failed calls of an earlier month gave back to it and what restarts have forgotten.
THEOREM QuotaIsKept == MeterSpec => []QuotaKept
<1>1. MeterInv => QuotaKept
    BY Zenon DEF MeterInv
<1> QED
    BY <1>1, MeterInvInit, MeterStep, PTL DEF MeterSpec

\* Once the writer goroutine of WithStore is done, every served call is in the totals,
\* but for as many as were released into its month from an earlier one, unless an event
\* was dropped, a write failed or the process ended.
THEOREM ServedCallsAreBilled == MeterSpec => []ServedAreBilled
<1>1. MeterInv => ServedAreBilled
    BY Zenon DEF MeterInv, ServedAreBilled, Billed, Written, Settled
<1> QED
    BY <1>1, MeterInvInit, MeterStep, PTL DEF MeterSpec

-----------------------------------------------------------------------------
(* The notices.                                                            *)

\* What has been notified of a month is what the last ratio stands for.
NoticesInv ==
    \A m \in Months :
        /\ Noticed({"quota_exceeded"}, m) # {} <=> lastNotified[m] >= UsageLimit
        /\ Noticed({"quota_warning", "quota_exceeded"}, m) # {} <=> lastNotified[m] >= UsageWarn
        /\ \A i, j \in Noticed({"quota_warning"}, m) : i = j
        /\ \A i, j \in Noticed({"quota_exceeded"}, m) : i = j
        /\ \A i \in Noticed({"quota_warning"}, m), j \in Noticed({"quota_exceeded"}, m) : i < j

\* The counter passes the quota only by way of it.
PeaksInv ==
    /\ \A m \in Months : peak[m] <= UsageLimit /\ (used[m] >= UsageLimit => peak[m] = UsageLimit)
    /\ \A c \in Usage :
          /\ usage[c].month <= current
          /\ usage[c].at = "beyond" => peak[usage[c].month] = UsageLimit
          /\ usage[c].at # "beyond" => usage[c].ratio <= UsageLimit
          /\ usage[c].at \in {"charged", "refused"} => usage[c].ratio <= peak[usage[c].month]

\* A call that has decided in its own month has left its notice, or found it there.
DecidedInv ==
    \A c \in Usage : usage[c].at \in {"running", "over"} /\ usage[c].month = current =>
        /\ usage[c].ratio >= UsageLimit => lastNotified[current] >= UsageLimit
        /\ usage[c].ratio >= UsageWarn => lastNotified[current] >= UsageWarn

\* What is told of a month has been so, unless a call of an earlier one decided in it.
TrueInv ==
    \A m \in Months : m \notin straddled => lastNotified[m] <= peak[m]

CountTypes ==
    /\ current \in Months /\ used \in [Months -> Int] /\ peak \in [Months -> Nat]
    /\ lastNotified \in [Months -> Nat]
    /\ usage \in [Usage -> [at : {"new", "charged", "beyond", "refused", "running", "over"},
                            month : Months, ratio : Int]]

NoticeInv == NoticeTypeOK /\ NoticesInv /\ PeaksInv /\ DecidedInv /\ TrueInv


\* The warning comes before the quota is used up.
LEMMA Thresholds ==
    /\ UsageLimit \in Nat /\ UsageWarn \in Nat /\ LastMonth \in Nat
    /\ 0 < UsageWarn /\ UsageWarn < UsageLimit
BY Zenon, NoticeAssumption

\* A decision is a notice that the quota is used up, a warning, or nothing.
LEMMA Decision ==
    ASSUME NoticeTypeOK, NEW c \in Usage, maybeNotify(c)
    PROVE  LET ratio == usage[c].ratio
               last == lastNotified[current]
           IN  \/ /\ ratio >= UsageLimit /\ last < UsageLimit
                  /\ notices' = Append(notices, [type |-> "quota_exceeded", month |-> current])
                  /\ lastNotified' = [lastNotified EXCEPT ![current] = ratio]
               \/ /\ ratio >= UsageWarn /\ ratio < UsageLimit /\ last < UsageWarn
                  /\ notices' = Append(notices, [type |-> "quota_warning", month |-> current])
                  /\ lastNotified' = [lastNotified EXCEPT ![current] = ratio]
               \/ /\ ratio >= UsageLimit => last >= UsageLimit
                  /\ ratio >= UsageWarn => last >= UsageWarn
                  /\ UNCHANGED <<notices, lastNotified>>
<1> DEFINE ratio == usage[c].ratio
           last == lastNotified[current]
           types == shouldNotify(current, ratio)
<1>1. /\ ratio \in Int /\ last \in Nat /\ UsageLimit \in Nat /\ UsageWarn \in Nat /\ UsageWarn < UsageLimit
      /\ lastNotified \in [Months -> Nat] /\ current \in Months
      /\ notices \in Seq([type : {"quota_warning", "quota_exceeded"}, month : Months])
    BY Zenon, Thresholds DEF NoticeTypeOK
<1>2. /\ notices' = notices \o [i \in DOMAIN types |-> [type |-> types[i], month |-> current]]
      /\ lastNotified' = [lastNotified EXCEPT ![current] = IF types = <<>> THEN @ ELSE ratio]
    BY Zenon DEF maybeNotify
<1>3. ASSUME NEW t, types = <<t>>
      PROVE  /\ notices' = Append(notices, [type |-> t, month |-> current])
             /\ lastNotified' = [lastNotified EXCEPT ![current] = ratio]
  <2>1. [i \in DOMAIN <<t>> |-> [type |-> <<t>>[i], month |-> current]] = <<[type |-> t, month |-> current]>>
    OBVIOUS
  <2>2. notices \o <<[type |-> t, month |-> current]>> = Append(notices, [type |-> t, month |-> current])
    BY <1>1
  <2>3. <<t>> # <<>>
    OBVIOUS
  <2> HIDE DEF types, ratio
  <2> QED
    BY Zenon, <1>2, <1>3, <2>1, <2>2, <2>3
<1>4. ASSUME types = <<>> PROVE UNCHANGED <<notices, lastNotified>>
  <2>1. notices \o [i \in DOMAIN <<>> |-> [type |-> <<>>[i], month |-> current]] = notices
    BY <1>1
  <2> HIDE DEF types, ratio
  <2> QED
    BY Zenon, <1>1, <1>2, <1>4, <2>1
<1>5. CASE ratio >= UsageLimit /\ last < UsageLimit
  <2>1. types = <<"quota_exceeded">>
    BY <1>1, <1>5 DEF shouldNotify
  <2> QED
    BY Zenon, <1>3, <1>5, <2>1
<1>6. CASE ratio >= UsageWarn /\ ratio < UsageLimit /\ last < UsageWarn
  <2>1. types = <<"quota_warning">>
    BY <1>1, <1>6 DEF shouldNotify
  <2> QED
    BY Zenon, <1>3, <1>6, <2>1
<1>7. CASE /\ ~(ratio >= UsageLimit /\ last < UsageLimit)
           /\ ~(ratio >= UsageWarn /\ ratio < UsageLimit /\ last < UsageWarn)
  <2>1. types = <<>>
    BY Zenon, <1>1, <1>7 DEF shouldNotify
  <2>2. /\ ratio >= UsageLimit => last >= UsageLimit
        /\ ratio >= UsageWarn => last >= UsageWarn
    BY <1>1, <1>7
  <2> QED
    BY Zenon, <1>4, <2>1, <2>2
<1> QED
    BY Zenon, <1>5, <1>6, <1>7

\* A notice more is among those of its type and month only.
LEMMA OneNotice ==
    ASSUME NoticeTypeOK, NEW t \in {"quota_warning", "quota_exceeded"},
           notices' = Append(notices, [type |-> t, month |-> current]), NEW T, NEW m
    PROVE  Noticed(T, m)' = IF t \in T /\ m = current THEN Noticed(T, m) \cup {Len(notices) + 1} ELSE Noticed(T, m)
<1> DEFINE row == [type : {"quota_warning", "quota_exceeded"}, month : Months]
           e == [type |-> t, month |-> current]
<1>1. notices \in Seq(row) /\ e \in row /\ e.type = t /\ e.month = current
    BY Zenon DEF NoticeTypeOK
<1> HIDE DEF row, e
<1>2. /\ DOMAIN notices = 1 .. Len(notices) /\ Len(notices) \in Nat /\ notices' = Append(notices, e)
      /\ DOMAIN notices' = 1 .. Len(notices) + 1
      /\ \A i \in 1 .. Len(notices) : notices'[i] = notices[i]
      /\ notices'[Len(notices) + 1] = e
    BY <1>1 DEF e
<1>3. DOMAIN notices' = DOMAIN notices \cup {Len(notices) + 1}
    BY <1>2
<1> QED
    BY Zenon, <1>1, <1>2, <1>3 DEF Noticed


\* The counters of a month, the calls and the times of what was told keep their types.
LEMMA CountTypesStep ==
    ASSUME NoticeTypeOK, CountTypes, [NoticeNext]_noticeVars
    PROVE  CountTypes'
<1> USE DEF CountTypes
<1>1. ASSUME NEW c \in Usage, TryConsume(c) PROVE CountTypes'
  <2>1. used' \in [Months -> Int]
    BY <1>1 DEF TryConsume
  <2>2. peak' \in [Months -> Nat]
    <3>1. \A x \in Int, y \in Nat : x > y => x \in Nat
      OBVIOUS
    <3> QED
      BY <1>1, <3>1 DEF TryConsume
  <2> QED
    BY Zenon, <1>1, <2>1, <2>2 DEF TryConsume
<1>2. ASSUME NEW c \in Usage, TakeBack(c) PROVE CountTypes'
  <2>1. used' \in [Months -> Int]
    BY <1>2 DEF TakeBack
  <2>2. UsageLimit \in Int
    BY Thresholds
  <2> QED
    BY <1>2, <2>1, <2>2 DEF TakeBack
<1>3. ASSUME NEW c \in Usage, maybeNotify(c) PROVE CountTypes'
  <2>1. usage[c].ratio \in Int
    OBVIOUS
  <2>2. \A x \in Int : x >= UsageLimit \/ x >= UsageWarn => x \in Nat
    BY Thresholds
  <2>3. lastNotified' \in [Months -> Nat]
    BY Zenon, <1>3, <2>1, <2>2, Decision
  <2> QED
    BY <1>3, <2>3 DEF maybeNotify
<1>4. ASSUME NEW c \in Usage, Served(c) PROVE CountTypes'
  <2>1. used' \in [Months -> Int]
    BY <1>4 DEF Served
  <2> QED
    BY <1>4, <2>1 DEF Served
<1>5. CASE MonthEnds
  <2>1. current' \in Months
    BY <1>5, Thresholds DEF MonthEnds, Months
  <2> QED
    BY Zenon, <1>5, <2>1 DEF MonthEnds
<1>6. CASE UNCHANGED noticeVars
    BY Zenon, <1>6 DEF noticeVars
<1> QED
    BY Zenon, <1>1, <1>2, <1>3, <1>4, <1>5, <1>6 DEF NoticeNext

\* Every step of a call keeps the types of what maybeNotify works on.
LEMMA NoticeTypesStep ==
    ASSUME NoticeTypeOK, [NoticeNext]_noticeVars
    PROVE  NoticeTypeOK'
<1> DEFINE row == [type : {"quota_warning", "quota_exceeded"}, month : Months]
<1>1. CountTypes'
    BY Zenon, CountTypesStep DEF NoticeTypeOK, CountTypes
<1>2. straddled' \subseteq Months /\ notices' \in Seq(row)
  <2>1. ASSUME NEW c \in Usage, maybeNotify(c) PROVE straddled' \subseteq Months /\ notices' \in Seq(row)
    <3>1. \A t \in {"quota_warning", "quota_exceeded"} : [type |-> t, month |-> current] \in row
      BY Zenon DEF NoticeTypeOK
    <3>2. straddled' \subseteq Months
      BY Zenon, <2>1 DEF maybeNotify, NoticeTypeOK
    <3>3. notices \in Seq(row)
      BY Zenon DEF NoticeTypeOK
    <3> HIDE DEF row
    <3>4. \A e \in row : Append(notices, e) \in Seq(row)
      BY <3>3
    <3>5. notices' \in Seq(row)
      BY Zenon, <2>1, <3>1, <3>3, <3>4, Decision
    <3> QED
      BY Zenon, <3>2, <3>5
  <2>2. ASSUME UNCHANGED <<straddled, notices>> PROVE straddled' \subseteq Months /\ notices' \in Seq(row)
    BY Zenon, <2>2 DEF NoticeTypeOK
  <2> HIDE DEF row
  <2> QED
    BY Zenon, <2>1, <2>2 DEF NoticeNext, TryConsume, TakeBack, Served, MonthEnds, noticeVars
<1> QED
    BY Zenon, <1>1, <1>2 DEF CountTypes, NoticeTypeOK

\* The first call to reach the quota makes it the peak, before any call is over it.
LEMMA PeaksStep ==
    ASSUME CountTypes, CountTypes', PeaksInv, [NoticeNext]_noticeVars
    PROVE  PeaksInv'
<1> USE Thresholds DEF CountTypes
<1>1. ASSUME NEW c \in Usage, TryConsume(c) PROVE PeaksInv'
  <2> DEFINE new == used[current] + 1
  <2>1. /\ current' = current /\ current \in Months /\ new \in Int
        /\ \A m \in Months \ {current} : used'[m] = used[m] /\ peak'[m] = peak[m]
        /\ used'[current] = new
        /\ peak'[current] = IF new <= UsageLimit /\ new > peak[current] THEN new ELSE peak[current]
        /\ \A d \in Usage \ {c} : usage'[d] = usage[d]
        /\ usage'[c] = [at |-> IF new <= UsageLimit THEN "charged" ELSE "beyond", month |-> current, ratio |-> new]
    BY Zenon, <1>1 DEF TryConsume
  <2>2. new > UsageLimit => peak[current] = UsageLimit
    BY <2>1 DEF PeaksInv
  <2>3. \A m \in Months : /\ peak[m] <= peak'[m] /\ peak'[m] <= UsageLimit
                          /\ used'[m] >= UsageLimit => peak'[m] = UsageLimit
    BY <2>1, <2>2 DEF PeaksInv
  <2>4. ASSUME NEW d \in Usage
        PROVE  (/\ usage[d].month <= current
                /\ usage[d].at = "beyond" => peak[usage[d].month] = UsageLimit
                /\ usage[d].at # "beyond" => usage[d].ratio <= UsageLimit
                /\ usage[d].at \in {"charged", "refused"} => usage[d].ratio <= peak[usage[d].month])'
    <3>1. CASE d = c
      <4>1. /\ usage'[d].month = current /\ usage'[d].ratio = new
            /\ usage'[d].at = IF new <= UsageLimit THEN "charged" ELSE "beyond"
        BY <2>1, <3>1
      <4>2. current <= current
        BY DEF Months
      <4>3. /\ new <= UsageLimit => new <= peak'[current]
            /\ ~(new <= UsageLimit) => peak'[current] = UsageLimit
        BY <2>1, <2>2
      <4> HIDE DEF new
      <4> QED
        BY Zenon, <2>1, <4>1, <4>2, <4>3
    <3>2. CASE d # c
      <4>1. usage'[d] = usage[d] /\ usage[d].month \in Months /\ usage[d].ratio \in Int
        BY Zenon, <2>1, <3>2
      <4> QED
        BY <2>1, <2>3, <4>1 DEF PeaksInv
    <3> QED
      BY Zenon, <3>1, <3>2
  <2> QED
    BY Zenon, <2>3, <2>4 DEF PeaksInv
<1>2. ASSUME NEW c \in Usage, TakeBack(c) PROVE PeaksInv'
    BY <1>2 DEF TakeBack, PeaksInv
<1>3. ASSUME NEW c \in Usage, maybeNotify(c) PROVE PeaksInv'
    BY <1>3 DEF maybeNotify, PeaksInv
<1>4. ASSUME NEW c \in Usage, Served(c) PROVE PeaksInv'
    BY <1>4 DEF Served, PeaksInv
<1>5. CASE MonthEnds
    BY <1>5 DEF MonthEnds, PeaksInv, Months
<1>6. CASE UNCHANGED noticeVars
    BY Zenon, <1>6 DEF noticeVars, PeaksInv
<1> QED
    BY Zenon, <1>1, <1>2, <1>3, <1>4, <1>5, <1>6 DEF NoticeNext


\* The steps that decide nothing leave the notices as they are, and the peaks no lower.
LEMMA QuietNotices ==
    ASSUME CountTypes, CountTypes', PeaksInv, [NoticeNext]_noticeVars, \A c \in Usage : ~maybeNotify(c),
           NoticesInv, DecidedInv, TrueInv
    PROVE  NoticesInv' /\ DecidedInv' /\ TrueInv'
<1>1. UNCHANGED <<lastNotified, notices, straddled>>
    BY Zenon DEF NoticeNext, TryConsume, TakeBack, Served, MonthEnds, noticeVars
<1>2. NoticesInv'
  <2>1. \A T, m : Noticed(T, m)' = Noticed(T, m)
    BY Zenon, <1>1 DEF Noticed
  <2> QED
    BY Zenon, <1>1, <2>1 DEF NoticesInv
<1>3. \A m \in Months : peak[m] <= peak'[m]
  <2>1. ASSUME NEW c \in Usage, TryConsume(c), NEW m \in Months PROVE peak[m] <= peak'[m]
    BY <2>1 DEF TryConsume, CountTypes
  <2>2. ASSUME peak' = peak, NEW m \in Months PROVE peak[m] <= peak'[m]
    BY <2>2 DEF CountTypes
  <2> QED
    BY Zenon, <2>1, <2>2 DEF NoticeNext, TakeBack, Served, MonthEnds, noticeVars
<1>4. TrueInv'
    BY <1>1, <1>3 DEF TrueInv, CountTypes
<1>5. DecidedInv'
  <2>1. ASSUME NEW c \in Usage, TryConsume(c) \/ TakeBack(c) \/ Served(c) PROVE DecidedInv'
    BY <1>1, <2>1 DEF TryConsume, TakeBack, Served, DecidedInv, CountTypes
  <2>2. CASE MonthEnds
    <3>1. \A c \in Usage : usage'[c].month # current'
      BY <2>2 DEF MonthEnds, PeaksInv, CountTypes, Months
    <3> QED
      BY Zenon, <3>1 DEF DecidedInv
  <2>3. CASE UNCHANGED noticeVars
    BY Zenon, <2>3 DEF noticeVars, DecidedInv
  <2> QED
    BY Zenon, <2>1, <2>2, <2>3 DEF NoticeNext
<1> QED
    BY Zenon, <1>2, <1>4, <1>5

\* A decision keeps what the last ratio stands for.
LEMMA DecisionNotices ==
    ASSUME NoticeTypeOK, CountTypes', NEW c \in Usage, maybeNotify(c), NoticesInv
    PROVE  NoticesInv'
<1> DEFINE W(m) == Noticed({"quota_warning"}, m)
           X(m) == Noticed({"quota_exceeded"}, m)
           B(m) == Noticed({"quota_warning", "quota_exceeded"}, m)
           Inv(w, x, b, l) == /\ x # {} <=> l >= UsageLimit
                              /\ b # {} <=> l >= UsageWarn
                              /\ \A i, j \in w : i = j
                              /\ \A i, j \in x : i = j
                              /\ \A i \in w, j \in x : i < j
<1> DEFINE n == Len(notices) + 1
           ratio == usage[c].ratio
           last == lastNotified[current]
<1>1. /\ \A m \in Months : B(m) = W(m) \cup X(m)
      /\ \A m \in Months : \A i \in W(m) \cup X(m) : i < n
  <2>1. DOMAIN notices = 1 .. Len(notices) /\ Len(notices) \in Nat
    BY DEF NoticeTypeOK
  <2> QED
    BY <2>1 DEF Noticed
<1>2. /\ ratio \in Int /\ last \in Nat /\ current \in Months /\ lastNotified \in [Months -> Nat]
    BY Zenon DEF NoticeTypeOK
<1>3. \A m \in Months : Inv(W(m), X(m), B(m), lastNotified[m])
    BY Zenon DEF NoticesInv
<1>4. SUFFICES ASSUME NEW m \in Months PROVE Inv(W(m)', X(m)', B(m)', lastNotified'[m])
    BY Zenon DEF NoticesInv
<1>5. CASE /\ ratio >= UsageLimit /\ last < UsageLimit
           /\ notices' = Append(notices, [type |-> "quota_exceeded", month |-> current])
           /\ lastNotified' = [lastNotified EXCEPT ![current] = ratio]
  <2>1. /\ W(m)' = W(m)
        /\ X(m)' = IF m = current THEN X(m) \cup {n} ELSE X(m)
        /\ B(m)' = IF m = current THEN B(m) \cup {n} ELSE B(m)
    BY Zenon, <1>5, OneNotice
  <2>2. CASE m # current
    <3>1. lastNotified'[m] = lastNotified[m]
      BY Zenon, <1>2, <1>5, <2>2
    <3> HIDE DEF W, X, B, Inv
    <3> QED
      BY Zenon, <1>3, <2>1, <2>2, <3>1
  <2>3. CASE m = current
    <3>1. lastNotified'[m] = ratio /\ ratio >= UsageWarn /\ ratio >= UsageLimit
      BY <1>2, <1>5, <2>3, Thresholds
    <3>2. ~(lastNotified[m] >= UsageLimit)
      BY <1>2, <1>5, <2>3, Thresholds
    <3> HIDE DEF W, X, B, n, ratio, last
    <3>3. X(m) = {}
      BY Zenon, <1>3, <3>2
    <3>4. X(m)' = {n} /\ B(m)' # {}
      BY Zenon, <2>1, <2>3, <3>3
    <3>5. /\ \A i, j \in W(m) : i = j
          /\ \A i \in W(m) : i < n
      BY Zenon, <1>1, <1>3
    <3> QED
      BY Zenon, <2>1, <3>1, <3>4, <3>5
  <2> QED
    BY Zenon, <2>2, <2>3
<1>6. CASE /\ ratio >= UsageWarn /\ ratio < UsageLimit /\ last < UsageWarn
           /\ notices' = Append(notices, [type |-> "quota_warning", month |-> current])
           /\ lastNotified' = [lastNotified EXCEPT ![current] = ratio]
  <2>1. /\ X(m)' = X(m)
        /\ W(m)' = IF m = current THEN W(m) \cup {n} ELSE W(m)
        /\ B(m)' = IF m = current THEN B(m) \cup {n} ELSE B(m)
    BY Zenon, <1>6, OneNotice
  <2>2. CASE m # current
    <3>1. lastNotified'[m] = lastNotified[m]
      BY Zenon, <1>2, <1>6, <2>2
    <3> HIDE DEF W, X, B, Inv
    <3> QED
      BY Zenon, <1>3, <2>1, <2>2, <3>1
  <2>3. CASE m = current
    <3>1. lastNotified'[m] = ratio /\ ratio >= UsageWarn /\ ~(ratio >= UsageLimit)
      BY <1>2, <1>6, <2>3, Thresholds
    <3>2. ~(lastNotified[m] >= UsageWarn)
      BY <1>2, <1>6, <2>3, Thresholds
    <3> HIDE DEF W, X, B, n, ratio, last
    <3>3. B(m) = {}
      BY Zenon, <1>3, <3>2
    <3>4. X(m)' = {} /\ W(m)' = {n} /\ B(m)' # {}
      BY Zenon, <1>1, <2>1, <2>3, <3>3
    <3> QED
      BY Zenon, <3>1, <3>4
  <2> QED
    BY Zenon, <2>2, <2>3
<1>7. CASE UNCHANGED <<notices, lastNotified>>
  <2>1. W(m)' = W(m) /\ X(m)' = X(m) /\ B(m)' = B(m)
    BY Zenon, <1>7 DEF Noticed
  <2> HIDE DEF W, X, B, Inv
  <2> QED
    BY Zenon, <1>3, <1>7, <2>1
<1> QED
    BY Zenon, <1>5, <1>6, <1>7, Decision

\* The call that decides leaves the last ratio where its own asks for it; in its own
\* month its ratio is no more than the peak.
LEMMA DecisionTrue ==
    ASSUME NoticeTypeOK, CountTypes, CountTypes', NEW c \in Usage, maybeNotify(c), PeaksInv, DecidedInv, TrueInv
    PROVE  DecidedInv' /\ TrueInv'
<1> DEFINE ratio == usage[c].ratio
           last == lastNotified[current]
<1>1. /\ ratio \in Int /\ last \in Nat /\ current \in Months /\ current' = current /\ peak' = peak
      /\ \A d \in Usage \ {c} : usage'[d] = usage[d]
      /\ usage[c].at \in {"charged", "refused"}
      /\ usage'[c].month = usage[c].month /\ usage'[c].ratio = ratio
      /\ straddled' = straddled \cup ({current} \ {usage[c].month})
      /\ \A m \in Months : lastNotified[m] \in Nat /\ lastNotified'[m] \in Nat
    BY DEF maybeNotify, CountTypes
<1>2. /\ \A m \in Months \ {current} : lastNotified'[m] = lastNotified[m]
      /\ lastNotified'[current] \in {ratio, last}
      /\ ratio >= UsageLimit => lastNotified'[current] >= UsageLimit
      /\ ratio >= UsageWarn => lastNotified'[current] >= UsageWarn
      /\ last >= UsageLimit => lastNotified'[current] >= UsageLimit
      /\ last >= UsageWarn => lastNotified'[current] >= UsageWarn
  <2>1. \/ /\ ratio >= UsageLimit
           /\ lastNotified' = [lastNotified EXCEPT ![current] = ratio]
        \/ /\ ratio >= UsageWarn /\ ratio < UsageLimit /\ last < UsageWarn
           /\ lastNotified' = [lastNotified EXCEPT ![current] = ratio]
        \/ /\ ratio >= UsageLimit => last >= UsageLimit
           /\ ratio >= UsageWarn => last >= UsageWarn
           /\ lastNotified' = lastNotified
    BY Zenon, Decision
  <2> HIDE DEF ratio
  <2> QED
    BY <1>1, <2>1, Thresholds DEF CountTypes
<1>3. DecidedInv'
  <2> SUFFICES ASSUME NEW d \in Usage, usage'[d].at \in {"running", "over"}, usage'[d].month = current
               PROVE  /\ usage'[d].ratio >= UsageLimit => lastNotified'[current] >= UsageLimit
                      /\ usage'[d].ratio >= UsageWarn => lastNotified'[current] >= UsageWarn
    BY Zenon, <1>1 DEF DecidedInv
  <2>1. CASE d = c
    BY Zenon, <1>1, <1>2, <2>1
  <2>2. CASE d # c
    <3>1. usage'[d] = usage[d]
      BY Zenon, <1>1, <2>2
    <3> QED
      BY Zenon, <1>2, <3>1 DEF DecidedInv
  <2> QED
    BY Zenon, <2>1, <2>2
<1>4. TrueInv'
  <2> SUFFICES ASSUME NEW m \in Months, m \notin straddled' PROVE lastNotified'[m] <= peak[m]
    BY Zenon, <1>1 DEF TrueInv
  <2>1. m \notin straddled /\ lastNotified[m] <= peak[m]
    BY Zenon, <1>1 DEF TrueInv
  <2>2. CASE m # current
    BY Zenon, <1>2, <2>1, <2>2
  <2>3. CASE m = current
    <3>1. usage[c].month = current
      BY Zenon, <1>1, <2>3
    <3>2. ratio <= peak[current]
      BY Zenon, <1>1, <3>1 DEF PeaksInv
    <3> QED
      BY Zenon, <1>2, <2>1, <2>3, <3>2
  <2> QED
    BY Zenon, <2>2, <2>3
<1> QED
    BY Zenon, <1>3, <1>4

\* Every step preserves the invariant of the notices.
LEMMA NoticeStep == NoticeInv /\ [NoticeNext]_noticeVars => NoticeInv'
<1> SUFFICES ASSUME NoticeInv, [NoticeNext]_noticeVars PROVE NoticeInv'
    OBVIOUS
<1>1. NoticeTypeOK /\ NoticeTypeOK' /\ CountTypes /\ CountTypes'
    BY Zenon, NoticeTypesStep DEF NoticeInv, NoticeTypeOK, CountTypes
<1>2. PeaksInv'
    BY Zenon, <1>1, PeaksStep DEF NoticeInv
<1>3. ASSUME NEW c \in Usage, maybeNotify(c) PROVE NoticesInv' /\ DecidedInv' /\ TrueInv'
    BY Zenon, <1>1, <1>3, DecisionNotices, DecisionTrue DEF NoticeInv
<1>4. ASSUME \A c \in Usage : ~maybeNotify(c) PROVE NoticesInv' /\ DecidedInv' /\ TrueInv'
    BY Zenon, <1>1, <1>4, QuietNotices DEF NoticeInv
<1> QED
    BY Zenon, <1>1, <1>2, <1>3, <1>4 DEF NoticeInv

\* Before the first call nothing is counted and nothing told.
LEMMA NoticeInvInit == NoticeInit => NoticeInv
<1> SUFFICES ASSUME NoticeInit PROVE NoticeInv
    OBVIOUS
<1>1. 0 \in Months
    BY Thresholds DEF Months
<1>2. NoticeTypeOK
  <2>1. notices \in Seq([type : {"quota_warning", "quota_exceeded"}, month : Months])
    BY DEF NoticeInit
  <2>2. usage \in [Usage -> [at : {"new", "charged", "beyond", "refused", "running", "over"},
                            month : Months, ratio : Int]]
    BY <1>1 DEF NoticeInit
  <2>3. used \in [Months -> Int] /\ peak \in [Months -> Nat] /\ lastNotified \in [Months -> Nat]
    BY DEF NoticeInit
  <2> QED
    BY Zenon, <1>1, <2>1, <2>2, <2>3 DEF NoticeInit, NoticeTypeOK
<1>3. NoticesInv
  <2>1. \A T, m : Noticed(T, m) = {}
    BY DEF NoticeInit, Noticed
  <2>2. \A m \in Months : ~(lastNotified[m] >= UsageLimit) /\ ~(lastNotified[m] >= UsageWarn)
    BY Thresholds DEF NoticeInit
  <2> QED
    BY Zenon, <2>1, <2>2 DEF NoticesInv
<1>4. PeaksInv
    BY Thresholds DEF NoticeInit, PeaksInv
<1>5. DecidedInv /\ TrueInv
    BY DEF NoticeInit, DecidedInv, TrueInv
<1> QED
    BY Zenon, <1>2, <1>3, <1>4, <1>5 DEF NoticeInv

\* However calls race to a threshold, a tenant is told of it once (maybeNotify in
\* meter.go, shouldNotify in notifier.go): one warning and one notice in a month, the
\* warning first, none missing when the call decides in its own month, and none untrue
\* unless a call of an earlier month decided in this one.
THEOREM NoticesComeOnce == NoticeSpec => []NoticesOnce
<1>1. NoticeInv => NoticesOnce
  <2> SUFFICES ASSUME NoticeInv, NEW m \in Months
               PROVE  /\ Cardinality(Noticed({"quota_warning"}, m)) <= 1
                      /\ Cardinality(Noticed({"quota_exceeded"}, m)) <= 1
                      /\ \A i \in Noticed({"quota_warning"}, m), j \in Noticed({"quota_exceeded"}, m) : i < j
                      /\ \A c \in Usage :
                            usage[c].at \in {"running", "over"} /\ usage[c].month = m /\ current = m =>
                                /\ usage[c].ratio = UsageLimit => Noticed({"quota_exceeded"}, m) # {}
                                /\ usage[c].ratio >= UsageWarn =>
                                      Noticed({"quota_warning", "quota_exceeded"}, m) # {}
                      /\ m \notin straddled =>
                            /\ Noticed({"quota_exceeded"}, m) # {} => peak[m] = UsageLimit
                            /\ Noticed({"quota_warning"}, m) # {} => peak[m] >= UsageWarn
    BY Zenon DEF NoticesOnce
  <2>1. ASSUME NEW S, \A i, j \in S : i = j PROVE Cardinality(S) <= 1
    <3>1. CASE S = {}
      BY <3>1, FS_EmptySet
    <3>2. ASSUME NEW i \in S PROVE Cardinality(S) <= 1
      <4>1. S = {i}
        BY Zenon, <2>1
      <4> QED
        BY <4>1, FS_Singleton
    <3> QED
      BY Zenon, <3>1, <3>2
  <2>2. Cardinality(Noticed({"quota_warning"}, m)) <= 1 /\ Cardinality(Noticed({"quota_exceeded"}, m)) <= 1
    BY Zenon, <2>1 DEF NoticeInv, NoticesInv
  <2>3. \A i \in Noticed({"quota_warning"}, m), j \in Noticed({"quota_exceeded"}, m) : i < j
    BY Zenon DEF NoticeInv, NoticesInv
  <2>4. ASSUME NEW c \in Usage, usage[c].at \in {"running", "over"}, usage[c].month = m, current = m
        PROVE  /\ usage[c].ratio = UsageLimit => Noticed({"quota_exceeded"}, m) # {}
               /\ usage[c].ratio >= UsageWarn => Noticed({"quota_warning", "quota_exceeded"}, m) # {}
    <3>1. UsageLimit >= UsageLimit
      BY Thresholds
    <3>2. /\ usage[c].ratio >= UsageLimit => lastNotified[m] >= UsageLimit
          /\ usage[c].ratio >= UsageWarn => lastNotified[m] >= UsageWarn
      BY Zenon, <2>4 DEF NoticeInv, DecidedInv
    <3>3. /\ lastNotified[m] >= UsageLimit => Noticed({"quota_exceeded"}, m) # {}
          /\ lastNotified[m] >= UsageWarn => Noticed({"quota_warning", "quota_exceeded"}, m) # {}
      BY Zenon DEF NoticeInv, NoticesInv
    <3> QED
      BY Zenon, <3>1, <3>2, <3>3
  <2>5. ASSUME m \notin straddled
        PROVE  /\ Noticed({"quota_exceeded"}, m) # {} => peak[m] = UsageLimit
               /\ Noticed({"quota_warning"}, m) # {} => peak[m] >= UsageWarn
    <3>1. peak[m] \in Nat /\ lastNotified[m] \in Nat /\ lastNotified[m] <= peak[m] /\ peak[m] <= UsageLimit
      BY Zenon, <2>5 DEF NoticeInv, NoticeTypeOK, TrueInv, PeaksInv
    <3>2. Noticed({"quota_exceeded"}, m) # {} => lastNotified[m] >= UsageLimit
      BY Zenon DEF NoticeInv, NoticesInv
    <3>3. Noticed({"quota_warning"}, m) # {} => lastNotified[m] >= UsageWarn
      <4>1. Noticed({"quota_warning"}, m) \subseteq Noticed({"quota_warning", "quota_exceeded"}, m)
        BY Zenon DEF Noticed
      <4> QED
        BY Zenon, <4>1 DEF NoticeInv, NoticesInv
    <3>4. /\ lastNotified[m] >= UsageLimit => peak[m] = UsageLimit
          /\ lastNotified[m] >= UsageWarn => peak[m] >= UsageWarn
      BY <3>1, Thresholds
    <3> QED
      BY Zenon, <3>2, <3>3, <3>4
  <2> QED
    BY Zenon, <2>2, <2>3, <2>4, <2>5
<1> QED
    BY <1>1, NoticeInvInit, NoticeStep, PTL DEF NoticeSpec

\* The quota of a month and what is told of it, together.
THEOREM QuotaHolds == MeterSpec /\ NoticeSpec => []QuotaSound
BY QuotaIsKept, NoticesComeOnce, PTL DEF QuotaSound

-----------------------------------------------------------------------------
(* The account.                                                            *)

AccountSpec == AccountInit /\ [][AccountNext]_accountVars

Copy == [at : {"out", "marked", "read", "fetched", "done"}, copy : Record, seen : Billing \cup {"", "none"}]

AccountTypes ==
    /\ tenant \in Record
    /\ stripe \in [status : Billing \cup {"none"}, plan : PaidPlan \cup {"none"}]
    /\ sent \in Seq(StripeEvent) /\ Len(sent) <= MaxStripeEvents
    /\ session \in [Session -> Copy] /\ stale \subseteq Session

\* Where a session can be; the events that are marked are the ones that were begun.
PlacesInv ==
    /\ processed = {e \in Hook : session[e].at # "out"}
    /\ \A e \in Hook : session[e].at # "fetched" /\ (session[e].at # "out" => e <= Len(sent))
    /\ session[Checkout].at \in {"out", "read"}
    /\ session[Reconciler].at \in {"out", "read", "fetched"}

\* Nobody knows of a subscription that has not begun.
SubsInv ==
    /\ sent = <<>> => ~tenant.sub /\ \A s \in Session : ~session[s].copy.sub
    /\ session[Reconciler].at = "read" => sent # <<>>
    /\ session[Reconciler].at = "fetched" => session[Reconciler].seen \in Billing

\* Stripe tells a subscription's life in order: it begins, and nothing follows its end.
Told ==
    /\ stripe.status = IF sent = <<>> THEN "none" ELSE sent[Len(sent)].status
    /\ stripe.status # "none" => stripe.plan \in PaidPlan
    /\ \A i \in 1 .. Len(sent) :
          /\ sent[i].type = "checkout" <=> i = 1
          /\ sent[i].type = "deleted" <=> sent[i].status = "canceled"
          /\ sent[i].type = "payment_failed" => sent[i].status = "past_due"
          /\ sent[i].type = "checkout" => sent[i].status = "active"
          /\ sent[i].status = "canceled" => i = Len(sent)

\* A copy that is not stale is the record.
CopiesInv ==
    \A s \in Session : session[s].at \in {"read", "fetched"} /\ s \notin stale => session[s].copy = tenant

\* The record after h events: what the h-th event says.  While more have been sent, the
\* reconciler may have put the status of a later one in it.
After(h) ==
    IF h = 0 THEN ~tenant.sub
    ELSE /\ tenant.sub <=> sent[h].status # "canceled"
         /\ tenant.customer = "paying"
         /\ sent[h].status = "canceled" => tenant.plan = "free"
         /\ h = Len(sent) => tenant.billing = stripe.status

\* What the reconciler and the checkout rely on while the record is the one they read.
Relied(h) ==
    /\ Reconciler \notin stale =>
          /\ session[Reconciler].at \in {"read", "fetched"} => tenant.sub
          /\ session[Reconciler].at = "fetched" /\ h = Len(sent) => session[Reconciler].seen = stripe.status
    /\ session[Checkout].at = "read" /\ Checkout \notin stale => tenant.customer = ""

\* The events have been handled in order: h are done, and the next may be under way.
Handled(h) ==
    /\ \A e \in Hook : /\ session[e].at = "done" <=> e <= h
                       /\ session[e].at \in {"marked", "read"} => e = h + 1
    /\ After(h) /\ Relied(h)

Follows(h) == /\ suspended => tenant.status = "suspended"
              /\ h <= Len(sent) /\ Handled(h)

FollowsInv == Calm => \E h \in 0 .. MaxStripeEvents : Follows(h)

ShapeInv == AccountTypes /\ PlacesInv /\ SubsInv /\ CopiesInv

AccountInv == ShapeInv /\ Told /\ FollowsInv

\* The handlers of webhooks, the reconciler and the checkout are different writers.
LEMMA Sessions ==
    /\ Hook \subseteq Session /\ Reconciler \in Session /\ Checkout \in Session
    /\ Reconciler \notin Hook /\ Checkout \notin Hook /\ Reconciler # Checkout
    /\ \A s \in Session \ Hook : s = Reconciler \/ s = Checkout
BY AccountAssumption DEF Hook, Session, Reconciler, Checkout

\* A record that is read is the copy of the one who reads it.
LEMMA ReadFacts ==
    ASSUME AccountTypes, NEW s \in Session, Read(s)
    PROVE  /\ session' \in [Session -> Copy]
           /\ session'[s].at = "read" /\ session'[s].copy = tenant /\ session'[s].seen = session[s].seen
           /\ \A z \in Session \ {s} : session'[z] = session[z]
           /\ stale' = stale \ {s}
BY Zenon DEF AccountTypes, Read, Copy

\* A session that is over.
LEMMA LeaveFacts ==
    ASSUME AccountTypes, NEW s \in Session,
           session' = [session EXCEPT ![s] = [Away EXCEPT !.at = IF s \in Hook THEN "done" ELSE "out"]]
    PROVE  /\ session' \in [Session -> Copy]
           /\ session'[s].at = (IF s \in Hook THEN "done" ELSE "out") /\ ~session'[s].copy.sub
           /\ \A z \in Session \ {s} : session'[z] = session[z]
<1>1. /\ [Away EXCEPT !.at = IF s \in Hook THEN "done" ELSE "out"] \in Copy
      /\ ~[Away EXCEPT !.at = IF s \in Hook THEN "done" ELSE "out"].copy.sub
      /\ [Away EXCEPT !.at = IF s \in Hook THEN "done" ELSE "out"].at = IF s \in Hook THEN "done" ELSE "out"
    BY Zenon DEF Away, Copy, NewTenant, Record, Billing
<1> QED
    BY Zenon, <1>1 DEF AccountTypes

\* The steps that read the record.
LEMMA ReadShape ==
    ASSUME ShapeInv, NEW s \in Session, Read(s),
           \/ s \in Hook /\ session[s].at # "out"
           \/ s = Reconciler /\ tenant.sub
           \/ s = Checkout
    PROVE  ShapeInv'
<1>1. /\ session' \in [Session -> Copy]
      /\ session'[s].at = "read" /\ session'[s].copy = tenant /\ session'[s].seen = session[s].seen
      /\ \A z \in Session \ {s} : session'[z] = session[z]
      /\ stale' = stale \ {s}
      /\ UNCHANGED <<tenant, stripe, sent, processed>>
    BY Zenon, ReadFacts DEF ShapeInv, Read, stripeSide
<1>2. AccountTypes'
    BY Zenon, <1>1 DEF ShapeInv, AccountTypes
<1>3. PlacesInv'
    BY Zenon, <1>1, Sessions DEF ShapeInv, PlacesInv
<1>4. SubsInv'
    BY Zenon, <1>1, Sessions DEF ShapeInv, SubsInv
<1>5. CopiesInv'
    BY Zenon, <1>1 DEF ShapeInv, CopiesInv
<1> QED
    BY Zenon, <1>2, <1>3, <1>4, <1>5 DEF ShapeInv

\* The steps that leave the record alone and are over.
LEMMA LeaveShape ==
    ASSUME ShapeInv, NEW s \in Session, Leave(s), tenant' = tenant, session[s].at # "out"
    PROVE  ShapeInv'
<1>1. /\ session' \in [Session -> Copy]
      /\ session'[s].at = (IF s \in Hook THEN "done" ELSE "out") /\ ~session'[s].copy.sub
      /\ \A z \in Session \ {s} : session'[z] = session[z]
      /\ stale' = stale \ {s}
      /\ UNCHANGED <<tenant, stripe, sent, processed>>
    BY Zenon, LeaveFacts DEF ShapeInv, Leave, stripeSide
<1>2. AccountTypes'
    BY Zenon, <1>1 DEF ShapeInv, AccountTypes
<1>3. PlacesInv'
    BY Zenon, <1>1, Sessions DEF ShapeInv, PlacesInv
<1>4. SubsInv'
    BY Zenon, <1>1, Sessions DEF ShapeInv, SubsInv
<1>5. CopiesInv'
    BY Zenon, <1>1 DEF ShapeInv, CopiesInv
<1> QED
    BY Zenon, <1>2, <1>3, <1>4, <1>5 DEF ShapeInv

\* The steps that write the record: whoever has read it before is stale.
LEMMA WriteShape ==
    ASSUME ShapeInv, NEW s \in Session, NEW r \in Record, UpdateTenant(s, r), session[s].at # "out",
           sent = <<>> => ~r.sub
    PROVE  ShapeInv'
<1>1. /\ session' \in [Session -> Copy]
      /\ session'[s].at = (IF s \in Hook THEN "done" ELSE "out") /\ ~session'[s].copy.sub
      /\ \A z \in Session \ {s} : session'[z] = session[z]
      /\ stale' = {z \in Session \ {s} : session[z].at \in {"read", "fetched"}}
      /\ tenant' = r
      /\ UNCHANGED <<stripe, sent, processed>>
    BY Zenon, LeaveFacts DEF ShapeInv, UpdateTenant, stripeSide
<1>2. AccountTypes'
    BY Zenon, <1>1 DEF ShapeInv, AccountTypes
<1>3. PlacesInv'
    BY Zenon, <1>1, Sessions DEF ShapeInv, PlacesInv
<1>4. SubsInv'
    BY Zenon, <1>1, Sessions DEF ShapeInv, SubsInv
<1>5. CopiesInv'
    BY Zenon, <1>1 DEF ShapeInv, CopiesInv
<1> QED
    BY Zenon, <1>2, <1>3, <1>4, <1>5 DEF ShapeInv

\* What the handlers make of a record is a record.
LEMMA HandlerTypes ==
    ASSUME NEW r \in Record, NEW e \in StripeEvent
    PROVE  /\ handleCheckoutCompleted(r) \in Record /\ handleSubscriptionUpdated(r, e) \in Record
           /\ handleSubscriptionDeleted(r) \in Record /\ handleInvoicePaymentFailed(r) \in Record
BY Zenon DEF Record, StripeEvent, Billing, handleCheckoutCompleted, handleSubscriptionUpdated,
       handleSubscriptionDeleted, handleInvoicePaymentFailed

\* An event of Stripe leaves the record, and what its writers hold, as they are.
LEMMA AnnounceShape ==
    ASSUME ShapeInv, NEW status \in Billing, NEW plan \in PaidPlan, NEW type, Announce(status, plan, type),
           type \in {"checkout", "updated", "deleted", "payment_failed"}
    PROVE  ShapeInv'
<1> DEFINE ev == [type |-> type, status |-> status, plan |-> plan]
<1>1. ev \in StripeEvent
    BY Zenon DEF StripeEvent
<1>2. sent' = Append(sent, ev) /\ Len(sent) < MaxStripeEvents /\ stripe' = [status |-> status, plan |-> plan]
      /\ UNCHANGED <<tenant, processed, session, stale>>
    BY Zenon DEF Announce
<1> HIDE DEF ev
<1>3. sent' \in Seq(StripeEvent) /\ Len(sent') = Len(sent) + 1 /\ sent' # <<>> /\ Len(sent) \in Nat
    BY <1>1, <1>2 DEF ShapeInv, AccountTypes
<1>4. Len(sent') <= MaxStripeEvents
    BY <1>2, <1>3, AccountAssumption
<1>5. stripe' \in [status : Billing \cup {"none"}, plan : PaidPlan \cup {"none"}]
    BY Zenon, <1>2
<1>6. AccountTypes'
    BY Zenon, <1>2, <1>3, <1>4, <1>5 DEF ShapeInv, AccountTypes
<1>7. PlacesInv'
    BY <1>2, <1>3 DEF ShapeInv, PlacesInv, Hook
<1>8. SubsInv'
    BY Zenon, <1>2, <1>3 DEF ShapeInv, SubsInv
<1>9. CopiesInv'
    BY Zenon, <1>2 DEF ShapeInv, CopiesInv
<1> QED
    BY Zenon, <1>6, <1>7, <1>8, <1>9 DEF ShapeInv

\* What Stripe announces, and when.
Announced(status, plan, type) ==
    /\ Announce(status, plan, type)
    /\ \/ stripe.status = "none" /\ type = "checkout" /\ status = "active"
       \/ stripe.status \in {"active", "past_due"} /\ type = "updated" /\ status \in {"active", "past_due"}
       \/ stripe.status \in {"active", "past_due"} /\ type = "payment_failed" /\ status = "past_due"
       \/ stripe.status \in {"active", "past_due"} /\ type = "deleted" /\ status = "canceled"

\* Whatever happens to the subscription, Stripe announces it with one event.
LEMMA StripeAnnounces ==
    ASSUME Told, StripeMoves
    PROVE  \E status \in Billing, plan \in PaidPlan, type \in {"checkout", "updated", "deleted", "payment_failed"} :
              Announced(status, plan, type)
BY Zenon DEF Told, StripeMoves, Announced, Billing

\* Stripe goes on telling the life of the subscription in order.
LEMMA ToldStep ==
    ASSUME ShapeInv, Told, NEW status \in Billing, NEW plan \in PaidPlan, NEW type, Announced(status, plan, type)
    PROVE  Told'
<1> DEFINE n == Len(sent)
           ev == [type |-> type, status |-> status, plan |-> plan]
<1>1. sent' = Append(sent, ev) /\ stripe' = [status |-> status, plan |-> plan] /\ sent \in Seq(StripeEvent)
    BY Zenon DEF Announced, Announce, ShapeInv, AccountTypes
<1>2. /\ n \in Nat /\ Len(sent') = n + 1 /\ sent' # <<>> /\ stripe'.status = status /\ stripe'.plan = plan
      /\ sent'[n + 1].type = type /\ sent'[n + 1].status = status
      /\ \A i \in 1 .. n : sent'[i] = sent[i]
      /\ sent = <<>> <=> n = 0
    BY <1>1
<1>3. (stripe.status = "none" <=> n = 0) /\ \A i \in 1 .. n : sent[i].status # "canceled"
  <2>1. \A i \in 1 .. n : sent[i].status \in Billing
    <3>1. sent \in Seq(StripeEvent)
      BY Zenon DEF ShapeInv, AccountTypes
    <3>2. \A i \in 1 .. n : sent[i] \in StripeEvent
      BY <3>1
    <3> QED
      BY Zenon, <3>2 DEF StripeEvent
  <2>2. stripe.status = IF n = 0 THEN "none" ELSE sent[n].status
    BY Zenon, <1>2 DEF Told
  <2>3. stripe.status # "canceled"
    BY Zenon DEF Announced
  <2>4. stripe.status = "none" <=> n = 0
    BY <1>2, <2>1, <2>2 DEF Billing
  <2>5. \A i \in 1 .. n : sent[i].status = "canceled" => i = n
    BY Zenon DEF Told
  <2> QED
    BY <1>2, <2>2, <2>3, <2>4, <2>5
<1> HIDE DEF ev
<1>4. ASSUME NEW i \in 1 .. n + 1
      PROVE  /\ sent'[i].type = "checkout" <=> i = 1
             /\ sent'[i].type = "deleted" <=> sent'[i].status = "canceled"
             /\ sent'[i].type = "payment_failed" => sent'[i].status = "past_due"
             /\ sent'[i].type = "checkout" => sent'[i].status = "active"
             /\ sent'[i].status = "canceled" => i = n + 1
  <2>1. CASE i = n + 1
    BY <1>2, <1>3, <2>1 DEF Announced
  <2>2. CASE i \in 1 .. n
    <3>1. sent'[i] = sent[i] /\ sent[i].status # "canceled"
      BY Zenon, <1>2, <1>3, <2>2
    <3>2. /\ sent[i].type = "checkout" <=> i = 1
          /\ sent[i].type = "deleted" <=> sent[i].status = "canceled"
          /\ sent[i].type = "payment_failed" => sent[i].status = "past_due"
          /\ sent[i].type = "checkout" => sent[i].status = "active"
      BY Zenon, <2>2 DEF Told
    <3> QED
      BY Zenon, <3>1, <3>2
  <2> QED
    BY <1>2, <2>1, <2>2
<1> QED
    BY Zenon, <1>2, <1>4 DEF Told

\* Every step keeps the places of the writers and the order of what Stripe tells.
LEMMA ShapeStep ==
    ASSUME ShapeInv, Told, [AccountNext]_accountVars
    PROVE  ShapeInv' /\ Told'
<1>1. CASE StripeMoves
  <2>1. PICK status \in Billing, plan \in PaidPlan, type \in {"checkout", "updated", "deleted", "payment_failed"} :
            Announced(status, plan, type)
    BY Zenon, <1>1, StripeAnnounces
  <2> QED
    BY Zenon, <2>1, AnnounceShape, ToldStep DEF Announced
<1>2. ASSUME UNCHANGED stripeSide PROVE Told'
    BY Zenon, <1>2 DEF Told, stripeSide
<1>3. ASSUME NEW e \in 1 .. Len(sent), MarkStripeEventProcessed(e) PROVE ShapeInv' /\ Told'
  <2> DEFINE marked == [Away EXCEPT !.at = "marked"]
  <2>1. marked \in Copy /\ marked.at = "marked" /\ ~marked.copy.sub
    BY Zenon DEF Away, Copy, NewTenant, Record, Billing
  <2>2. e \in Hook /\ e <= Len(sent)
    BY AccountAssumption DEF Hook, ShapeInv, AccountTypes
  <2>3. /\ session' = [session EXCEPT ![e] = marked] /\ processed' = processed \cup {e}
        /\ UNCHANGED <<tenant, stripe, sent, stale>>
    BY Zenon, <1>3 DEF MarkStripeEventProcessed, stripeSide
  <2> HIDE DEF marked
  <2>4. /\ session' \in [Session -> Copy] /\ session'[e] = marked
        /\ \A z \in Session \ {e} : session'[z] = session[z]
    BY Zenon, <2>1, <2>2, <2>3, Sessions DEF ShapeInv, AccountTypes
  <2>5. AccountTypes'
    BY Zenon, <2>3, <2>4 DEF ShapeInv, AccountTypes
  <2>6. PlacesInv'
    BY <2>1, <2>2, <2>3, <2>4, Sessions DEF ShapeInv, PlacesInv
  <2>7. SubsInv'
    BY Zenon, <2>1, <2>2, <2>3, <2>4, Sessions DEF ShapeInv, SubsInv
  <2>8. CopiesInv'
    BY Zenon, <2>1, <2>3, <2>4 DEF ShapeInv, CopiesInv
  <2> QED
    BY Zenon, <1>2, <2>3, <2>5, <2>6, <2>7, <2>8 DEF ShapeInv, stripeSide
<1>4. ASSUME NEW e \in 1 .. Len(sent), FindTenant(e) PROVE ShapeInv' /\ Told'
  <2>1. e \in Hook /\ e \in Session
    BY AccountAssumption, Sessions DEF Hook, ShapeInv, AccountTypes
  <2>2. session[e].at # "out"
    BY Zenon, <1>4 DEF FindTenant
  <2> QED
    BY Zenon, <1>2, <1>4, <2>1, <2>2, ReadShape, LeaveShape DEF FindTenant, Read, Leave
<1>5. ASSUME NEW e \in 1 .. Len(sent), HandleStripeEvent(e) PROVE ShapeInv' /\ Told'
  <2>1. e \in Session
    BY AccountAssumption, Sessions DEF Hook, ShapeInv, AccountTypes
  <2>2. session[e].copy \in Record /\ sent[e] \in StripeEvent /\ sent # <<>>
    <3>1. session[e].copy \in Record
      BY Zenon, <2>1 DEF ShapeInv, AccountTypes, Copy
    <3>2. sent \in Seq(StripeEvent)
      BY Zenon DEF ShapeInv, AccountTypes
    <3> QED
      BY <3>1, <3>2
  <2>3. session[e].at # "out"
    BY Zenon, <1>5 DEF HandleStripeEvent
  <2>4. PICK r \in Record : UpdateTenant(e, r)
    BY Zenon, <1>5, <2>2, HandlerTypes DEF HandleStripeEvent
  <2> QED
    BY Zenon, <1>2, <2>1, <2>2, <2>3, <2>4, WriteShape DEF UpdateTenant
<1>6. ASSUME NEW s \in Session, SessionFails(s) PROVE ShapeInv' /\ Told'
  <2>1. session[s].at # "out"
    BY Zenon, <1>6 DEF SessionFails
  <2> QED
    BY Zenon, <1>2, <1>6, <2>1, LeaveShape DEF SessionFails, Leave
<1>7. CASE ListTenants
    BY Zenon, <1>2, <1>7, ReadShape, Sessions DEF ListTenants, Read
<1>8. CASE GetSubscription
  <2>1. /\ session' \in [Session -> Copy] /\ session'[Reconciler].at = "fetched"
        /\ session'[Reconciler].copy = session[Reconciler].copy /\ session'[Reconciler].seen = stripe.status
        /\ \A z \in Session \ {Reconciler} : session'[z] = session[z]
        /\ UNCHANGED <<tenant, stripe, sent, processed, stale>>
        /\ session[Reconciler].at = "read"
    BY Zenon, <1>8, Sessions DEF GetSubscription, ShapeInv, AccountTypes, stripeSide, Copy
  <2>2. stripe.status \in Billing
    <3>1. sent # <<>>
      BY Zenon, <2>1 DEF ShapeInv, SubsInv
    <3>2. sent[Len(sent)] \in StripeEvent
      BY <3>1 DEF ShapeInv, AccountTypes
    <3> QED
      BY Zenon, <3>1, <3>2 DEF Told, StripeEvent
  <2>3. AccountTypes'
    BY Zenon, <2>1 DEF ShapeInv, AccountTypes
  <2>4. PlacesInv'
    BY <2>1, Sessions DEF ShapeInv, PlacesInv
  <2>5. SubsInv'
    BY Zenon, <2>1, <2>2, Sessions DEF ShapeInv, SubsInv
  <2>6. CopiesInv'
    BY Zenon, <2>1, Sessions DEF ShapeInv, CopiesInv
  <2> QED
    BY Zenon, <1>2, <2>1, <2>3, <2>4, <2>5, <2>6 DEF ShapeInv, stripeSide
<1>9. CASE Reconcile
  <2> DEFINE r == session[Reconciler].copy
             seen == session[Reconciler].seen
  <2>1. session[Reconciler].at = "fetched" /\ session[Reconciler].at # "out" /\ Reconciler \in Session
    BY Zenon, <1>9, Sessions DEF Reconcile
  <2>2. r \in Record /\ seen \in Billing /\ (sent = <<>> => ~r.sub)
    BY Zenon, <2>1 DEF ShapeInv, AccountTypes, SubsInv, Copy
  <2>3. [r EXCEPT !.billing = seen] \in Record /\ [r EXCEPT !.billing = seen].sub = r.sub
    BY Zenon, <2>2 DEF Record
  <2>4. CASE UpdateTenant(Reconciler, [r EXCEPT !.billing = seen])
    BY Zenon, <1>2, <2>1, <2>2, <2>3, <2>4, WriteShape DEF UpdateTenant
  <2>5. CASE Leave(Reconciler) /\ tenant' = tenant
    BY Zenon, <1>2, <2>1, <2>5, LeaveShape DEF Leave
  <2> QED
    BY Zenon, <1>9, <2>4, <2>5 DEF Reconcile
<1>10. CASE CheckoutBegins
    BY Zenon, <1>2, <1>10, ReadShape, Sessions DEF CheckoutBegins, Read
<1>11. CASE CheckoutWrites
  <2> DEFINE r == session[Checkout].copy
  <2>1. session[Checkout].at # "out" /\ Checkout \in Session
    BY Zenon, <1>11, Sessions DEF CheckoutWrites
  <2>2. r \in Record /\ (sent = <<>> => ~r.sub)
    BY Zenon, <2>1 DEF ShapeInv, AccountTypes, SubsInv, Copy
  <2>3. [r EXCEPT !.customer = "made"] \in Record /\ [r EXCEPT !.customer = "made"].sub = r.sub
    BY Zenon, <2>2 DEF Record
  <2>4. UpdateTenant(Checkout, [r EXCEPT !.customer = "made"])
    BY Zenon, <1>11 DEF CheckoutWrites
  <2> QED
    BY Zenon, <1>2, <2>1, <2>2, <2>3, <2>4, WriteShape DEF UpdateTenant
<1>12. CASE SuspendTenant
  <2>1. /\ tenant' \in Record /\ tenant'.sub = tenant.sub
        /\ stale' = {z \in Session : session[z].at \in {"read", "fetched"}}
        /\ UNCHANGED <<stripe, sent, processed, session>>
    BY Zenon, <1>12 DEF SuspendTenant, ShapeInv, AccountTypes, Record, stripeSide
  <2>2. AccountTypes'
    BY Zenon, <2>1 DEF ShapeInv, AccountTypes
  <2>3. PlacesInv'
    BY Zenon, <2>1 DEF ShapeInv, PlacesInv
  <2>4. SubsInv'
    BY Zenon, <2>1 DEF ShapeInv, SubsInv
  <2>5. CopiesInv'
    BY Zenon, <2>1 DEF CopiesInv
  <2> QED
    BY Zenon, <1>2, <2>1, <2>2, <2>3, <2>4, <2>5 DEF ShapeInv, stripeSide
<1>13. CASE UNCHANGED accountVars
    BY Zenon, <1>2, <1>13 DEF accountVars, ShapeInv, AccountTypes, PlacesInv, SubsInv, CopiesInv, stripeSide
<1> QED
    BY Zenon, <1>1, <1>3, <1>4, <1>5, <1>6, <1>7, <1>8, <1>9, <1>10, <1>11, <1>12, <1>13 DEF AccountNext

\* What is sent in the meantime says nothing of the events handled so far.
LEMMA AnnounceFollows ==
    ASSUME ShapeInv, NEW h \in Nat, Follows(h), NEW status, NEW plan, NEW type, Announce(status, plan, type)
    PROVE  Follows(h)'
<1>1. /\ sent' = Append(sent, [type |-> type, status |-> status, plan |-> plan])
      /\ UNCHANGED <<tenant, session, suspended, stale>>
    BY Zenon DEF Announce
<1>2. /\ Len(sent') = Len(sent) + 1 /\ Len(sent) \in Nat
      /\ \A i \in 1 .. Len(sent) : sent'[i] = sent[i]
    BY <1>1 DEF ShapeInv, AccountTypes
<1>3. h <= Len(sent') /\ h # Len(sent') /\ (h # 0 => sent'[h] = sent[h])
    BY <1>2 DEF Follows
<1>4. After(h)'
    BY Zenon, <1>1, <1>3 DEF Follows, Handled, After
<1>5. Relied(h)'
    BY Zenon, <1>1, <1>3 DEF Follows, Handled, Relied
<1> QED
    BY Zenon, <1>1, <1>3, <1>4, <1>5 DEF Follows, Handled

\* In order, the next event is the one after those that are done.
LEMMA MarkFollows ==
    ASSUME ShapeInv, NEW h \in Nat, Follows(h), NEW e \in Hook, MarkStripeEventProcessed(e), InTurn(e)
    PROVE  Follows(h)'
<1>1. e = h + 1
  <2>1. processed = 1 .. e - 1 /\ \A d \in processed : session[d].at = "done"
    BY Zenon DEF InTurn
  <2>2. \A d \in Hook : d \in processed <=> d <= h
    BY Zenon, <2>1 DEF Follows, Handled, ShapeInv, PlacesInv
  <2>3. Hook = 1 .. MaxStripeEvents /\ h <= MaxStripeEvents
    BY AccountAssumption DEF Hook, Follows, ShapeInv, AccountTypes
  <2>4. e - 1 <= h
    BY <2>1, <2>2, <2>3, AccountAssumption
  <2>5. h <= e - 1
    BY <2>1, <2>2, <2>3, AccountAssumption
  <2> QED
    BY <2>3, <2>4, <2>5
<1>2. /\ session'[e].at = "marked"
      /\ \A z \in Session \ {e} : session'[z] = session[z]
      /\ UNCHANGED <<tenant, stripe, sent, suspended, stale>>
    BY Zenon, Sessions DEF MarkStripeEventProcessed, ShapeInv, AccountTypes, stripeSide, Away
<1>3. \A d \in Hook : /\ session'[d].at = "done" <=> d <= h
                      /\ session'[d].at \in {"marked", "read"} => d = h + 1
  <2>1. ~(e <= h) /\ Hook \subseteq Session
    BY <1>1, Sessions
  <2> QED
    BY Zenon, <1>1, <1>2, <2>1 DEF Follows, Handled
<1>4. After(h)'
    BY Zenon, <1>2 DEF Follows, Handled, After
<1>5. session'[Reconciler] = session[Reconciler] /\ session'[Checkout] = session[Checkout]
    BY Zenon, <1>2, Sessions
<1>6. Relied(h)'
    BY Zenon, <1>2, <1>5 DEF Follows, Handled, Relied
<1> QED
    BY Zenon, <1>2, <1>3, <1>4, <1>6 DEF Follows, Handled

\* The tenant of the next event is known, by what the checkout stored.
LEMMA NextIsKnown ==
    ASSUME ShapeInv, Told, NEW h \in Nat, Follows(h), NEW e \in Hook, e = h + 1, e <= Len(sent)
    PROVE  Known(e)
<1>1. e \in 1 .. Len(sent) /\ sent[e] \in StripeEvent
    BY DEF ShapeInv, AccountTypes, Hook
<1>2. CASE h = 0
    BY <1>1, <1>2 DEF Told, Known
<1>3. CASE h # 0
  <2>1. h \in 1 .. Len(sent) /\ h # Len(sent)
    BY <1>1, <1>3 DEF ShapeInv, AccountTypes
  <2>2. sent[h].status # "canceled"
    BY Zenon, <2>1 DEF Told
  <2>3. tenant.sub /\ tenant.customer = "paying"
    BY Zenon, <1>3, <2>2 DEF Follows, Handled, After
  <2>4. sent[e].type \in {"checkout", "updated", "deleted", "payment_failed"}
    BY Zenon, <1>1 DEF StripeEvent
  <2> QED
    BY Zenon, <2>3, <2>4 DEF Known
<1> QED
    BY Zenon, <1>2, <1>3

\* Reading changes nothing; the reconciler and the checkout rely on what they read.
LEMMA ReadFollows ==
    ASSUME ShapeInv, NEW h \in Nat, Follows(h), NEW s \in Session, Read(s),
           \/ s \in Hook /\ session[s].at = "marked"
           \/ s = Reconciler /\ tenant.sub
           \/ s = Checkout /\ tenant.customer = ""
    PROVE  Follows(h)'
<1>1. /\ session'[s].at = "read" /\ session'[s].copy = tenant
      /\ \A z \in Session \ {s} : session'[z] = session[z]
      /\ stale' = stale \ {s}
      /\ UNCHANGED <<tenant, stripe, sent, suspended>>
    BY Zenon, ReadFacts DEF ShapeInv, Read, stripeSide
<1>2. \A d \in Hook : /\ session'[d].at = "done" <=> d <= h
                      /\ session'[d].at \in {"marked", "read"} => d = h + 1
    BY Zenon, <1>1, Sessions DEF Follows, Handled
<1>3. After(h)'
    BY Zenon, <1>1 DEF Follows, Handled, After
<1>4. Relied(h)'
    BY Zenon, <1>1, Sessions DEF Follows, Handled, Relied
<1> QED
    BY Zenon, <1>1, <1>2, <1>3, <1>4 DEF Follows, Handled

\* The reconciler or the checkout gives up.
LEMMA LeaveFollows ==
    ASSUME ShapeInv, NEW h \in Nat, Follows(h), NEW s \in Session \ Hook, Leave(s), tenant' = tenant
    PROVE  Follows(h)'
<1>1. /\ session'[s].at = "out"
      /\ \A z \in Session \ {s} : session'[z] = session[z]
      /\ stale' = stale \ {s}
      /\ UNCHANGED <<tenant, stripe, sent, suspended>>
    BY Zenon, LeaveFacts DEF ShapeInv, Leave, stripeSide
<1>2. \A d \in Hook : /\ session'[d].at = "done" <=> d <= h
                      /\ session'[d].at \in {"marked", "read"} => d = h + 1
    BY Zenon, <1>1, Sessions DEF Follows, Handled
<1>3. After(h)'
    BY Zenon, <1>1 DEF Follows, Handled, After
<1>4. Relied(h)'
    BY Zenon, <1>1, Sessions DEF Follows, Handled, Relied
<1> QED
    BY Zenon, <1>1, <1>2, <1>3, <1>4 DEF Follows, Handled

\* The reconciler asks Stripe.
LEMMA FetchFollows ==
    ASSUME ShapeInv, NEW h \in Nat, Follows(h), GetSubscription
    PROVE  Follows(h)'
<1>1. /\ session[Reconciler].at = "read" /\ session'[Reconciler].at = "fetched"
      /\ session'[Reconciler].seen = stripe.status
      /\ \A z \in Session \ {Reconciler} : session'[z] = session[z]
      /\ UNCHANGED <<tenant, stripe, sent, suspended, stale>>
    BY Zenon, Sessions DEF GetSubscription, ShapeInv, AccountTypes, stripeSide, Copy
<1>2. \A d \in Hook : /\ session'[d].at = "done" <=> d <= h
                      /\ session'[d].at \in {"marked", "read"} => d = h + 1
    BY Zenon, <1>1, Sessions DEF Follows, Handled
<1>3. After(h)'
    BY Zenon, <1>1 DEF Follows, Handled, After
<1>4. Relied(h)'
    BY Zenon, <1>1, Sessions DEF Follows, Handled, Relied
<1> QED
    BY Zenon, <1>1, <1>2, <1>3, <1>4 DEF Follows, Handled

\* The administrator writes the status only, and makes every copy stale.
LEMMA SuspendFollows ==
    ASSUME ShapeInv, NEW h \in Nat, Follows(h), SuspendTenant
    PROVE  Follows(h)'
<1>1. /\ tenant'.status = "suspended" /\ tenant'.sub = tenant.sub /\ tenant'.customer = tenant.customer
      /\ tenant'.plan = tenant.plan /\ tenant'.billing = tenant.billing
      /\ UNCHANGED <<stripe, sent, session>>
    BY Zenon DEF SuspendTenant, ShapeInv, AccountTypes, Record, stripeSide
<1>2. After(h)'
    BY Zenon, <1>1 DEF Follows, Handled, After
<1>3. Relied(h)'
    BY Zenon, <1>1, Sessions DEF SuspendTenant, Relied
<1> QED
    BY Zenon, <1>1, <1>2, <1>3 DEF Follows, Handled

\* A record that is written makes the copies of all others stale.
LEMMA WriteFacts ==
    ASSUME ShapeInv, NEW s \in Session, NEW r, UpdateTenant(s, r), ~overwrote',
           session[s].at \in {"read", "fetched"}
    PROVE  /\ session[s].copy = tenant /\ tenant \in Record /\ tenant' = r
           /\ session'[s].at = (IF s \in Hook THEN "done" ELSE "out")
           /\ \A z \in Session \ {s} : session'[z] = session[z]
           /\ UNCHANGED <<stripe, sent, suspended>>
           /\ \A h \in Nat : Relied(h)'
<1>1. /\ session'[s].at = (IF s \in Hook THEN "done" ELSE "out")
      /\ \A z \in Session \ {s} : session'[z] = session[z]
      /\ stale' = {z \in Session \ {s} : session[z].at \in {"read", "fetched"}}
      /\ tenant' = r /\ UNCHANGED <<stripe, sent, suspended>>
    BY Zenon, LeaveFacts DEF ShapeInv, UpdateTenant, stripeSide
<1>2. session[s].copy = tenant /\ tenant \in Record
  <2>1. s \notin stale
    BY Zenon DEF UpdateTenant
  <2> QED
    BY Zenon, <2>1 DEF ShapeInv, CopiesInv, AccountTypes
<1>3. ASSUME NEW h \in Nat PROVE Relied(h)'
    BY Zenon, <1>1, Sessions DEF Relied
<1> QED
    BY Zenon, <1>1, <1>2, <1>3

\* The next event is handled: the record says what it says.
LEMMA HandleFollows ==
    ASSUME ShapeInv, Told, NEW h \in Nat, Follows(h), NEW e \in Hook, HandleStripeEvent(e), ~overwrote',
           e <= Len(sent)
    PROVE  Follows(h + 1)'
<1>1. e = h + 1 /\ e \in Session /\ session[e].at \in {"read", "fetched"} /\ session[e].at = "read"
    BY Zenon, Sessions DEF HandleStripeEvent, Follows, Handled
<1>2. e \in 1 .. Len(sent) /\ sent[e] \in StripeEvent
    BY DEF ShapeInv, AccountTypes, Hook
<1>3. PICK r : /\ UpdateTenant(e, r)
               /\ \/ sent[e].type = "checkout" /\ r = handleCheckoutCompleted(session[e].copy)
                  \/ sent[e].type = "updated" /\ r = handleSubscriptionUpdated(session[e].copy, sent[e])
                  \/ sent[e].type = "deleted" /\ r = handleSubscriptionDeleted(session[e].copy)
                  \/ sent[e].type = "payment_failed" /\ r = handleInvoicePaymentFailed(session[e].copy)
    BY Zenon DEF HandleStripeEvent
<1>4. /\ session[e].copy = tenant /\ tenant \in Record /\ tenant' = r
      /\ session'[e].at = "done"
      /\ \A z \in Session \ {e} : session'[z] = session[z]
      /\ UNCHANGED <<stripe, sent, suspended>>
      /\ Relied(h + 1)'
  <2>1. h + 1 \in Nat
    OBVIOUS
  <2> QED
    BY Zenon, <1>1, <1>3, <2>1, WriteFacts
<1>5. /\ tenant'.status = tenant.status
      /\ tenant'.sub <=> sent[e].status # "canceled"
      /\ tenant'.customer = "paying"
      /\ sent[e].status = "canceled" => tenant'.plan = "free"
      /\ tenant'.billing = sent[e].status
  <2>1. CASE sent[e].type = "checkout"
    <3>1. sent[e].status = "active" /\ r = handleCheckoutCompleted(tenant)
      BY Zenon, <1>2, <1>3, <1>4, <2>1 DEF Told
    <3> QED
      BY Zenon, <1>4, <3>1 DEF handleCheckoutCompleted, Record
  <2>2. CASE sent[e].type # "checkout"
    <3>1. h # 0 /\ h \in 1 .. Len(sent) /\ h # Len(sent)
      BY <1>1, <1>2, <2>2 DEF Told
    <3>2. sent[h].status # "canceled"
      BY Zenon, <3>1 DEF Told
    <3>3. tenant.sub /\ tenant.customer = "paying"
      BY Zenon, <3>1, <3>2 DEF Follows, Handled, After
    <3>4. CASE sent[e].type = "updated"
      <4>1. sent[e].status # "canceled" /\ r = handleSubscriptionUpdated(tenant, sent[e])
        BY Zenon, <1>2, <1>3, <1>4, <3>4 DEF Told
      <4> QED
        BY Zenon, <1>2, <1>4, <3>3, <4>1 DEF handleSubscriptionUpdated, Record
    <3>5. CASE sent[e].type = "deleted"
      <4>1. sent[e].status = "canceled" /\ r = handleSubscriptionDeleted(tenant)
        BY Zenon, <1>2, <1>3, <1>4, <3>5 DEF Told
      <4> QED
        BY Zenon, <1>2, <1>4, <3>3, <4>1 DEF handleSubscriptionDeleted, Record
    <3>6. CASE sent[e].type = "payment_failed"
      <4>1. sent[e].status = "past_due" /\ r = handleInvoicePaymentFailed(tenant)
        BY Zenon, <1>2, <1>3, <1>4, <3>6 DEF Told
      <4> QED
        BY Zenon, <1>2, <1>4, <3>3, <4>1 DEF handleInvoicePaymentFailed, Record
    <3> QED
      BY Zenon, <1>3, <2>2, <3>4, <3>5, <3>6
  <2> QED
    BY Zenon, <2>1, <2>2
<1>6. \A d \in Hook : /\ session'[d].at = "done" <=> d <= h + 1
                      /\ session'[d].at \in {"marked", "read"} => d = (h + 1) + 1
    BY <1>1, <1>4, Sessions DEF Follows, Handled, Hook
<1>7. After(h + 1)'
  <2>1. h + 1 # 0 /\ (h + 1 = Len(sent) => sent # <<>>)
    BY <1>1, <1>2 DEF ShapeInv, AccountTypes
  <2>2. e = Len(sent) => stripe.status = sent[e].status
    BY Zenon, <1>1, <2>1 DEF Told
  <2> QED
    BY Zenon, <1>1, <1>4, <1>5, <2>1, <2>2 DEF After
<1> QED
    BY Zenon, <1>1, <1>4, <1>5, <1>6, <1>7 DEF Follows, Handled

\* The reconciler writes the status it was told, into the record it has read.
LEMMA ReconcileFollows ==
    ASSUME ShapeInv, NEW h \in Nat, Follows(h), Reconcile, ~overwrote'
    PROVE  Follows(h)'
<1> DEFINE r == session[Reconciler].copy
           seen == session[Reconciler].seen
<1>1. Reconciler \in Session /\ Reconciler \notin Hook /\ session[Reconciler].at = "fetched"
      /\ session[Reconciler].at \in {"read", "fetched"}
    BY Zenon, Sessions DEF Reconcile
<1>2. CASE Leave(Reconciler) /\ tenant' = tenant
    BY Zenon, <1>1, <1>2, LeaveFollows
<1>3. CASE UpdateTenant(Reconciler, [r EXCEPT !.billing = seen])
  <2>1. /\ r = tenant /\ tenant \in Record /\ tenant' = [r EXCEPT !.billing = seen]
        /\ session'[Reconciler].at = "out"
        /\ \A z \in Session \ {Reconciler} : session'[z] = session[z]
        /\ UNCHANGED <<stripe, sent, suspended>>
        /\ Relied(h)'
    BY Zenon, <1>1, <1>3, WriteFacts
  <2>2. /\ tenant'.status = tenant.status /\ tenant'.sub = tenant.sub /\ tenant'.plan = tenant.plan
        /\ tenant'.customer = tenant.customer /\ tenant'.billing = seen
    BY Zenon, <2>1 DEF Record
  <2>3. tenant.sub /\ (h = Len(sent) => seen = stripe.status)
    <3>1. Reconciler \notin stale
      BY Zenon, <1>3 DEF UpdateTenant
    <3> QED
      BY Zenon, <1>1, <3>1 DEF Follows, Handled, Relied
  <2>4. \A d \in Hook : /\ session'[d].at = "done" <=> d <= h
                        /\ session'[d].at \in {"marked", "read"} => d = h + 1
    BY Zenon, <2>1, Sessions DEF Follows, Handled
  <2>5. After(h)'
    BY Zenon, <2>1, <2>2, <2>3 DEF Follows, Handled, After
  <2> QED
    BY Zenon, <2>1, <2>2, <2>4, <2>5 DEF Follows, Handled
<1> QED
    BY Zenon, <1>2, <1>3 DEF Reconcile

\* The checkout stores its customer before any event is handled, or is stale.
LEMMA CheckoutFollows ==
    ASSUME ShapeInv, NEW h \in Nat, Follows(h), CheckoutWrites, ~overwrote'
    PROVE  Follows(h)'
<1> DEFINE r == session[Checkout].copy
<1>1. Checkout \in Session /\ Checkout \notin Hook /\ session[Checkout].at = "read"
      /\ session[Checkout].at \in {"read", "fetched"} /\ UpdateTenant(Checkout, [r EXCEPT !.customer = "made"])
    BY Zenon, Sessions DEF CheckoutWrites
<1>2. /\ r = tenant /\ tenant \in Record /\ tenant' = [r EXCEPT !.customer = "made"]
      /\ session'[Checkout].at = "out"
      /\ \A z \in Session \ {Checkout} : session'[z] = session[z]
      /\ UNCHANGED <<stripe, sent, suspended>>
      /\ Relied(h)'
    BY Zenon, <1>1, WriteFacts
<1>3. tenant'.status = tenant.status /\ tenant'.sub = tenant.sub
    BY Zenon, <1>2 DEF Record
<1>4. h = 0
  <2>1. Checkout \notin stale
    BY Zenon, <1>1 DEF UpdateTenant
  <2>2. tenant.customer # "paying"
    BY Zenon, <1>1, <2>1 DEF Follows, Handled, Relied
  <2> QED
    BY Zenon, <2>2 DEF Follows, Handled, After
<1>5. \A d \in Hook : /\ session'[d].at = "done" <=> d <= h
                      /\ session'[d].at \in {"marked", "read"} => d = h + 1
    BY Zenon, <1>2, Sessions DEF Follows, Handled
<1>6. After(h)'
    BY Zenon, <1>3, <1>4 DEF Follows, Handled, After
<1> QED
    BY Zenon, <1>2, <1>3, <1>5, <1>6 DEF Follows, Handled

\* Every step that leaves the run calm keeps the record at an event of Stripe's.
LEMMA FollowsStep ==
    ASSUME ShapeInv, Told, FollowsInv, ShapeInv', [AccountNext]_accountVars
    PROVE  FollowsInv'
<1> SUFFICES ASSUME Calm' PROVE \E h \in 0 .. MaxStripeEvents : Follows(h)'
    BY Zenon DEF FollowsInv
<1>1. ~overwrote' /\ ~disordered' /\ ~failed'
    BY Zenon DEF Calm
<1>2. Calm
  <2>1. ASSUME UNCHANGED <<overwrote, observed>> PROVE Calm
    BY Zenon, <1>1, <2>1 DEF Calm, observed
  <2>2. ASSUME NEW s, NEW r, UpdateTenant(s, r), UNCHANGED observed PROVE Calm
    BY Zenon, <1>1, <2>2 DEF Calm, observed, UpdateTenant
  <2>3. CASE StripeMoves
    BY Zenon, <2>1, <2>3 DEF StripeMoves, Announce
  <2>4. ASSUME NEW e \in 1 .. Len(sent), MarkStripeEventProcessed(e) PROVE Calm
    BY Zenon, <1>1, <2>4 DEF MarkStripeEventProcessed, Calm
  <2>5. ASSUME NEW e \in 1 .. Len(sent), FindTenant(e) PROVE Calm
    BY Zenon, <2>1, <2>5 DEF FindTenant, Read
  <2>6. ASSUME NEW e \in 1 .. Len(sent), HandleStripeEvent(e) PROVE Calm
    BY Zenon, <2>2, <2>6 DEF HandleStripeEvent
  <2>7. ASSUME NEW s \in Session, SessionFails(s) PROVE Calm
    BY Zenon, <1>1, <2>7 DEF SessionFails, Calm
  <2>8. CASE ListTenants \/ GetSubscription \/ CheckoutBegins \/ SuspendTenant
    BY Zenon, <2>1, <2>8 DEF ListTenants, GetSubscription, CheckoutBegins, SuspendTenant, Read
  <2>9. CASE Reconcile \/ CheckoutWrites
    BY Zenon, <2>1, <2>2, <2>9 DEF Reconcile, CheckoutWrites
  <2>10. CASE UNCHANGED accountVars
    BY Zenon, <2>1, <2>10 DEF accountVars, observed
  <2> QED
    BY Zenon, <2>3, <2>4, <2>5, <2>6, <2>7, <2>8, <2>9, <2>10 DEF AccountNext
<1>3. PICK h \in Nat : Follows(h)
    BY <1>2, AccountAssumption DEF FollowsInv
<1>4. ASSUME NEW k \in Nat, Follows(k)' PROVE \E i \in 0 .. MaxStripeEvents : Follows(i)'
  <2>1. k \in 0 .. MaxStripeEvents
    BY <1>4, AccountAssumption DEF Follows, ShapeInv, AccountTypes
  <2> QED
    BY Zenon, <1>4, <2>1
<1>5. \A e \in 1 .. Len(sent) : e \in Hook /\ e \in Session /\ e <= Len(sent)
    BY AccountAssumption, Sessions DEF Hook, ShapeInv, AccountTypes
<1>6. CASE StripeMoves
  <2>1. PICK status \in Billing, plan \in PaidPlan, type \in {"checkout", "updated", "deleted", "payment_failed"} :
            Announced(status, plan, type)
    BY Zenon, <1>6, StripeAnnounces
  <2> QED
    BY Zenon, <1>3, <1>4, <2>1, AnnounceFollows DEF Announced
<1>7. ASSUME NEW e \in 1 .. Len(sent), MarkStripeEventProcessed(e) PROVE Follows(h)'
  <2>1. InTurn(e)
    BY Zenon, <1>1, <1>7 DEF MarkStripeEventProcessed
  <2> QED
    BY Zenon, <1>3, <1>5, <1>7, <2>1, MarkFollows
<1>8. ASSUME NEW e \in 1 .. Len(sent), FindTenant(e) PROVE Follows(h)'
  <2>1. e = h + 1 /\ session[e].at = "marked"
    BY Zenon, <1>3, <1>5, <1>8 DEF FindTenant, Follows, Handled
  <2>2. Known(e)
    BY Zenon, <1>3, <1>5, <2>1, NextIsKnown
  <2> QED
    BY Zenon, <1>3, <1>5, <1>8, <2>1, <2>2, ReadFollows DEF FindTenant
<1>9. ASSUME NEW e \in 1 .. Len(sent), HandleStripeEvent(e) PROVE Follows(h + 1)'
    BY Zenon, <1>1, <1>3, <1>5, <1>9, HandleFollows
<1>10. ASSUME NEW s \in Session, SessionFails(s) PROVE Follows(h)'
    BY Zenon, <1>1, <1>3, <1>10, LeaveFollows DEF SessionFails
<1>11. ASSUME ListTenants \/ CheckoutBegins PROVE Follows(h)'
    BY Zenon, <1>3, <1>11, Sessions, ReadFollows DEF ListTenants, CheckoutBegins
<1>12. ASSUME GetSubscription \/ Reconcile \/ CheckoutWrites \/ SuspendTenant PROVE Follows(h)'
    BY Zenon, <1>1, <1>3, <1>12, FetchFollows, ReconcileFollows, CheckoutFollows, SuspendFollows
<1>13. ASSUME UNCHANGED accountVars PROVE Follows(h)'
    BY Zenon, <1>3, <1>13 DEF accountVars, Follows, Handled, After, Relied
<1>14. h + 1 \in Nat
    OBVIOUS
<1> QED
    BY Zenon, <1>3, <1>4, <1>6, <1>7, <1>8, <1>9, <1>10, <1>11, <1>12, <1>13, <1>14 DEF AccountNext

\* A tenant starts without subscription, events or writers.
LEMMA AccountInvInit == AccountInit => AccountInv
<1> SUFFICES ASSUME AccountInit PROVE AccountInv
    OBVIOUS
<1>1. /\ sent = <<>> /\ Len(sent) = 0 /\ processed = {} /\ stale = {} /\ session = [s \in Session |-> Away]
      /\ stripe = [status |-> "none", plan |-> "none"] /\ ~suspended
    BY Zenon DEF AccountInit
<1>2. Away \in Copy /\ Away.at = "out" /\ ~Away.copy.sub
    BY Zenon DEF Away, Copy, NewTenant, Record, Billing
<1>3. tenant \in Record /\ ~tenant.sub
  <2>1. NewTenant \in Record /\ ~NewTenant.sub
    BY Zenon DEF NewTenant, Record, Billing
  <2>2. ASSUME NEW p \in PaidPlan
        PROVE  /\ [NewTenant EXCEPT !.billing = "incomplete", !.plan = p] \in Record
               /\ ~[NewTenant EXCEPT !.billing = "incomplete", !.plan = p].sub
    BY Zenon DEF NewTenant, Record, Billing
  <2> QED
    BY Zenon, <2>1, <2>2 DEF AccountInit
<1>4. \A s \in Session : session[s] = Away
    BY Zenon, <1>1
<1>5. AccountTypes
    BY <1>1, <1>2, <1>3, AccountAssumption DEF AccountTypes
<1>6. PlacesInv /\ SubsInv /\ CopiesInv
    BY Zenon, <1>1, <1>2, <1>3, <1>4, Sessions DEF PlacesInv, SubsInv, CopiesInv
<1>7. Told
    BY <1>1 DEF Told
<1>8. Follows(0)
  <2>1. \A e \in Hook : session[e].at = "out" /\ ~(e <= 0)
    BY <1>2, <1>4, Sessions DEF Hook
  <2>2. After(0)
    BY Zenon, <1>3 DEF After
  <2>3. Relied(0)
    BY Zenon, <1>2, <1>4, Sessions DEF Relied
  <2> QED
    BY <1>1, <2>1, <2>2, <2>3 DEF Follows, Handled
<1>9. 0 \in 0 .. MaxStripeEvents
    BY AccountAssumption
<1> QED
    BY Zenon, <1>5, <1>6, <1>7, <1>8, <1>9 DEF AccountInv, ShapeInv, FollowsInv

\* When no two writers of the record overlap and Stripe's events are handled in order and
\* without failures (cmd/relay/stripe_webhook.go, pkg/billing/stripe_handlers.go), the
\* record says what Stripe says once every event is handled, whatever the reconciler and
\* the checkout handler write in between, and a suspended tenant stays suspended.
THEOREM AccountsFollow == AccountSpec => []AccountFollows
<1>1. AccountInv /\ [AccountNext]_accountVars => AccountInv'
    BY Zenon, ShapeStep, FollowsStep DEF AccountInv
<1>2. AccountInv => AccountFollows
  <2> SUFFICES ASSUME AccountInv, Calm PROVE AccountFollows
    BY Zenon DEF AccountFollows
  <2>1. PICK h \in Nat : Follows(h)
    BY AccountAssumption DEF AccountInv, FollowsInv
  <2>2. ASSUME sent # <<>>, \A e \in 1 .. Len(sent) : session[e].at = "done"
        PROVE  /\ tenant.billing = stripe.status
               /\ tenant.sub <=> stripe.status # "canceled"
               /\ stripe.status = "canceled" => tenant.plan = "free"
    <3>1. Len(sent) \in Nat /\ Len(sent) # 0 /\ Len(sent) <= MaxStripeEvents
      BY <2>2 DEF AccountInv, ShapeInv, AccountTypes
    <3>2. Len(sent) \in 1 .. Len(sent) /\ Len(sent) \in Hook
      BY <3>1, AccountAssumption DEF Hook
    <3>3. Len(sent) <= h
      BY Zenon, <2>1, <2>2, <3>2 DEF Follows, Handled
    <3>4. h = Len(sent)
      BY <2>1, <3>1, <3>3 DEF Follows
    <3>5. stripe.status = sent[h].status
      BY Zenon, <2>2, <3>4 DEF AccountInv, Told
    <3> QED
      BY Zenon, <2>1, <3>1, <3>4, <3>5 DEF Follows, Handled, After
  <2> QED
    BY Zenon, <2>1, <2>2 DEF AccountFollows, Follows
<1> QED
    BY <1>1, <1>2, AccountInvInit, PTL DEF AccountSpec

=============================================================================
