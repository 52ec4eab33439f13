----------------------------- MODULE UsageMeter -----------------------------
(***************************************************************************)
(* UsageMeter (pkg/billing/meter.go) in the MCP server: the monthly        *)
(* counter of one tenant and one kind of event, the quota every tool call  *)
(* is charged to, and the goroutine that writes the totals to the store.   *)
(* A call is MCPToolMeterMiddleware, cut at its atomic additions.  The     *)
(* month is read from the clock by each of them anew.                      *)
(***************************************************************************)
EXTENDS Integers, FiniteSets

CONSTANTS
    ToolCall,     \* tool calls, each used once
    Quota,        \* MaxToolCallsPerMonth
    EventBuffer,  \* capacity of eventCh
    MaxMonth,     \* bound: months that pass
    MaxRestarts   \* bound: ends of the process

ASSUME MeterAssumption ==
    Quota \in Nat \ {0} /\ EventBuffer \in Nat /\ MaxMonth \in Nat /\ MaxRestarts \in Nat

Month == 0 .. MaxMonth

VARIABLES
    month,       \* the calendar month
    counters,    \* Month -> the counter in memory
    aggregates,  \* Month -> usage_aggregates in the store
    tools,       \* ToolCall -> where it is, and the month it was charged to
    eventCh,     \* events waiting for the writer
    batch,       \* events the writer has taken
    writing,     \* the writer has recorded its batch and now writes the totals
    process,     \* "up" | "stopping" | "down"
    restarts,    \* ends of the process so far
    before,      \* Month -> the counter when the process ended
    stray,       \* Month -> releases of calls charged to an earlier month
    forgotten,   \* Month -> what restarts have taken off the counter
    complete     \* no event was dropped and every write of totals was complete

meterVars == <<month, counters, aggregates, tools, eventCh, batch, writing, process,
               restarts, before, stray, forgotten, complete>>
storeSide == <<aggregates, eventCh, batch, writing, complete>>
processSide == <<process, restarts, before, forgotten>>

Zero == [m \in Month |-> 0]

MeterInit ==
    /\ month = 0 /\ counters = Zero /\ aggregates = Zero
    /\ tools = [c \in ToolCall |-> [at |-> "new", month |-> 0]]
    /\ eventCh = 0 /\ batch = 0 /\ writing = FALSE
    /\ process = "up" /\ restarts = 0 /\ before = Zero
    /\ stray = Zero /\ forgotten = Zero /\ complete = TRUE

Calls(places, m) == {c \in ToolCall : tools[c].at \in places /\ tools[c].month = m}

(***************************************************************************)
(* Tool calls                                                              *)
(***************************************************************************)

\* Mutant of Consume: the limit is compared before the addition.
ConsumeCheckFirst(c) ==
    /\ process # "down" /\ tools[c].at = "new"
    /\ counters' = [counters EXCEPT ![month] = @ + 1]
    /\ tools' = [tools EXCEPT ![c] =
          [at |-> IF counters[month] > Quota THEN "over" ELSE "running", month |-> month]]
    /\ UNCHANGED <<month, storeSide, processSide, stray>>

\* TryConsume adds first and compares the sum it got.
Consume(c) ==
    /\ process # "down" /\ tools[c].at = "new"
    /\ counters' = [counters EXCEPT ![month] = @ + 1]
    /\ tools' = [tools EXCEPT ![c] =
          [at |-> IF counters'[month] > Quota THEN "over" ELSE "running", month |-> month]]
    /\ UNCHANGED <<month, storeSide, processSide, stray>>

\* TryConsume takes the addition back, from the counter it added to.
RollBack(c) ==
    /\ process # "down" /\ tools[c].at = "over"
    /\ counters' = [counters EXCEPT ![tools[c].month] = @ - 1]
    /\ tools' = [tools EXCEPT ![c].at = "refused"]
    /\ UNCHANGED <<month, storeSide, processSide, stray>>

\* The tool fails: ReleaseQuota takes one off the counter of the present month.
ReleaseQuota(c) ==
    /\ process # "down" /\ tools[c].at = "running"
    /\ counters' = [counters EXCEPT ![month] = @ - 1]
    /\ tools' = [tools EXCEPT ![c].at = IF tools[c].month = month THEN "released" ELSE "late"]
    /\ stray' = [stray EXCEPT ![month] = IF tools[c].month = month THEN @ ELSE @ + 1]
    /\ UNCHANGED <<month, storeSide, processSide>>

\* Mutant of queueAudit: one event more than fits is let in.
queueAuditOverfull(c) ==
    /\ process # "down" /\ tools[c].at = "running"
    /\ tools' = [tools EXCEPT ![c].at = "served"]
    /\ \/ eventCh <= EventBuffer /\ eventCh' = eventCh + 1 /\ UNCHANGED complete
       \/ eventCh > EventBuffer /\ complete' = FALSE /\ UNCHANGED eventCh
    /\ UNCHANGED <<month, counters, aggregates, batch, writing, processSide, stray>>

\* The tool succeeds: queueAudit, which drops the event when the buffer is full.
queueAudit(c) ==
    /\ process # "down" /\ tools[c].at = "running"
    /\ tools' = [tools EXCEPT ![c].at = "served"]
    /\ \/ eventCh < EventBuffer /\ eventCh' = eventCh + 1 /\ UNCHANGED complete
       \/ eventCh = EventBuffer /\ complete' = FALSE /\ UNCHANGED eventCh
    /\ UNCHANGED <<month, counters, aggregates, batch, writing, processSide, stray>>

(***************************************************************************)
(* The writer goroutine of WithStore                                       *)
(***************************************************************************)

TakeEvent ==
    /\ process = "up" /\ ~writing /\ eventCh > 0
    /\ eventCh' = eventCh - 1 /\ batch' = batch + 1
    /\ UNCHANGED <<month, counters, aggregates, tools, writing, processSide, stray, complete>>

\* flush records the events of a batch that is not empty, on a tick, when it is
\* full, or at the end: then what is still in the channel stays there.
RecordBatch ==
    /\ process # "down" /\ ~writing /\ batch > 0
    /\ batch' = 0 /\ writing' = TRUE
    /\ UNCHANGED <<month, counters, aggregates, tools, eventCh, processSide, stray, complete>>

\* Mutant of Snapshot: only the present month.
SnapshotPresent == {m \in {month} : counters[m] > 0}

\* Snapshot leaves out counters that are not positive.
Snapshot == {m \in Month : counters[m] > 0}

\* FlushAggregates: one statement per counter; the first error ends it.
FlushAggregates ==
    /\ process # "down" /\ writing
    /\ \E written \in SUBSET Snapshot :
          /\ aggregates' = [m \in Month |-> IF m \in written THEN counters[m] ELSE aggregates[m]]
          /\ complete' = (complete /\ written = Snapshot)
    /\ writing' = FALSE
    /\ UNCHANGED <<month, counters, tools, eventCh, batch, processSide, stray>>

(***************************************************************************)
(* The process                                                             *)
(***************************************************************************)

\* The writer takes the cancelled context: it flushes its batch and returns.
Shutdown ==
    /\ process = "up" /\ restarts < MaxRestarts
    /\ process' = "stopping"
    /\ UNCHANGED <<month, counters, tools, storeSide, restarts, before, forgotten, stray>>

\* The process ends: after the last flush, or anywhere.
End ==
    /\ process # "down" /\ restarts < MaxRestarts
    /\ process' = "down" /\ restarts' = restarts + 1
    /\ before' = counters /\ counters' = Zero
    /\ tools' = [c \in ToolCall |-> IF tools[c].at \in {"over", "running"}
                                   THEN [tools[c] EXCEPT !.at = "cut"] ELSE tools[c]]
    /\ eventCh' = 0 /\ batch' = 0 /\ writing' = FALSE
    /\ UNCHANGED <<month, aggregates, stray, forgotten, complete>>

\* RestoreFromAggregates; if the totals cannot be read the process starts without.
Restart ==
    /\ process = "down"
    /\ process' = "up"
    /\ counters' \in {aggregates, Zero}
    /\ forgotten' = [m \in Month |-> forgotten[m] +
                       (IF before[m] > counters'[m] THEN before[m] - counters'[m] ELSE 0)]
    /\ UNCHANGED <<month, aggregates, tools, eventCh, batch, writing, restarts, before,
                   stray, complete>>

NextMonth ==
    /\ month < MaxMonth /\ month' = month + 1
    /\ UNCHANGED <<counters, tools, storeSide, processSide, stray>>

MeterNext ==
    \/ \E c \in ToolCall : Consume(c) \/ RollBack(c) \/ ReleaseQuota(c) \/ queueAudit(c)
    \/ TakeEvent \/ RecordBatch \/ FlushAggregates
    \/ Shutdown \/ End \/ Restart \/ NextMonth

MeterSpec == MeterInit /\ [][MeterNext]_meterVars

(***************************************************************************)
(* Properties                                                              *)
(***************************************************************************)

MeterTypeOK ==
    /\ month \in Month
    /\ counters \in [Month -> Int] /\ before \in [Month -> Int]
    /\ aggregates \in [Month -> Nat] /\ stray \in [Month -> Nat] /\ forgotten \in [Month -> Nat]
    /\ tools \in [ToolCall -> [at : {"new", "over", "running", "refused", "released", "late",
                                    "served", "cut"}, month : Month]]
    /\ eventCh \in 0 .. EventBuffer /\ batch \in Nat /\ restarts \in 0 .. MaxRestarts
    /\ process \in {"up", "stopping", "down"} /\ writing \in BOOLEAN /\ complete \in BOOLEAN

\* Calls racing TryConsume never exceed the monthly quota, except by as many as
\* failed calls of an earlier month gave back to this one, and by what restarts
\* have forgotten.
QuotaKept ==
    \A m \in Month :
        Cardinality(Calls({"running", "served"}, m)) <= Quota + stray[m] + forgotten[m]

\* No call is being made and no event waits to be written.
Settled == /\ eventCh = 0 /\ batch = 0 /\ ~writing
           /\ \A c \in ToolCall : tools[c].at \notin {"over", "running"}

\* Once the writer is done no served call is missing from the totals, which are
\* what invoices are made from, unless an event was dropped, a write failed or
\* the process ended before.
ServedAreBilled ==
    complete /\ restarts = 0 /\ Settled =>
        \A m \in Month : Cardinality(Calls({"served"}, m)) <= aggregates[m] + stray[m]

\* ReleaseQuota is for calls that "should not be billed" (meter.go:191), and
\* usage_aggregates are "the source of truth for invoicing" (store.go:990): once
\* everything has settled no more is billed than was served.
OnlyServedBilled ==
    Settled => \A m \in Month : aggregates[m] <= Cardinality(Calls({"served"}, m))
=============================================================================
