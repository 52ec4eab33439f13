---------------------------- MODULE AgentRunner ----------------------------
(***************************************************************************)
(* cmd/agent-runner: tasks that run as systemd units, one at a time per    *)
(* worker.  A job is a message/send that was validated, with the goroutine *)
(* it starts; cancels and the wait group hold the jobs with places in      *)
(* InCancels and InWaitGroup.  The process ends with a signal (CancelAll,  *)
(* Wait), when the relay is lost (at once, without either) or by a crash,  *)
(* and systemd starts it again.  Units outlive it.                         *)
(***************************************************************************)
EXTENDS Naturals, FiniteSets

CONSTANTS
    Job,
    Worker,
    MaxConcurrent,
    MaxStarts,       \* bound on the starts of the process
    MaxLapses        \* bound on failed updates of the table

ASSUME RunnerAssumption == MaxConcurrent \in Nat \ {0} /\ MaxStarts \in Nat /\ MaxLapses \in Nat

Terminal == {"completed", "failed", "canceled"}

VARIABLES
    worker,     \* job -> the worker whose agent received it
    at,         \* where the job's goroutine is
    outcome,    \* t.State in memory ("submitted" when the job is not there)
    row,        \* the state in the table tasks, or "none"
    canceled,   \* jobs whose context is canceled
    perTool,    \* worker -> runs that hold its slot
    global,     \* runs that hold a global slot
    units,      \* systemd: jobs whose unit runs
    answer,     \* history: the state sent to the job's sender, or "none"
    unsaved,    \* history: jobs with an update of the table that failed
    process,    \* "up", "stopping" (between CancelAll and the end of Wait), "down"
    starts

runVars == <<worker, at, outcome, row, canceled, perTool, global, units, answer, unsaved, process, starts>>

InWaitGroup == {"slot", "global", "ready", "prepare", "running", "ran", "slotted", "ended", "saved", "replied"}
InCancels == InWaitGroup \cup {"registered"}

RunInit ==
    /\ worker \in [Job -> Worker]
    /\ at = [j \in Job |-> "new"]
    /\ outcome = [j \in Job |-> "submitted"]
    /\ row = [j \in Job |-> "none"]
    /\ canceled = {} /\ units = {} /\ unsaved = {}
    /\ perTool = [w \in Worker |-> 0] /\ global = 0
    /\ answer = [j \in Job |-> "none"]
    /\ process = "up" /\ starts = 1

Moves(j, from, to) ==
    /\ at[j] = from /\ UNCHANGED worker
    /\ at' = [at EXCEPT ![j] = to]

-----------------------------------------------------------------------------
(* Submit, in a handler of the worker's agent. *)

CreateRow(j) ==
    /\ process # "down"
    /\ Moves(j, "new", "persisted")
    /\ row' = [row EXCEPT ![j] = "submitted"]
    /\ UNCHANGED <<outcome, canceled, perTool, global, units, answer, unsaved, process, starts>>

RegisterCancel(j) ==
    /\ Moves(j, "persisted", "registered")
    /\ UNCHANGED <<outcome, row, canceled, perTool, global, units, answer, unsaved, process, starts>>

Launch(j) ==
    /\ Moves(j, "registered", "slot")
    /\ UNCHANGED <<outcome, row, canceled, perTool, global, units, answer, unsaved, process, starts>>

\* Cancel, for a task that is in the table.
Cancel(j) ==
    /\ process # "down" /\ row[j] # "none" /\ at[j] \in InCancels
    /\ canceled' = canceled \cup {j}
    /\ UNCHANGED <<worker, at, outcome, row, perTool, global, units, answer, unsaved, process, starts>>

-----------------------------------------------------------------------------
(* run *)

\* Of a free slot and a canceled context, select takes either.
AcquireSlot(j) ==
    \/ /\ Moves(j, "slot", "global") /\ perTool[worker[j]] < 1
       /\ perTool' = [perTool EXCEPT ![worker[j]] = @ + 1]
       /\ UNCHANGED <<outcome, row, canceled, global, units, answer, unsaved, process, starts>>
    \/ /\ Moves(j, "slot", "ended") /\ j \in canceled
       /\ UNCHANGED <<outcome, row, canceled, perTool, global, units, answer, unsaved, process, starts>>

AcquireGlobal(j) ==
    \/ /\ Moves(j, "global", "ready") /\ global < MaxConcurrent
       /\ global' = global + 1
       /\ UNCHANGED <<outcome, row, canceled, perTool, units, answer, unsaved, process, starts>>
    \/ /\ Moves(j, "global", "slotted") /\ j \in canceled
       /\ UNCHANGED <<outcome, row, canceled, perTool, global, units, answer, unsaved, process, starts>>

\* Store.Update; an error is logged and the job goes on.
Update(j, state) ==
    \/ row' = [row EXCEPT ![j] = state] /\ UNCHANGED unsaved
    \/ /\ Cardinality(unsaved) < MaxLapses
       /\ unsaved' = unsaved \cup {j} /\ UNCHANGED row

StartExecute(j) ==
    /\ Moves(j, "ready", "prepare")
    /\ outcome' = [outcome EXCEPT ![j] = "working"]
    /\ Update(j, "working")
    /\ UNCHANGED <<canceled, perTool, global, units, answer, process, starts>>

\* The directory or an overlay cannot be prepared.
PrepareFails(j) ==
    /\ Moves(j, "prepare", "ran")
    /\ outcome' = [outcome EXCEPT ![j] = "failed"]
    /\ UNCHANGED <<row, canceled, perTool, global, units, answer, unsaved, process, starts>>

StartUnit(j) ==
    /\ Moves(j, "prepare", "running")
    /\ units' = units \cup {j}
    /\ UNCHANGED <<outcome, row, canceled, perTool, global, answer, unsaved, process, starts>>

\* The unit ends by itself, at the timeout, or because a cancel stops it; the
\* context is looked at after that.
EndExecute(j) ==
    /\ Moves(j, "running", "ran")
    /\ units' = units \ {j}
    /\ outcome' \in {[outcome EXCEPT ![j] = s] :
                        s \in IF j \in canceled THEN {"canceled"} ELSE {"completed", "failed"}}
    /\ UNCHANGED <<row, canceled, perTool, global, answer, unsaved, process, starts>>

ReleaseGlobal(j) ==
    /\ Moves(j, "ran", "slotted")
    /\ global' = global - 1
    /\ UNCHANGED <<outcome, row, canceled, perTool, units, answer, unsaved, process, starts>>

\* Mutant: the worker's slot is not given back.
ReleaseNothing(j) ==
    /\ Moves(j, "slotted", "ended")
    /\ UNCHANGED <<outcome, row, canceled, perTool, global, units, answer, unsaved, process, starts>>

ReleaseSlot(j) ==
    /\ Moves(j, "slotted", "ended")
    /\ perTool' = [perTool EXCEPT ![worker[j]] = @ - 1]
    /\ UNCHANGED <<outcome, row, canceled, global, units, answer, unsaved, process, starts>>

SaveOutcome(j) ==
    LET state == IF outcome[j] \in Terminal THEN outcome[j] ELSE "canceled"
    IN  /\ Moves(j, "ended", "saved")
        /\ outcome' = [outcome EXCEPT ![j] = state]
        /\ Update(j, state)
        /\ UNCHANGED <<canceled, perTool, global, units, answer, process, starts>>

\* The reply is sent, or fails, which is logged.
Reply(j) ==
    /\ Moves(j, "saved", "replied")
    /\ answer' \in {answer, [answer EXCEPT ![j] = outcome[j]]}
    /\ UNCHANGED <<outcome, row, canceled, perTool, global, units, unsaved, process, starts>>

Unregister(j) ==
    /\ Moves(j, "replied", "done")
    /\ canceled' = canceled \ {j} /\ outcome' = [outcome EXCEPT ![j] = "submitted"]
    /\ UNCHANGED <<row, perTool, global, units, answer, unsaved, process, starts>>

-----------------------------------------------------------------------------
(* The process. *)

\* A signal: the jobs registered now are canceled.  The agents still run.
CancelAll ==
    /\ process = "up"
    /\ process' = "stopping"
    /\ canceled' = canceled \cup {j \in Job : at[j] \in InCancels}
    /\ UNCHANGED <<worker, at, outcome, row, perTool, global, units, answer, unsaved, starts>>

\* What ends with the process.
Gone ==
    /\ process' = "down"
    /\ at' = [j \in Job |-> IF at[j] \in {"new", "done"} THEN at[j] ELSE "dead"]
    /\ outcome' = [j \in Job |-> "submitted"] /\ canceled' = {}
    /\ perTool' = [w \in Worker |-> 0] /\ global' = 0
    /\ UNCHANGED <<worker, row, units, answer, unsaved, starts>>

Wait ==
    /\ process = "stopping" /\ \A j \in Job : at[j] \notin InWaitGroup
    /\ Gone

\* run returns when a health check fails: no CancelAll, no Wait.  A crash, at any
\* time, does the same.
RelayLost ==
    /\ process \in {"up", "stopping"}
    /\ Gone

\* Mutant: every task of an earlier process is an orphan.
FailAll ==
    /\ process = "down" /\ starts < MaxStarts
    /\ row' = [j \in Job |-> IF row[j] # "none" THEN "failed" ELSE row[j]]
    /\ process' = "up" /\ starts' = starts + 1
    /\ UNCHANGED <<worker, at, outcome, canceled, perTool, global, units, answer, unsaved>>

FailOrphans ==
    /\ process = "down" /\ starts < MaxStarts
    /\ row' = [j \in Job |-> IF row[j] \in {"submitted", "working"} THEN "failed" ELSE row[j]]
    /\ process' = "up" /\ starts' = starts + 1
    /\ UNCHANGED <<worker, at, outcome, canceled, perTool, global, units, answer, unsaved>>

\* systemd: a unit without its runner ends, at RuntimeMaxSec at the latest.
UnitEnds(j) ==
    /\ j \in units /\ at[j] = "dead"
    /\ units' = units \ {j}
    /\ UNCHANGED <<worker, at, outcome, row, canceled, perTool, global, answer, unsaved, process, starts>>

Proceed(j) ==
    \/ RegisterCancel(j) \/ Launch(j)
    \/ AcquireSlot(j) \/ AcquireGlobal(j)
    \/ StartExecute(j) \/ PrepareFails(j) \/ StartUnit(j) \/ EndExecute(j)
    \/ ReleaseGlobal(j) \/ ReleaseSlot(j)
    \/ SaveOutcome(j) \/ Reply(j) \/ Unregister(j)

RunNext ==
    \/ \E j \in Job : CreateRow(j) \/ Cancel(j) \/ Proceed(j) \/ UnitEnds(j)
    \/ CancelAll \/ Wait \/ RelayLost \/ FailOrphans

RunTypeOK ==
    /\ worker \in [Job -> Worker]
    /\ outcome \in [Job -> {"submitted", "working"} \cup Terminal]
    /\ row \in [Job -> {"none", "submitted", "working"} \cup Terminal]
    /\ answer \in [Job -> {"none"} \cup Terminal]
    /\ perTool \in [Worker -> 0 .. 1] /\ global \in 0 .. MaxConcurrent
    /\ canceled \subseteq Job /\ units \subseteq Job /\ unsaved \subseteq Job

-----------------------------------------------------------------------------
\* An answer counts as told when the table holds every state of the job.
TL == INSTANCE TaskLife WITH
    Task <- Job, life <- row,
    told <- [j \in Job |-> IF j \in unsaved THEN "none" ELSE answer[j]]

\* The runner implements TaskLife: through cancels, the loss of the relay, a crash
\* at any step and restarts, what the table says of a task only moves forward and
\* stays as it ended, and a sender that got tasks/result and asks tasks/get is told
\* the same, then and later, unless the table could not be written.
KeepsItsWord == TL!Spec

\* Every task that was accepted ends: it is run, or canceled, or failed by the
\* next start of the process.  A slot that is not given back, or a task that
\* neither the goroutine nor FailOrphans takes care of, would break this.
TasksEnd ==
    \A j \in Job :
        row[j] \in {"submitted", "working"}
            ~> \/ row[j] \in Terminal \/ j \in unsaved
               \/ process = "down" /\ starts = MaxStarts

=============================================================================
