------------------------------ MODULE A2ATasks ------------------------------
(***************************************************************************)
(* adapters/a2a/server.go: the task store and the requests that use it.    *)
(* Each method of the store holds the lock; a request makes several calls, *)
(* and other requests, evictions and the cleanup loop come between them.   *)
(* A task ID is a random UUID: the order of IDs is not that of creation.   *)
(* Nothing starts a stream channel (StartStream) outside the tests, so     *)
(* CloseStream finds none and is left out.                                 *)
(***************************************************************************)
EXTENDS Naturals, Sequences, FiniteSets, Functions

CONSTANTS
    TaskID,               \* numbers, ordered as the strings are
    Session,
    KindOf,               \* ID -> the method of its request: "send" or "stream"
    MaxTasksPerSession,
    MaxOpen,              \* bound on the requests in progress at once
    MaxHistoryLen,
    Limit,                \* the page size a lister asks for
    Filters               \* and its filters: [sessions, states], the values accepted

ASSUME TasksAssumption ==
    /\ TaskID \subseteq Nat \ {0} /\ KindOf \in [TaskID -> {"send", "stream"}]
    /\ MaxTasksPerSession \in Nat \ {0} /\ MaxHistoryLen \in Nat \ {0} /\ Limit \in Nat \ {0}

TaskState == {"submitted", "working", "completed", "failed", "canceled"}

VARIABLES
    tasks,      \* the stored tasks: ID -> [session, state, history (its length)]
    expiry,     \* ID -> its deadline: "ahead" or "past"
    sessions,   \* session -> IDs, oldest first
    request,    \* ID -> where the request that created the task is
    listing,    \* a client that pages through tasks/list
    kept        \* history: the tasks that have matched since the listing began

a2aVars == <<tasks, expiry, sessions, request, listing, kept>>

NoCursor == 0
NoFilter == [sessions |-> Session, states |-> TaskState]
NotListing == [filter |-> NoFilter, cursor |-> NoCursor, seen |-> {}, at |-> "idle"]

IsTerminalState(s) == s \in {"completed", "failed", "canceled"}

A2AInit ==
    /\ tasks = <<>> /\ expiry = <<>> /\ sessions = <<>>
    /\ request = [t \in TaskID |-> "new"]
    /\ listing = NotListing /\ kept = {}

Kept(t) == t \in DOMAIN tasks
Omit(f, S) == Restrict(f, DOMAIN f \ S)
Set(f, x, v) == [y \in DOMAIN f \cup {x} |-> IF y = x THEN v ELSE f[y]]

\* The members of a finite set of numbers, in ascending order.
Ascending(S) ==
    CHOOSE m \in [1 .. Cardinality(S) -> S] : \A i, j \in DOMAIN m : i < j => m[i] < m[j]

\* removeString, for each of a set: the rest of a list, in its order.
RemoveStrings(line, gone) ==
    LET place == Ascending({i \in DOMAIN line : line[i] \notin gone})
    IN  [k \in DOMAIN place |-> line[place[k]]]

-----------------------------------------------------------------------------
(* The store. *)

\* Mutant: an evicted task stays in the map.
CreateWithoutEviction(t, s) ==
    LET line == IF s \in DOMAIN sessions THEN sessions[s] ELSE <<>>
        rest == IF Len(line) >= MaxTasksPerSession THEN Tail(line) ELSE line
    IN  /\ tasks' = Set(tasks, t, [session |-> s, state |-> "submitted", history |-> 1])
        /\ expiry' = Set(expiry, t, "ahead")
        /\ sessions' = Set(sessions, s, Append(rest, t))

\* The oldest task of a full session makes room, whatever its state.
CreateTask(t, s) ==
    LET line == IF s \in DOMAIN sessions THEN sessions[s] ELSE <<>>
        full == Len(line) >= MaxTasksPerSession
        rest == IF full THEN Tail(line) ELSE line
        gone == IF full THEN {Head(line)} ELSE {}
    IN  /\ tasks' = Omit(Set(tasks, t, [session |-> s, state |-> "submitted", history |-> 1]), gone)
        /\ expiry' = Omit(Set(expiry, t, "ahead"), gone)
        /\ sessions' = Set(sessions, s, Append(rest, t))

UpdateTaskStatus(t, state) ==
    IF Kept(t)
    THEN /\ tasks' = [tasks EXCEPT ![t].state = state]
         /\ expiry' = [expiry EXCEPT ![t] = "ahead"]
    ELSE UNCHANGED <<tasks, expiry>>

\* The history keeps its last MaxHistoryLen messages.
AddTaskMessage(t) ==
    IF Kept(t)
    THEN tasks' = [tasks EXCEPT ![t].history = IF @ < MaxHistoryLen THEN @ + 1 ELSE MaxHistoryLen]
    ELSE UNCHANGED tasks

Cancelable(t) == Kept(t) /\ tasks[t].state \in {"submitted", "working"}

\* The tick of cleanupLoop: expired tasks, and then the sessions left empty.
CleanExpired ==
    LET gone == {t \in DOMAIN expiry : expiry[t] = "past"}
        left == [s \in DOMAIN sessions |-> RemoveStrings(sessions[s], gone)]
    IN  /\ tasks' = Omit(tasks, gone)
        /\ expiry' = Omit(expiry, gone)
        /\ sessions' = Omit(left, {s \in DOMAIN left : left[s] = <<>>})
        /\ UNCHANGED <<request, listing>>

Matching(filter) ==
    {t \in DOMAIN tasks : tasks[t].session \in filter.sessions /\ tasks[t].state \in filter.states}

SortTasksByID(S) == Ascending(S)

\* Mutant: a cursor that has gone ends the list.
StartAtEnd(matching, cursor) ==
    IF \E i \in DOMAIN matching : matching[i] = cursor
    THEN CHOOSE i \in DOMAIN matching : matching[i] = cursor
    ELSE IF cursor = NoCursor THEN 0 ELSE Len(matching)

\* A cursor that no longer matches starts the list again.
StartIdx(matching, cursor) ==
    IF \E i \in DOMAIN matching : matching[i] = cursor
    THEN CHOOSE i \in DOMAIN matching : matching[i] = cursor
    ELSE 0

ListTasks(filter, cursor) ==
    LET matching == SortTasksByID(Matching(filter))
        start == StartIdx(matching, cursor)
        end == IF start + Limit > Len(matching) THEN Len(matching) ELSE start + Limit
    IN  [tasks |-> {matching[i] : i \in (start + 1) .. end},
         next |-> IF end < Len(matching) THEN matching[end] ELSE NoCursor]

-----------------------------------------------------------------------------
(* message/send and message/stream.  The handler is the agent's. *)

At(t, place) == request[t] = place
GoesTo(t, place) == request' = [request EXCEPT ![t] = place]

StartRequest(t, s) ==
    /\ At(t, "new")
    /\ Cardinality({u \in TaskID : request[u] \notin {"new", "returned"}}) < MaxOpen
    /\ CreateTask(t, s)
    /\ GoesTo(t, "created")
    /\ UNCHANGED <<listing>>

\* A stream whose client does not take an event returns and leaves the task.
StreamBroken(t) ==
    /\ KindOf[t] = "stream" /\ request[t] \in {"created", "handling"}
    /\ GoesTo(t, "returned")
    /\ UNCHANGED <<tasks, expiry, sessions, listing>>

StartWork(t) ==
    /\ At(t, "created")
    /\ UpdateTaskStatus(t, "working")
    /\ GoesTo(t, IF KindOf[t] = "stream" THEN "fetching" ELSE "handling")
    /\ UNCHANGED <<sessions, listing>>

\* A stream takes the task from the store again and ignores that it may be gone:
\* the nil task is dereferenced, and the request ends in a panic.
FetchTask(t) ==
    /\ At(t, "fetching")
    /\ GoesTo(t, IF Kept(t) THEN "handling" ELSE "returned")
    /\ UNCHANGED <<tasks, expiry, sessions, listing>>

\* The handler's answer, if it gives one, goes to the history.
HandlerReturns(t) ==
    /\ At(t, "handling")
    /\ AddTaskMessage(t) \/ UNCHANGED tasks
    /\ GoesTo(t, "answered")
    /\ UNCHANGED <<expiry, sessions, listing>>

\* buildResult and the final event read the task once more, if it is there.
CompleteTask(t, from, state) ==
    /\ At(t, from)
    /\ UpdateTaskStatus(t, state)
    /\ GoesTo(t, "returned")
    /\ UNCHANGED <<sessions, listing>>

\* tasks/cancel.  The deadline of the task is not moved.  The answer is read from
\* the store again, and panics if the task has gone; net/http recovers that.
CancelTask(t) ==
    /\ Cancelable(t)
    /\ tasks' = [tasks EXCEPT ![t].state = "canceled"]
    /\ UNCHANGED <<expiry, sessions, request, listing>>

\* A client asks for the next page with the cursor of the last one.
NextPage(filter) ==
    LET page == ListTasks(filter, listing.cursor)
    IN  /\ listing.at = "idle" \/ (listing.at = "more" /\ listing.filter = filter)
        /\ listing' = [filter |-> filter, cursor |-> page.next, seen |-> listing.seen \cup page.tasks,
                       at |-> IF page.next = NoCursor THEN "done" ELSE "more"]
        /\ kept' = IF listing.at = "idle" THEN Matching(filter) ELSE kept
        /\ UNCHANGED <<tasks, expiry, sessions, request>>

\* TaskTTL has passed since the task was created or its status last changed.
DeadlinePasses(t) ==
    /\ Kept(t) /\ expiry' = [expiry EXCEPT ![t] = "past"]
    /\ UNCHANGED <<tasks, sessions, request, listing>>

TaskStep ==
    \/ \E t \in TaskID :
          \/ \E s \in Session : StartRequest(t, s)
          \/ StreamBroken(t) \/ StartWork(t) \/ FetchTask(t) \/ HandlerReturns(t)
          \/ CompleteTask(t, "handling", "failed") \/ CompleteTask(t, "answered", "completed")
          \/ CancelTask(t) \/ DeadlinePasses(t)
    \/ CleanExpired

A2ANext ==
    \/ TaskStep /\ kept' = kept \cap Matching(listing.filter)'
    \/ \E filter \in Filters : NextPage(filter)

A2ATypeOK ==
    /\ DOMAIN tasks \subseteq TaskID /\ DOMAIN sessions \subseteq Session
    /\ \A t \in DOMAIN tasks : tasks[t] \in [session : Session, state : TaskState, history : 1 .. MaxHistoryLen]
    /\ listing.filter \in Filters \cup {NoFilter} /\ listing.seen \subseteq TaskID
    /\ kept \subseteq TaskID

-----------------------------------------------------------------------------
\* Tasks, deadlines and sessions agree after any mix of creations, evictions,
\* updates and cleanups: every task has a deadline and is listed once, in its own
\* session, no session is over its limit, and nothing is listed that is gone.
StoreIndexed ==
    /\ DOMAIN expiry = DOMAIN tasks
    /\ \A t \in DOMAIN tasks : tasks[t].session \in DOMAIN sessions
    /\ \A s \in DOMAIN sessions :
          /\ Range(sessions[s]) = {t \in DOMAIN tasks : tasks[t].session = s}
          /\ IsInjective(sessions[s])
          /\ Len(sessions[s]) <= MaxTasksPerSession

\* A client that follows the cursors of tasks/list to the end has seen every task
\* that matched its filter all the time, whatever was created, changed, evicted
\* or cleaned up between the pages, the task of the cursor included.
PagesComplete == listing.at = "done" => kept \subseteq listing.seen

\* As the comment of IsTerminalState says, no update follows a final state.
TerminalStays ==
    [][\A t \in DOMAIN tasks : IsTerminalState(tasks[t].state) /\ t \in DOMAIN tasks'
          => tasks'[t].state = tasks[t].state]_a2aVars
=============================================================================
