---------------------------- MODULE OfflineQueue ----------------------------
(***************************************************************************)
(* The in-memory offline queue of the relay (pkg/queue/memory.go,          *)
(* MemoryStore): store-and-forward for recipients that are not connected.  *)
(*                                                                         *)
(* Every method holds the store's mutex from its first line to its return, *)
(* so every method is one action.  The per-recipient slices are one set of *)
(* entries: the code orders them only by QueuedAt, with an unstable sort   *)
(* and over maps of random iteration order, so ties are broken by nobody.  *)
(* An entry carries `ref', the identity of the accepted message, because   *)
(* two may agree in every field (a sender may repeat a message ID).        *)
(***************************************************************************)
EXTENDS Integers, FiniteSets

CONSTANTS
    DID,                  \* recipients
    ID,                   \* message IDs, chosen by the senders
    Ref,                  \* identities of queue entries
    MessageTTL,           \* Config.MessageTTL
    MaxQueueSize,         \* Config.MaxQueueSize, 0 = unlimited
    MaxTotalMessages,     \* Config.MaxTotalMessages, 0 = unlimited
    MaxDeliveryAttempts,  \* Config.MaxDeliveryAttempts, 0 = unlimited
    EnableDLQ,            \* Config.EnableDLQ
    DequeueLimit,         \* the `limit' callers pass to Dequeue, 0 = all
    MaxTime               \* bound on the clock

ASSUME ConfigAssumption ==
    /\ MessageTTL \in Nat
    /\ MaxQueueSize \in Nat
    /\ MaxTotalMessages \in Nat
    /\ MaxDeliveryAttempts \in Nat
    /\ EnableDLQ \in BOOLEAN
    /\ DequeueLimit \in Nat
    /\ MaxTime \in Nat

VARIABLES
    queued,      \* MemoryStore.queues: the entries of all recipients
    dlq,         \* MemoryStore.dlq: the dead letters of all recipients
    totalCount,  \* MemoryStore.totalCount
    closed,      \* MemoryStore.closed
    taken,       \* entries Dequeue returned and their caller still holds
    now          \* time.Now()

vars == <<queued, dlq, totalCount, closed, taken, now>>

Entry == [ref : Ref, id : ID, to : DID, queuedAt : Nat, attempts : Nat]

TypeOK ==
    /\ queued \subseteq Entry
    /\ dlq \subseteq Entry
    /\ totalCount \in Int
    /\ closed \in BOOLEAN
    /\ taken \subseteq Entry
    /\ now \in Nat

Init ==
    /\ queued = {}
    /\ dlq = {}
    /\ totalCount = 0
    /\ closed = FALSE
    /\ taken = {}
    /\ now = 0

(***************************************************************************)
(* Helpers.                                                                *)
(***************************************************************************)
IsExpired(m) == now > m.queuedAt + MessageTTL

QueueOf(d) == {m \in queued : m.to = d}

\* `len(s.queues[did]) >= MaxQueueSize': entries past their TTL still count.
QueueFull(d) == MaxQueueSize > 0 /\ Cardinality(QueueOf(d)) >= MaxQueueSize

\* What Enqueue returns for a message to d.
EnqueueResult(d) ==
    IF closed THEN "closed" ELSE IF QueueFull(d) THEN "full" ELSE "ok"

OldestOf(S) == {m \in S : \A n \in S : m.queuedAt <= n.queuedAt}

\* The sets of entries evictOldestLocked may remove.
evictOldestLocked ==
    IF queued = {} THEN {{}} ELSE {{m} : m \in OldestOf(queued)}

\* Mutant: compares with > instead of >=.
EvictionsLate ==
    IF MaxTotalMessages > 0 /\ totalCount > MaxTotalMessages
    THEN evictOldestLocked
    ELSE {{}}

Evictions ==
    IF MaxTotalMessages > 0 /\ totalCount >= MaxTotalMessages
    THEN evictOldestLocked
    ELSE {{}}

FreshRef == Ref \ {m.ref : m \in queued \cup taken \cup dlq}

\* Mutant: Dequeue without the sort.
DequeueUnsorted(d) ==
    LET live  == {m \in QueueOf(d) : ~IsExpired(m)}
        count == IF DequeueLimit > 0 /\ DequeueLimit < Cardinality(live)
                 THEN DequeueLimit ELSE Cardinality(live)
    IN  {r \in SUBSET live : Cardinality(r) = count}

\* The sets of entries Dequeue may return: as many unexpired ones as the
\* limit allows, none of them newer than an unexpired one left behind.
DequeueResults(d) ==
    LET live  == {m \in QueueOf(d) : ~IsExpired(m)}
        count == IF DequeueLimit > 0 /\ DequeueLimit < Cardinality(live)
                 THEN DequeueLimit ELSE Cardinality(live)
    IN  {r \in SUBSET live :
            /\ Cardinality(r) = count
            /\ \A m \in r, n \in live \ r : m.queuedAt <= n.queuedAt}

(***************************************************************************)
(* The methods of the store.                                               *)
(***************************************************************************)
\* Enqueue past its early returns: make room, append the clone.
AppendClone(m) ==
    \E gone \in Evictions :
        /\ queued' = (queued \ gone) \cup {m}
        /\ totalCount' = totalCount - Cardinality(gone) + 1

\* Mutant: Dequeue that peeks.
TakeNothingOut(r) == UNCHANGED <<queued, totalCount>>

\* Dequeue once it knows what it returns.
TakeOut(r) ==
    /\ queued' = queued \ r
    /\ totalCount' = totalCount - Cardinality(r)

\* Enqueue of a message the store has not seen.  The caller read QueuedAt
\* before it waited for the mutex, so it may lie behind the clock.
Enqueue(id, d, at) ==
    /\ EnqueueResult(d) = "ok"
    /\ \E r \in FreshRef :
          AppendClone([ref |-> r, id |-> id, to |-> d, queuedAt |-> at, attempts |-> 0])
    /\ UNCHANGED <<dlq, closed, taken, now>>

\* Mutant: the caller goes on with the message it put back.
RequeueAndKeep(m, dropped) ==
    /\ m \in taken
    /\ taken' = taken \ (dropped \ {m})
    /\ IF EnqueueResult(m.to) = "ok"
       THEN AppendClone(m)
       ELSE UNCHANGED <<queued, totalCount>>
    /\ UNCHANGED <<dlq, closed, now>>

\* Enqueue of a message that Dequeue returned and its caller could not hand
\* over.  The caller ignores the error, so a full or closed store drops the
\* message, and it lets go of some of the others it took (`dropped').
Requeue(m, dropped) ==
    /\ m \in taken
    /\ taken' = taken \ ({m} \cup dropped)
    /\ IF EnqueueResult(m.to) = "ok"
       THEN AppendClone(m)
       ELSE UNCHANGED <<queued, totalCount>>
    /\ UNCHANGED <<dlq, closed, now>>

Dequeue(d) ==
    /\ ~closed
    /\ \E r \in DequeueResults(d) :
          /\ r # {}
          /\ TakeOut(r)
          /\ taken' = taken \cup r
    /\ UNCHANGED <<dlq, closed, now>>

\* Callers are done with messages they took (they were handed over).
Forget(S) ==
    /\ taken' = taken \ S
    /\ UNCHANGED <<queued, dlq, totalCount, closed, now>>

Ack(id) ==
    /\ ~closed
    /\ \E m \in queued :
          /\ m.id = id
          /\ queued' = queued \ {m}
          /\ totalCount' = totalCount - 1
    /\ UNCHANGED <<dlq, closed, taken, now>>

\* Nack counts an attempt; the last permitted one moves the entry to the
\* dead-letter queue, or just drops it when EnableDLQ is off.
Nack(id) ==
    /\ ~closed
    /\ \E m \in queued :
          /\ m.id = id
          /\ LET tried == [m EXCEPT !.attempts = @ + 1] IN
             IF MaxDeliveryAttempts > 0 /\ tried.attempts >= MaxDeliveryAttempts
             THEN /\ queued' = queued \ {m}
                  /\ totalCount' = totalCount - 1
                  /\ dlq' = IF EnableDLQ THEN dlq \cup {tried} ELSE dlq
             ELSE /\ queued' = (queued \ {m}) \cup {tried}
                  /\ UNCHANGED <<dlq, totalCount>>
    /\ UNCHANGED <<closed, taken, now>>

\* Mutant: walks the dead letters instead of the queues.
CleanupDeadLetters ==
    /\ ~closed
    /\ dlq' = {m \in dlq : ~IsExpired(m)}
    /\ UNCHANGED <<queued, totalCount, closed, taken, now>>

Cleanup ==
    /\ ~closed
    /\ LET expired == {m \in queued : IsExpired(m)} IN
          /\ expired # {}
          /\ queued' = queued \ expired
          /\ totalCount' = totalCount - Cardinality(expired)
    /\ UNCHANGED <<dlq, closed, taken, now>>

\* Close drops both maps and leaves totalCount as it was.
Close ==
    /\ ~closed
    /\ closed' = TRUE
    /\ queued' = {}
    /\ dlq' = {}
    /\ UNCHANGED <<totalCount, taken, now>>

Tick ==
    /\ now < MaxTime
    /\ now' = now + 1
    /\ UNCHANGED <<queued, dlq, totalCount, closed, taken>>

Next ==
    \/ \E id \in ID, d \in DID, at \in 0..now : Enqueue(id, d, at)
    \/ \E m \in taken : \E dropped \in SUBSET taken : Requeue(m, dropped)
    \/ \E d \in DID : Dequeue(d)
    \/ \E S \in SUBSET taken : Forget(S)
    \/ \E id \in ID : Ack(id)
    \/ \E id \in ID : Nack(id)
    \/ Cleanup
    \/ Close
    \/ Tick

Spec == Init /\ [][Next]_vars

\* The relay's cleanup ticker keeps calling Cleanup, and time passes.
FairSpec == Spec /\ WF_vars(Cleanup) /\ WF_vars(Tick)

(***************************************************************************)
(* Properties.                                                             *)
(***************************************************************************)
\* While the store is open its totalCount field is the number of messages
\* really held, whatever mix of Enqueue, eviction, Dequeue, Ack, Nack and
\* Cleanup has run: the global limit is enforced against this counter.
CountIsExact == ~closed => totalCount = Cardinality(queued)

\* No recipient ever holds more than MaxQueueSize messages and the store
\* never more than MaxTotalMessages, re-queued messages included.
WithinLimits ==
    /\ MaxQueueSize > 0 => \A d \in DID : Cardinality(QueueOf(d)) <= MaxQueueSize
    /\ MaxTotalMessages > 0 => Cardinality(queued) <= MaxTotalMessages

\* A message that may still be delivered has attempts left, and a dead
\* letter has none: the attempt counter survives Dequeue and re-queueing.
AttemptsSplit ==
    MaxDeliveryAttempts > 0 =>
        /\ \A m \in queued \cup taken : m.attempts < MaxDeliveryAttempts
        /\ \A m \in dlq : m.attempts = MaxDeliveryAttempts

\* An entry is in one place: never both in the store and in the hands of a
\* caller, nor both pending and dead, so it cannot be delivered twice.
InOnePlace ==
    /\ queued \cap taken = {}
    /\ (queued \cup taken) \cap dlq = {}
    /\ \A m, n \in queued \cup taken \cup dlq : m.ref = n.ref => m = n

\* Dequeue hands out the oldest unexpired messages first: nothing it leaves
\* behind for that recipient is both unexpired and older than what it took.
TakesTheOldest ==
    \A m \in queued \cap (taken' \ taken) :
        /\ ~IsExpired(m)
        /\ \A n \in queued' : n.to = m.to /\ ~IsExpired(n) => m.queuedAt <= n.queuedAt

\* A message makes room for a new one only at the global limit, one at a
\* time, and only if no message of any recipient is older than it.
EvictsTheOldest ==
    LET refs(S) == {m.ref : m \in S} IN
    refs(queued') \ refs(queued) # {} =>
        \A m \in queued :
            m.ref \notin refs(queued') =>
                /\ m \in OldestOf(queued)
                /\ Cardinality(queued) = MaxTotalMessages
                /\ refs(queued) \ refs(queued') = {m.ref}

\* Whoever leaves the queue for a reader or for want of room is the oldest,
\* although re-queued messages are appended behind younger ones.
OldestLeaves == [][TakesTheOldest /\ EvictsTheOldest]_vars

\* A recipient whose queue is full of expired messages is not refused for
\* ever: Enqueue counts expired entries, but Cleanup comes and removes them.
ExpiredMakeRoom ==
    \A d \in DID :
        (QueueFull(d) /\ \A m \in QueueOf(d) : IsExpired(m))
            ~> (~QueueFull(d) \/ closed)
=============================================================================
