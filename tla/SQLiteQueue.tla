---------------------------- MODULE SQLiteQueue ----------------------------
(***************************************************************************)
(* The offline queue in SQLite (pkg/queue/sqlite.go, SQLiteStore).  The    *)
(* store's mutex serialises its methods, but a method is several           *)
(* statements without a transaction: the process may stop, or a statement  *)
(* may fail, between two of them.  `op' is the method that holds the       *)
(* mutex.  Tables survive a crash; what a method holds in memory does not. *)
(*                                                                         *)
(* The relay drops what a failed Dequeue returned (client.go,              *)
(* deliverQueuedMessages), so a failure and a crash lose the same rows.    *)
(* Dead letters are kept (EnableDLQ, the default).                         *)
(***************************************************************************)
EXTENDS Clock, FiniteSets

CONSTANTS
    Mail,         \* accepted messages; MailId gives the ID of each
    MailId,
    Recipient,
    RowTTL,       \* Config.MessageTTL
    RowLimit,     \* Config.MaxQueueSize, 0 = unlimited
    Tries,        \* Config.MaxDeliveryAttempts, 0 = unlimited
    Batch,        \* the limit callers pass to Dequeue
    MaxFaults     \* bound on crashes and failed statements

ASSUME SQLiteAssumption ==
    /\ RowTTL \in Nat /\ RowLimit \in Nat /\ Tries \in Nat
    /\ Batch \in Nat \ {0} /\ MaxFaults \in Nat

NoOp == [kind |-> "none", batch |-> {}, left |-> {}]

VARIABLES
    mail,      \* table message_queue
    dead,      \* table dead_letter_queue
    op,        \* the method in progress and the rows in its hands
    handed,    \* rows a Dequeue returned and nobody put back
    accepted,  \* history: messages Enqueue has accepted
    finished,  \* history: messages acknowledged or expired
    faults

sqVars == <<mail, dead, op, handed, accepted, finished, faults, now>>

Row == [msg : Mail, to : Recipient, at : Nat, tries : Nat]

IdOf(r) == MailId[r.msg]
Ids(table) == {IdOf(r) : r \in table}
Msgs(table) == {r.msg : r \in table}

SQTypeOK ==
    /\ mail \subseteq Row /\ dead \subseteq Row
    /\ op.kind \in {"none", "dequeue", "bury"}
    /\ op.left \subseteq op.batch /\ op.left \subseteq mail
    /\ \A r, s \in mail : IdOf(r) = IdOf(s) => r = s    \* PRIMARY KEY
    /\ \A r, s \in dead : IdOf(r) = IdOf(s) => r = s

SQInit ==
    /\ mail = {} /\ dead = {}
    /\ op = NoOp
    /\ handed = {} /\ accepted = {} /\ finished = {}
    /\ faults = 0 /\ now = 0

Idle == op.kind = "none"
Live(d) == {r \in mail : r.to = d /\ r.at + RowTTL > now}

\* Mutant: the table has no primary key.
SQEnqueueTwice(r) ==
    /\ Idle
    /\ RowLimit > 0 => Cardinality({s \in mail : s.to = r.to}) < RowLimit
    /\ mail' = mail \cup {r}
    /\ accepted' = accepted \cup {r.msg}
    /\ handed' = handed \ {r}
    /\ UNCHANGED <<dead, op, finished, faults, now>>

\* Enqueue: a new message, or one the relay took out and could not hand over.
\* The count is over all rows of the recipient, expired ones too; the primary
\* key refuses an ID that is in the table.
SQEnqueue(r) ==
    /\ Idle
    /\ RowLimit > 0 => Cardinality({s \in mail : s.to = r.to}) < RowLimit
    /\ IdOf(r) \notin Ids(mail)
    /\ mail' = mail \cup {r}
    /\ accepted' = accepted \cup {r.msg}
    /\ handed' = handed \ {r}
    /\ UNCHANGED <<dead, op, finished, faults, now>>

\* The SELECT of Dequeue: the oldest live rows, up to the limit.
SQDequeue(d) ==
    /\ Idle
    /\ \E b \in SUBSET Live(d) :
          /\ b # {}
          /\ Cardinality(b) = Batch \/ (b = Live(d) /\ Cardinality(b) <= Batch)
          /\ \A r \in b, s \in Live(d) \ b : r.at <= s.at
          /\ op' = [kind |-> "dequeue", batch |-> b, left |-> b]
    /\ UNCHANGED <<mail, dead, handed, accepted, finished, faults, now>>

\* Mutant: deletes by recipient.
DeleteAll ==
    /\ op.kind = "dequeue" /\ op.left # {}
    /\ mail' = {r \in mail : \A s \in op.left : r.to # s.to}
    /\ op' = [op EXCEPT !.left = {}]
    /\ UNCHANGED <<dead, handed, accepted, finished, faults, now>>

\* One DELETE of Dequeue, in the order of the SELECT.
DeleteOne ==
    /\ op.kind = "dequeue"
    /\ \E r \in op.left :
          /\ \A s \in op.left : r.at <= s.at
          /\ mail' = mail \ {r}
          /\ op' = [op EXCEPT !.left = @ \ {r}]
    /\ UNCHANGED <<dead, handed, accepted, finished, faults, now>>

\* Dequeue returns the batch.
Return ==
    /\ op.kind = "dequeue" /\ op.left = {}
    /\ handed' = handed \cup op.batch
    /\ op' = NoOp
    /\ UNCHANGED <<mail, dead, accepted, finished, faults, now>>

SQAck(r) ==
    /\ Idle /\ r \in mail
    /\ mail' = mail \ {r}
    /\ finished' = finished \cup {r.msg}
    /\ UNCHANGED <<dead, op, handed, accepted, faults, now>>

LastTry(r) == Tries > 0 /\ r.tries + 1 >= Tries

\* Nack below the limit: one UPDATE.
SQRetry(r) ==
    /\ Idle /\ r \in mail /\ ~LastTry(r)
    /\ mail' = (mail \ {r}) \cup {[r EXCEPT !.tries = @ + 1]}
    /\ UNCHANGED <<dead, op, handed, accepted, finished, faults, now>>

\* Nack at the limit: INSERT into the dead letters, which fails if the ID is
\* there already, and ...
Bury(r) ==
    /\ Idle /\ r \in mail /\ LastTry(r)
    /\ IdOf(r) \notin Ids(dead)
    /\ dead' = dead \cup {[r EXCEPT !.tries = @ + 1]}
    /\ op' = [kind |-> "bury", batch |-> {r}, left |-> {r}]
    /\ UNCHANGED <<mail, handed, accepted, finished, faults, now>>

\* ... DELETE from the queue.
BuryDelete ==
    /\ op.kind = "bury"
    /\ mail' = mail \ op.left
    /\ op' = NoOp
    /\ UNCHANGED <<dead, handed, accepted, finished, faults, now>>

\* Mutant: spares what is among the dead letters.
CleanupSparing ==
    /\ Idle
    /\ LET old == {r \in mail : r.at + RowTTL <= now /\ IdOf(r) \notin Ids(dead)} IN
          /\ old # {}
          /\ mail' = mail \ old
          /\ finished' = finished \cup Msgs(old)
    /\ UNCHANGED <<dead, op, handed, accepted, faults, now>>

SQCleanup ==
    /\ Idle
    /\ LET old == {r \in mail : r.at + RowTTL <= now} IN
          /\ old # {}
          /\ mail' = mail \ old
          /\ finished' = finished \cup Msgs(old)
    /\ UNCHANGED <<dead, op, handed, accepted, faults, now>>

\* A statement fails and the method returns its error, or the process stops
\* and opens the database again.
Fault ==
    /\ ~Idle /\ faults < MaxFaults
    /\ faults' = faults + 1
    /\ op' = NoOp
    /\ UNCHANGED <<mail, dead, handed, accepted, finished, now>>

SQTick == Advance /\ UNCHANGED <<mail, dead, op, handed, accepted, finished, faults>>

SQNext ==
    \/ \E m \in Mail \ accepted, d \in Recipient :
          now + RowTTL <= MaxTime /\ SQEnqueue([msg |-> m, to |-> d, at |-> now, tries |-> 0])
    \/ \E r \in handed : SQEnqueue(r)
    \/ \E d \in Recipient : SQDequeue(d)
    \/ DeleteOne \/ Return
    \/ \E r \in mail : SQAck(r) \/ SQRetry(r) \/ Bury(r)
    \/ BuryDelete \/ SQCleanup \/ Fault \/ SQTick

SQSpec == SQInit /\ [][SQNext]_sqVars

\* What was accepted and is in no table and in nobody's hands.
Lost == accepted \ (finished \cup Msgs(mail \cup dead \cup handed \cup op.batch))

\* A failed or interrupted Dequeue loses at most its own batch; without such
\* a fault nothing that was accepted is lost.
LossBounded == Cardinality(Lost) <= Batch * faults

\* A row whose ID is among the dead letters can not be buried any more (the
\* INSERT fails), but it does not stay for ever: it is delivered or expires.
StuckRowsLeave ==
    \A m \in Mail :
        (\E r \in mail : r.msg = m /\ IdOf(r) \in Ids(dead)) ~> m \notin Msgs(mail)
=============================================================================
