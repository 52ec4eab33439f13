---------------------------- MODULE StoresProofs ----------------------------
(***************************************************************************)
(* Theorems about the stores, for every number of messages, recipients and *)
(* faults, and every configuration.                                        *)
(*                                                                         *)
(* The queue in SQLite: a step takes a message out of the store's hands    *)
(* only by giving it to a caller, by finishing with it, or, when a fault   *)
(* cuts a Dequeue short, as one of the batch: at most Batch messages for a *)
(* fault.                                                                  *)
(*                                                                         *)
(* The tasks of the A2A server: the maps of tasks and deadlines and the    *)
(* lists of the sessions agree after every request, and a listing has      *)
(* shown what matched all along up to the cursor it has reached.           *)
(*                                                                         *)
(* The tasks of the agent runner: a row says what its goroutine has done,  *)
(* whenever the process ends.                                              *)
(*                                                                         *)
(* The tools of the MCP server: what they say of the inbox, the tasks and  *)
(* the registration of a session is so.                                    *)
(***************************************************************************)
EXTENDS SQLiteQueue, A2ATasks, AgentRunner, ToolServer, FiniteSetTheorems, TLAPS

-----------------------------------------------------------------------------
(* The queue in SQLite.                                                    *)

SQTypes ==
    /\ SQTypeOK
    /\ IsFiniteSet(mail) /\ handed \subseteq Row
    /\ now \in 0 .. MaxTime /\ faults \in Nat
    /\ op.batch \subseteq Row /\ IsFiniteSet(op.batch) /\ Cardinality(op.batch) <= Batch
    /\ op = [kind |-> op.kind, batch |-> op.batch, left |-> op.left]

\* The row a Nack buries is among the dead letters before it leaves the queue, and a
\* method that has returned holds nothing.
OpSound ==
    /\ op.kind = "none" => op = NoOp
    /\ op.kind = "bury" => Msgs(op.batch) \subseteq Msgs(dead)

SQInv ==
    /\ SQTypes /\ OpSound
    /\ IsFiniteSet(Lost) /\ LossBounded

\* The messages that the store, its callers or the history account for.
Safe == finished \cup Msgs(mail \cup dead \cup handed \cup op.batch)

\* The statements of the methods keep the tables' types and their primary keys, what
\* a Dequeue holds is no more than its limit, and a row is buried before it leaves.
LEMMA SQTypesStep == SQTypes /\ OpSound /\ [SQNext]_sqVars => SQTypes' /\ OpSound'
<1> SUFFICES ASSUME SQTypes, OpSound, [SQNext]_sqVars PROVE SQTypes' /\ OpSound'
  OBVIOUS
<1>a. Batch \in Nat \ {0} /\ Tries \in Nat /\ RowTTL \in Nat /\ MaxTime \in Nat
  BY Zenon, SQLiteAssumption, ClockAssumption
<1>n. /\ IsFiniteSet({}) /\ Cardinality({}) = 0 /\ 0 <= Batch
      /\ \A r : IsFiniteSet({r}) /\ Cardinality({r}) <= Batch
  <2>1. IsFiniteSet({}) /\ Cardinality({}) = 0
    BY Zenon, FS_EmptySet
  <2>2. \A r : IsFiniteSet({r}) /\ Cardinality({r}) = 1
    BY FS_Singleton, Zenon
  <2>3. ASSUME NEW r PROVE IsFiniteSet({r}) /\ Cardinality({r}) <= Batch
    <3>1. IsFiniteSet({r}) /\ Cardinality({r}) = 1
      BY <2>2, Zenon
    <3> QED
      BY <1>a, <3>1
  <2>4. 0 <= Batch
    BY <1>a
  <2> QED
    BY <2>1, <2>3, <2>4, Zenon
<1>t. /\ mail \subseteq Row /\ dead \subseteq Row /\ handed \subseteq Row
      /\ op.kind \in {"none", "dequeue", "bury"}
      /\ op.left \subseteq op.batch /\ op.left \subseteq mail
      /\ \A r, s \in mail : IdOf(r) = IdOf(s) => r = s
      /\ \A r, s \in dead : IdOf(r) = IdOf(s) => r = s
      /\ IsFiniteSet(mail) /\ now \in 0 .. MaxTime /\ faults \in Nat
      /\ op.batch \subseteq Row /\ IsFiniteSet(op.batch) /\ Cardinality(op.batch) <= Batch
      /\ op = [kind |-> op.kind, batch |-> op.batch, left |-> op.left]
      /\ op.kind = "none" => op = NoOp
      /\ op.kind = "bury" => Msgs(op.batch) \subseteq Msgs(dead)
  BY Zenon DEF SQTypes, SQTypeOK, OpSound
<1>r. \A r \in Row : [r EXCEPT !.tries = @ + 1] \in Row /\ IdOf([r EXCEPT !.tries = @ + 1]) = IdOf(r)
                     /\ [r EXCEPT !.tries = @ + 1].msg = r.msg
  BY DEF Row, IdOf
\* Enough for the methods that return at once.
<1>m. ASSUME mail' \subseteq Row, IsFiniteSet(mail'), handed' \subseteq Row, Idle,
             \A r, s \in mail' : IdOf(r) = IdOf(s) => r = s,
             UNCHANGED <<dead, op, faults, now>>
      PROVE  SQTypes' /\ OpSound'
  BY <1>t, <1>m DEF SQTypes, SQTypeOK, OpSound, NoOp, Idle
<1>1. ASSUME NEW r \in Row, SQEnqueue(r) PROVE SQTypes' /\ OpSound'
  <2>1. IsFiniteSet(mail')
    BY Zenon, <1>t, <1>1, FS_AddElement DEF SQEnqueue
  <2>2. \A x, y \in mail' : IdOf(x) = IdOf(y) => x = y
    BY Zenon, <1>t, <1>1 DEF SQEnqueue, Ids
  <2> QED
    BY Zenon, <1>t, <1>m, <1>1, <2>1, <2>2 DEF SQEnqueue
<1>2. ASSUME NEW d \in Recipient, SQDequeue(d) PROVE SQTypes' /\ OpSound'
  <2>1. PICK b \in SUBSET Live(d) :
           /\ Cardinality(b) = Batch \/ Cardinality(b) <= Batch
           /\ op' = [kind |-> "dequeue", batch |-> b, left |-> b]
    BY Zenon, <1>2 DEF SQDequeue
  <2>2. b \subseteq mail /\ IsFiniteSet(b)
    BY Zenon, <1>t, FS_Subset DEF Live
  <2>3. Cardinality(b) <= Batch
    BY <1>a, <2>1
  <2> QED
    BY Zenon, <1>t, <1>2, <2>1, <2>2, <2>3 DEF SQDequeue, SQTypes, SQTypeOK, OpSound
<1>3. ASSUME DeleteOne PROVE SQTypes' /\ OpSound'
  <2>1. PICK r \in op.left : mail' = mail \ {r} /\ op' = [op EXCEPT !.left = @ \ {r}]
    BY Zenon, <1>3 DEF DeleteOne
  <2>2. op' = [kind |-> "dequeue", batch |-> op.batch, left |-> op.left \ {r}]
    BY Zenon, <1>t, <1>3, <2>1 DEF DeleteOne
  <2>3. IsFiniteSet(mail')
    BY Zenon, <1>t, <2>1, FS_RemoveElement
  <2> QED
    BY Zenon, <1>t, <1>3, <2>1, <2>2, <2>3 DEF DeleteOne, SQTypes, SQTypeOK, OpSound
<1>4. ASSUME Return \/ Fault PROVE SQTypes' /\ OpSound'
  <2>1. /\ op' = NoOp /\ UNCHANGED <<mail, dead, now>>
        /\ handed' \subseteq handed \cup op.batch /\ faults' \in {faults, faults + 1}
    BY Zenon, <1>4 DEF Return, Fault
  <2>2. handed' \subseteq Row
    BY Zenon, <1>t, <2>1
  <2> QED
    BY <1>t, <1>n, <2>1, <2>2 DEF NoOp, SQTypes, SQTypeOK, OpSound
<1>5. ASSUME NEW r \in mail, SQAck(r) PROVE SQTypes' /\ OpSound'
  <2>1. IsFiniteSet(mail')
    BY Zenon, <1>t, <1>5, FS_RemoveElement DEF SQAck
  <2> QED
    BY Zenon, <1>t, <1>m, <1>5, <2>1 DEF SQAck
<1>6. ASSUME NEW r \in mail, SQRetry(r) PROVE SQTypes' /\ OpSound'
  <2> DEFINE u == [r EXCEPT !.tries = @ + 1]
  <2>1. u \in Row /\ IdOf(u) = IdOf(r)
    BY Zenon, <1>t, <1>r
  <2>2. mail' = (mail \ {r}) \cup {u}
    BY Zenon, <1>6 DEF SQRetry
  <2> HIDE DEF u
  <2>3. IsFiniteSet(mail')
    BY Zenon, <1>t, <2>2, FS_RemoveElement, FS_AddElement
  <2>4. \A x, y \in mail' : IdOf(x) = IdOf(y) => x = y
    BY Zenon, <1>t, <2>1, <2>2
  <2> QED
    BY Zenon, <1>t, <1>m, <1>6, <2>1, <2>2, <2>3, <2>4 DEF SQRetry
<1>7. ASSUME NEW r \in mail, Bury(r) PROVE SQTypes' /\ OpSound'
  <2> DEFINE u == [r EXCEPT !.tries = @ + 1]
  <2>1. u \in Row /\ IdOf(u) = IdOf(r) /\ u.msg = r.msg
    BY Zenon, <1>t, <1>r
  <2>2. /\ dead' = dead \cup {u} /\ IdOf(r) \notin Ids(dead)
        /\ op' = [kind |-> "bury", batch |-> {r}, left |-> {r}]
        /\ UNCHANGED <<mail, handed, faults, now>>
    BY Zenon, <1>7 DEF Bury
  <2> HIDE DEF u
  <2>3. \A x, y \in dead' : IdOf(x) = IdOf(y) => x = y
    BY Zenon, <1>t, <2>1, <2>2 DEF Ids
  <2>4. Msgs(op'.batch) \subseteq Msgs(dead')
    BY Zenon, <2>1, <2>2 DEF Msgs
  <2> QED
    BY Zenon, <1>t, <1>n, <2>1, <2>2, <2>3, <2>4 DEF SQTypes, SQTypeOK, OpSound
<1>8. ASSUME BuryDelete PROVE SQTypes' /\ OpSound'
  <2>1. mail' = mail \ op.left /\ op' = NoOp /\ UNCHANGED <<dead, handed, faults, now>>
    BY Zenon, <1>8 DEF BuryDelete
  <2>2. IsFiniteSet(mail')
    BY Zenon, <1>t, <2>1, FS_Subset
  <2> QED
    BY Zenon, <1>t, <1>n, <2>1, <2>2 DEF NoOp, SQTypes, SQTypeOK, OpSound
<1>9. ASSUME SQCleanup PROVE SQTypes' /\ OpSound'
  <2>1. mail' \subseteq mail /\ UNCHANGED <<dead, op, handed, faults, now>> /\ Idle
    BY Zenon, <1>9 DEF SQCleanup
  <2>2. IsFiniteSet(mail')
    BY Zenon, <1>t, <2>1, FS_Subset
  <2> QED
    BY Zenon, <1>t, <1>m, <2>1, <2>2
<1>10. ASSUME SQTick \/ UNCHANGED sqVars PROVE SQTypes' /\ OpSound'
  <2>1. now' \in 0 .. MaxTime /\ UNCHANGED <<mail, dead, op, handed, faults>>
    BY <1>a, <1>t, <1>10 DEF SQTick, Advance, sqVars
  <2> QED
    BY Zenon, <1>t, <2>1 DEF SQTypes, SQTypeOK, OpSound
<1>11. ASSUME NEW m \in Mail \ accepted, NEW d \in Recipient
       PROVE  [msg |-> m, to |-> d, at |-> now, tries |-> 0] \in Row
  BY <1>t DEF Row
<1> QED
  BY Zenon, <1>t, <1>1, <1>2, <1>3, <1>4, <1>5, <1>6, <1>7, <1>8, <1>9, <1>10, <1>11 DEF SQNext

\* Apart from faults, a step accounts for all that was accounted for, and for what
\* Enqueue accepts; a fault forgets at most the batch of the method it interrupts.
LEMMA LostStep ==
    ASSUME SQTypes, OpSound, [SQNext]_sqVars
    PROVE  \/ Lost' \subseteq Lost /\ faults' = faults
           \/ Lost' \subseteq Lost \cup Msgs(op.batch) /\ faults' = faults + 1
<1>t. /\ op.left \subseteq op.batch /\ op.left \subseteq mail
      /\ op.kind = "none" => op.batch = {}
      /\ op.kind = "bury" => Msgs(op.batch) \subseteq Msgs(dead)
  BY DEF SQTypes, SQTypeOK, OpSound, NoOp
<1>l. Lost = accepted \ Safe
  BY Zenon DEF Lost, Safe
<1>k. ASSUME faults' = faults, Safe \subseteq Safe', accepted' \subseteq accepted \cup Safe'
      PROVE  Lost' \subseteq Lost /\ faults' = faults
  BY Zenon, <1>l, <1>k DEF Lost, Safe
<1>1. ASSUME NEW r, SQEnqueue(r) PROVE Lost' \subseteq Lost /\ faults' = faults
  <2>1. /\ mail' = mail \cup {r} /\ handed' = handed \ {r} /\ accepted' = accepted \cup {r.msg}
        /\ UNCHANGED <<dead, op, finished, faults>>
    BY Zenon, <1>1 DEF SQEnqueue
  <2>2. Safe \subseteq Safe' /\ r.msg \in Safe'
    BY Zenon, <2>1 DEF Safe, Msgs
  <2> QED
    BY Zenon, <1>k, <2>1, <2>2
<1>2. ASSUME NEW d, SQDequeue(d) PROVE Lost' \subseteq Lost /\ faults' = faults
  <2>1. UNCHANGED <<mail, dead, handed, accepted, finished, faults>> /\ op.batch = {}
    BY Zenon, <1>t, <1>2 DEF SQDequeue, Idle
  <2>2. Safe \subseteq Safe'
    BY Zenon, <2>1 DEF Safe, Msgs
  <2> QED
    BY Zenon, <1>k, <2>1, <2>2
<1>3. ASSUME DeleteOne PROVE Lost' \subseteq Lost /\ faults' = faults
  <2>1. PICK r \in op.left : mail' = mail \ {r} /\ op' = [op EXCEPT !.left = @ \ {r}]
    BY Zenon, <1>3 DEF DeleteOne
  <2>2. op'.batch = op.batch /\ UNCHANGED <<dead, handed, accepted, finished, faults>>
    BY Zenon, <1>3, <2>1 DEF DeleteOne, SQTypes
  <2>3. Safe \subseteq Safe'
    BY Zenon, <1>t, <2>1, <2>2 DEF Safe, Msgs
  <2> QED
    BY Zenon, <1>k, <2>2, <2>3
<1>4. ASSUME Return PROVE Lost' \subseteq Lost /\ faults' = faults
  <2>1. handed' = handed \cup op.batch /\ UNCHANGED <<mail, dead, accepted, finished, faults>>
    BY Zenon, <1>4 DEF Return
  <2>2. Safe \subseteq Safe'
    BY Zenon, <2>1 DEF Safe, Msgs
  <2> QED
    BY Zenon, <1>k, <2>1, <2>2
<1>5. ASSUME NEW r \in mail, SQAck(r) PROVE Lost' \subseteq Lost /\ faults' = faults
  <2>1. /\ mail' = mail \ {r} /\ finished' = finished \cup {r.msg}
        /\ UNCHANGED <<dead, op, handed, accepted, faults>>
    BY Zenon, <1>5 DEF SQAck
  <2>2. Safe \subseteq Safe'
    BY Zenon, <2>1 DEF Safe, Msgs
  <2> QED
    BY Zenon, <1>k, <2>1, <2>2
<1>6. ASSUME NEW r \in mail, SQRetry(r) PROVE Lost' \subseteq Lost /\ faults' = faults
  <2> DEFINE u == [r EXCEPT !.tries = @ + 1]
  <2>1. u.msg = r.msg
    BY Zenon DEF SQTypes, SQTypeOK, Row
  <2>2. mail' = (mail \ {r}) \cup {u} /\ UNCHANGED <<dead, op, handed, accepted, finished, faults>>
    BY Zenon, <1>6 DEF SQRetry
  <2> HIDE DEF u
  <2>3. Safe \subseteq Safe'
    BY Zenon, <2>1, <2>2 DEF Safe, Msgs
  <2> QED
    BY Zenon, <1>k, <2>2, <2>3
<1>7. ASSUME NEW r \in mail, Bury(r) PROVE Lost' \subseteq Lost /\ faults' = faults
  <2>1. op.batch = {} /\ dead \subseteq dead' /\ UNCHANGED <<mail, handed, accepted, finished, faults>>
    BY Zenon, <1>t, <1>7 DEF Bury, Idle
  <2>2. Safe \subseteq Safe'
    BY Zenon, <2>1 DEF Safe, Msgs
  <2> QED
    BY Zenon, <1>k, <2>1, <2>2
<1>8. ASSUME BuryDelete PROVE Lost' \subseteq Lost /\ faults' = faults
  <2>1. mail' = mail \ op.left /\ UNCHANGED <<dead, handed, accepted, finished, faults>>
    BY Zenon, <1>8 DEF BuryDelete
  <2>2. Msgs(op.batch) \subseteq Msgs(dead)
    BY Zenon, <1>t, <1>8 DEF BuryDelete
  <2>3. Safe \subseteq Safe'
    <3>1. ASSUME NEW x \in Safe PROVE x \in Safe'
      <4>1. x \in Msgs(op.batch) => x \in Msgs(dead)
        BY Zenon, <2>2
      <4> QED
        BY Zenon, <1>t, <2>1, <4>1 DEF Safe, Msgs
    <3> QED
      BY Zenon, <3>1
  <2> QED
    BY Zenon, <1>k, <2>1, <2>3
<1>9. ASSUME SQCleanup PROVE Lost' \subseteq Lost /\ faults' = faults
  <2> DEFINE old == {r \in mail : r.at + RowTTL <= now}
  <2>1. /\ mail' = mail \ old /\ finished' = finished \cup Msgs(old)
        /\ UNCHANGED <<dead, op, handed, accepted, faults>>
    BY Zenon, <1>9 DEF SQCleanup
  <2> HIDE DEF old
  <2>2. Safe \subseteq Safe'
    BY Zenon, <2>1 DEF Safe, Msgs
  <2> QED
    BY Zenon, <1>k, <2>1, <2>2
<1>10. ASSUME Fault PROVE Lost' \subseteq Lost \cup Msgs(op.batch) /\ faults' = faults + 1
  <2>1. faults' = faults + 1 /\ op' = NoOp /\ UNCHANGED <<mail, dead, handed, accepted, finished>>
    BY Zenon, <1>10 DEF Fault
  <2>2. \A x \in Safe : x \in Safe' \/ x \in Msgs(op.batch)
    BY Zenon, <2>1 DEF Safe, Msgs
  <2>3. Lost' = accepted \ Safe'
    BY Zenon, <2>1 DEF Lost, Safe
  <2> QED
    BY Zenon, <1>l, <2>1, <2>2, <2>3
<1>11. ASSUME SQTick \/ UNCHANGED sqVars PROVE Lost' \subseteq Lost /\ faults' = faults
  BY Zenon, <1>11 DEF SQTick, sqVars, Lost
<1> QED
  BY Zenon, <1>1, <1>2, <1>3, <1>4, <1>5, <1>6, <1>7, <1>8, <1>9, <1>10, <1>11 DEF SQNext

\* There are no more messages in a batch than rows.
LEMMA MsgsCounted ==
    ASSUME NEW S, IsFiniteSet(S)
    PROVE  IsFiniteSet(Msgs(S)) /\ Cardinality(Msgs(S)) <= Cardinality(S)
<1> DEFINE f == [r \in S |-> r.msg]
<1>1. f \in Surjection(S, Msgs(S))
  BY Zenon DEF Surjection, Msgs
<1> HIDE DEF f
<1> QED
  BY Zenon, <1>1, FS_Surjection

\* A Dequeue that fails or is interrupted loses at most its own batch, and without
\* such a fault nothing that Enqueue has accepted is lost, however many messages there
\* are and whatever the limits.
THEOREM LossIsBounded == SQSpec => []LossBounded
<1>1. SQInit => SQInv
  <2> SUFFICES ASSUME SQInit PROVE SQInv
    OBVIOUS
  <2>1. IsFiniteSet({}) /\ Cardinality({}) = 0
    BY Zenon, FS_EmptySet
  <2>2. Batch \in Nat /\ MaxTime \in Nat
    BY Zenon, SQLiteAssumption, ClockAssumption
  <2>3. SQTypes /\ OpSound
    BY <2>1, <2>2 DEF SQInit, NoOp, SQTypes, SQTypeOK, OpSound
  <2>4. Lost = {}
    BY Zenon DEF SQInit, Lost
  <2> QED
    BY <2>1, <2>2, <2>3, <2>4 DEF SQInit, SQInv, LossBounded
<1>2. SQInv /\ [SQNext]_sqVars => SQInv'
  <2> SUFFICES ASSUME SQInv, [SQNext]_sqVars PROVE SQInv'
    OBVIOUS
  <2>1. SQTypes' /\ OpSound'
    BY Zenon, SQTypesStep DEF SQInv
  <2>2. /\ IsFiniteSet(Lost) /\ Cardinality(Lost) <= Batch * faults
        /\ SQTypes /\ OpSound /\ Batch \in Nat /\ faults \in Nat
        /\ IsFiniteSet(op.batch) /\ Cardinality(op.batch) <= Batch
    BY Zenon, SQLiteAssumption DEF SQInv, SQTypes, LossBounded
  <2>3. CASE Lost' \subseteq Lost /\ faults' = faults
    <3>1. IsFiniteSet(Lost') /\ Cardinality(Lost') <= Cardinality(Lost)
      BY Zenon, <2>2, <2>3, FS_Subset
    <3>2. Cardinality(Lost') \in Nat /\ Cardinality(Lost) \in Nat /\ Batch * faults \in Nat
      BY <2>2, <3>1, FS_CardinalityType
    <3>3. LossBounded'
      BY <2>2, <2>3, <3>1, <3>2 DEF LossBounded
    <3> QED
      BY Zenon, <2>1, <3>1, <3>3 DEF SQInv
  <2>4. CASE Lost' \subseteq Lost \cup Msgs(op.batch) /\ faults' = faults + 1
    <3> DEFINE M == Msgs(op.batch)
    <3>1. IsFiniteSet(M) /\ Cardinality(M) <= Cardinality(op.batch)
      BY Zenon, <2>2, MsgsCounted
    <3>2. /\ IsFiniteSet(Lost \cup M)
          /\ Cardinality(Lost \cup M) = Cardinality(Lost) + Cardinality(M) - Cardinality(Lost \cap M)
      BY Zenon, <2>2, <3>1, FS_Union
    <3>3. IsFiniteSet(Lost') /\ Cardinality(Lost') <= Cardinality(Lost \cup M)
      BY Zenon, <2>4, <3>2, FS_Subset
    <3>4. IsFiniteSet(Lost \cap M)
      BY Zenon, <2>2, FS_Subset
    <3>5. /\ Cardinality(Lost') \in Nat /\ Cardinality(Lost) \in Nat /\ Cardinality(M) \in Nat
          /\ Cardinality(Lost \cap M) \in Nat /\ Cardinality(op.batch) \in Nat
          /\ Cardinality(Lost \cup M) \in Nat
      BY Zenon, <2>2, <3>1, <3>2, <3>3, <3>4, FS_CardinalityType
    <3>6. Batch * (faults + 1) = Batch * faults + Batch /\ Batch * faults \in Nat
      BY <2>2
    <3> HIDE DEF M
    <3>7. Cardinality(Lost') <= Batch * (faults + 1)
      BY <2>2, <3>1, <3>2, <3>3, <3>5, <3>6
    <3>8. LossBounded'
      BY Zenon, <2>4, <3>7 DEF LossBounded
    <3> QED
      BY Zenon, <2>1, <3>3, <3>8 DEF SQInv
  <2> QED
    BY Zenon, <2>2, <2>3, <2>4, LostStep
<1>3. SQInv => LossBounded
  BY Zenon DEF SQInv
<1> QED
  BY <1>1, <1>2, <1>3, PTL DEF SQSpec

-----------------------------------------------------------------------------
(* The tasks of the A2A server.                                            *)

A2ASpec == A2AInit /\ [][A2ANext]_a2aVars

TaskRecord == [session : Session, state : TaskState, history : 1 .. MaxHistoryLen]

StoreTypes ==
    /\ DOMAIN tasks \subseteq TaskID /\ IsFiniteSet(DOMAIN tasks)
    /\ \A t \in DOMAIN tasks : tasks[t] \in TaskRecord
    /\ DOMAIN sessions \subseteq Session
    /\ \A s \in DOMAIN sessions : sessions[s] \in Seq(TaskID)
    /\ DOMAIN request = TaskID

\* A request that has not begun has no task.
NewHaveNone == \A t \in TaskID : request[t] = "new" => t \notin DOMAIN tasks

StoreInv == StoreTypes /\ NewHaveNone /\ StoreIndexed

\* What a client with pages to come has of the beginning of the list, up to its cursor.
PagesInv ==
    /\ listing.at \in {"idle", "more", "done"}
    /\ listing.at = "idle" => listing = NotListing /\ kept = {}
    /\ kept \subseteq Matching(listing.filter)
    /\ listing.at = "more" =>
          listing.cursor \in Nat /\ \A t \in kept : t <= listing.cursor => t \in listing.seen
    /\ PagesComplete

A2AInv == StoreInv /\ PagesInv

\* A set of numbers that is not empty has a least member: what an induction over the
\* size of a list rests on.
LEMMA LeastNat ==
    ASSUME NEW T \in SUBSET Nat, T # {}
    PROVE  \E n \in T : \A m \in T : n <= m
<1> DEFINE R == {p \in Nat \X Nat : p[1] < p[2]}
<1>1. IsWellFoundedOn(R, Nat)
  BY NatLessThanWellFounded, Zenon DEF OpToRel
<1>2. \E n \in T : \A m \in T : ~(<<m, n>> \in R)
  <2> HIDE DEF R
  <2> QED
    BY <1>1, WFMin, Zenon
<1>3. PICK n \in T : \A m \in T : ~(<<m, n>> \in R)
  BY Zenon, <1>2
<1>4. ASSUME NEW m \in T
      PROVE  n <= m
  <2>1. ~(<<m, n>> \in R)
    BY Zenon, <1>3
  <2>2. <<m, n>> \in Nat \X Nat /\ <<m, n>>[1] = m /\ <<m, n>>[2] = n
    OBVIOUS
  <2>3. ~(m < n)
    BY Zenon, <2>1, <2>2
  <2> QED
    BY <2>3
<1> QED
  BY Zenon, <1>4

Increasing(m) == \A i, j \in DOMAIN m : i < j => m[i] < m[j]

\* Every finite set of numbers can be listed in ascending order: the smallest set that
\* could not be would be its least member before a set that can.
LEMMA AscendingExists ==
    ASSUME NEW S \in SUBSET Nat, IsFiniteSet(S)
    PROVE  \E m \in [1 .. Cardinality(S) -> S] : Increasing(m)
<1> DEFINE Bad(U) == ~\E m \in [1 .. Cardinality(U) -> U] : Increasing(m)
           T == {n \in Nat : \E U \in SUBSET Nat : IsFiniteSet(U) /\ Cardinality(U) = n /\ Bad(U)}
<1>1. SUFFICES T = {}
  <2>1. Cardinality(S) \in Nat
    BY Zenon, FS_CardinalityType
  <2> QED
    BY <1>1, <2>1, Zenon
<1>2. SUFFICES ASSUME T # {}
               PROVE  FALSE
  OBVIOUS
<1>3. PICK n \in T : \A k \in T : n <= k
  <2>1. T \in SUBSET Nat
    OBVIOUS
  <2> HIDE DEF T
  <2> QED
    BY <1>2, <2>1, LeastNat, Zenon
<1>4. PICK U \in SUBSET Nat : IsFiniteSet(U) /\ Cardinality(U) = n /\ Bad(U)
  BY <1>3, Zenon
<1>5. U # {}
  <2>1. SUFFICES ASSUME U = {} PROVE FALSE
    OBVIOUS
  <2>2. Cardinality(U) = 0
    BY Zenon, <2>1, FS_EmptySet
  <2> DEFINE none == [i \in 1 .. 0 |-> 0]
  <2>3. none \in [1 .. 0 -> U] /\ DOMAIN none = {}
    OBVIOUS
  <2>4. Increasing(none)
    BY <2>3, Zenon DEF Increasing
  <2> HIDE DEF none
  <2> QED
    BY <1>4, <2>2, <2>3, <2>4, Zenon
<1>6. PICK a \in U : \A u \in U : a <= u
  BY <1>5, LeastNat, Zenon
<1> DEFINE V == U \ {a}
<1>7. IsFiniteSet(V) /\ Cardinality(V) = n - 1 /\ n \in Nat /\ V \in SUBSET Nat
  BY Zenon, <1>3, <1>4, <1>6, FS_RemoveElement
<1>8. n - 1 \in Nat
  BY Zenon, <1>7, FS_CardinalityType
<1>9. ~Bad(V)
  <2>1. n - 1 \notin T
    <3> HIDE DEF T
    <3> QED
      BY <1>3, <1>7, <1>8
  <2> QED
    BY <1>7, <1>8, <2>1, Zenon
<1>10. PICK m \in [1 .. n - 1 -> V] : Increasing(m)
  BY Zenon, <1>7, <1>9
<1> DEFINE w == [i \in 1 .. n |-> IF i = 1 THEN a ELSE m[i - 1]]
<1>11. w \in [1 .. n -> U]
  BY <1>7, <1>8, <1>10
<1>12. ASSUME NEW i \in 1 .. n, NEW j \in 1 .. n, i < j
       PROVE  w[i] < w[j]
  <2>1. j - 1 \in 1 .. n - 1 /\ w[j] = m[j - 1] /\ m[j - 1] \in U /\ m[j - 1] # a
    BY <1>7, <1>10, <1>12
  <2>2. CASE i = 1
    <3>1. w[i] = a /\ a \in Nat /\ m[j - 1] \in Nat /\ a <= m[j - 1]
      BY Zenon, <1>6, <2>1, <2>2
    <3> QED
      BY <2>1, <3>1
  <2>3. CASE i # 1
    <3>1. i - 1 \in 1 .. n - 1 /\ w[i] = m[i - 1] /\ i - 1 < j - 1
      BY <1>7, <1>12, <2>3
    <3>2. DOMAIN m = 1 .. n - 1
      BY Zenon, <1>10
    <3> QED
      BY Zenon, <1>10, <2>1, <3>1, <3>2 DEF Increasing
  <2> QED
    BY Zenon, <2>2, <2>3
<1>13. Increasing(w)
  <2>1. DOMAIN w = 1 .. n
    OBVIOUS
  <2> HIDE DEF w
  <2> QED
    BY <1>12, <2>1, Zenon DEF Increasing
<1> QED
  <2> HIDE DEF w
  <2> QED
    BY <1>4, <1>11, <1>13, Zenon

\* What sortTasksByID gives: the whole set, once each, in ascending order.
LEMMA AscendingIs ==
    ASSUME NEW S \in SUBSET Nat, IsFiniteSet(S)
    PROVE  /\ Cardinality(S) \in Nat
           /\ Ascending(S) \in [1 .. Cardinality(S) -> S]
           /\ \A i, j \in 1 .. Cardinality(S) : i < j => Ascending(S)[i] < Ascending(S)[j]
           /\ \A x \in S : \E i \in 1 .. Cardinality(S) : Ascending(S)[i] = x
<1> DEFINE m == Ascending(S)  n == Cardinality(S)
<1>1. n \in Nat
  BY Zenon, FS_CardinalityType
<1>2. m \in [1 .. n -> S] /\ Increasing(m)
  <2>1. \E f \in [1 .. n -> S] : \A i, j \in DOMAIN f : i < j => f[i] < f[j]
    BY AscendingExists, Zenon DEF Increasing
  <2> QED
    BY <2>1, Zenon DEF Ascending, Increasing
<1> HIDE DEF m
<1>3. \A i, j \in 1 .. n : i < j => m[i] < m[j]
  BY Zenon, <1>2 DEF Increasing
<1>4. m \in Injection(1 .. n, S)
  <2>1. ASSUME NEW i \in 1 .. n, NEW j \in 1 .. n, m[i] = m[j]
        PROVE  i = j
    <3>1. m[i] \in Nat /\ m[j] \in Nat
      BY Zenon, <1>2
    <3>2. ~(i < j) /\ ~(j < i)
      BY <1>3, <2>1, <3>1
    <3> QED
      BY <1>1, <3>2
  <2>2. DOMAIN m = 1 .. n
    BY Zenon, <1>2
  <2> QED
    BY <1>2, <2>1, <2>2, Zenon DEF Injection, IsInjective
<1>5. Cardinality(1 .. n) = n
  BY <1>1, FS_Interval
<1>6. m \in Surjection(1 .. n, S)
  BY Zenon, <1>4, <1>5, FS_Injection
<1>7. \A x \in S : \E i \in 1 .. n : m[i] = x
  BY <1>6, Zenon DEF Surjection
<1> QED
  BY Zenon, <1>1, <1>2, <1>3, <1>7 DEF m

\* What removeString leaves of a session's list: the members that stay, once each.
LEMMA WithoutIs ==
    ASSUME NEW line \in Seq(TaskID), NEW gone, IsInjective(line)
    PROVE  /\ RemoveStrings(line, gone) \in Seq(TaskID)
           /\ Range(RemoveStrings(line, gone)) = Range(line) \ gone
           /\ IsInjective(RemoveStrings(line, gone))
           /\ Len(RemoveStrings(line, gone)) <= Len(line)
<1> DEFINE P == {i \in DOMAIN line : line[i] \notin gone}
           place == Ascending(P)
           n == Cardinality(P)
           w == [k \in DOMAIN place |-> line[place[k]]]
<1>1. DOMAIN line = 1 .. Len(line) /\ Len(line) \in Nat /\ P \in SUBSET Nat
  OBVIOUS
<1>2. IsFiniteSet(P) /\ n <= Len(line)
  <2>1. IsFiniteSet(1 .. Len(line)) /\ Cardinality(1 .. Len(line)) = Len(line)
    BY <1>1, FS_Interval
  <2>2. P \in SUBSET (1 .. Len(line))
    BY Zenon, <1>1
  <2> HIDE DEF P
  <2> QED
    BY Zenon, <2>1, <2>2, FS_Subset
<1>3. /\ n \in Nat
      /\ place \in [1 .. n -> P]
      /\ \A i, j \in 1 .. n : i < j => place[i] < place[j]
      /\ \A x \in P : \E i \in 1 .. n : place[i] = x
  <2> HIDE DEF P
  <2> QED
    BY <1>1, <1>2, AscendingIs, Zenon
<1> HIDE DEF place
<1>4. DOMAIN w = 1 .. n /\ \A k \in 1 .. n : w[k] = line[place[k]] /\ place[k] \in P
  BY Zenon, <1>3
<1>5. w \in Seq(TaskID) /\ Len(w) = n
  <2>1. \A k \in 1 .. n : w[k] \in TaskID
    BY <1>1, <1>4
  <2>2. w = [k \in 1 .. n |-> w[k]]
    BY Zenon, <1>3
  <2>3. w \in [1 .. n -> TaskID]
    BY Zenon, <2>1, <2>2, <1>4
  <2> HIDE DEF w
  <2>4. w \in Seq(TaskID)
    BY <1>3, <2>3
  <2> QED
    BY <1>3, <1>4, <2>4
<1>6. Range(w) = Range(line) \ gone
  <2>1. ASSUME NEW x \in Range(w)
        PROVE  x \in Range(line) \ gone
    <3>1. PICK k \in 1 .. n : x = line[place[k]]
      BY <1>4, <2>1, Zenon DEF Range
    <3>2. place[k] \in DOMAIN line /\ line[place[k]] \notin gone
      BY Zenon, <1>4, <3>1
    <3> QED
      BY <3>1, <3>2, Zenon DEF Range
  <2>2. ASSUME NEW x \in Range(line) \ gone
        PROVE  x \in Range(w)
    <3>1. PICK i \in DOMAIN line : line[i] = x
      BY <2>2, Zenon DEF Range
    <3>2. i \in P
      BY Zenon, <3>1, <2>2
    <3>3. PICK k \in 1 .. n : place[k] = i
      BY Zenon, <1>3, <3>2
    <3> HIDE DEF w
    <3> QED
      BY <1>4, <3>1, <3>3, Zenon DEF Range
  <2> QED
    BY Zenon, <2>1, <2>2
<1>7. IsInjective(w)
  <2>1. ASSUME NEW i \in 1 .. n, NEW j \in 1 .. n, w[i] = w[j]
        PROVE  i = j
    <3>1. place[i] = place[j]
      BY <1>4, <2>1, Zenon DEF IsInjective
    <3>2. place[i] \in Nat /\ ~(i < j) /\ ~(j < i)
      <4>1. place[i] \in Nat /\ place[j] \in Nat
        BY Zenon, <1>1, <1>3
      <4>2. (i < j => place[i] < place[j]) /\ (j < i => place[j] < place[i])
        BY Zenon, <1>3
      <4> QED
        BY <3>1, <4>1, <4>2
    <3> QED
      BY <1>3, <3>2
  <2> QED
    BY <1>4, <2>1, Zenon DEF IsInjective
<1>8. RemoveStrings(line, gone) = w
  BY Zenon DEF RemoveStrings, place
<1> HIDE DEF w
<1> QED
  BY Zenon, <1>2, <1>5, <1>6, <1>7, <1>8

\* A step that changes no session's list and no task's session keeps the store indexed:
\* every update of a status, a message or a deadline.
LEMMA SameIndex ==
    ASSUME StoreInv, DOMAIN tasks' = DOMAIN tasks, DOMAIN expiry' = DOMAIN expiry, sessions' = sessions,
           \A t \in DOMAIN tasks : tasks'[t] \in TaskRecord /\ tasks'[t].session = tasks[t].session,
           DOMAIN request' = TaskID, \A t \in TaskID : request'[t] = "new" => request[t] = "new"
    PROVE  StoreInv'
<1>1. StoreTypes' /\ NewHaveNone'
  BY Zenon DEF StoreInv, StoreTypes, NewHaveNone
<1>2. \A s : {t \in DOMAIN tasks' : tasks'[t].session = s} = {t \in DOMAIN tasks : tasks[t].session = s}
  BY Zenon
<1>3. StoreIndexed'
  BY <1>2, Zenon DEF StoreInv, StoreIndexed
<1> QED
  BY Zenon, <1>1, <1>3 DEF StoreInv

\* UpdateTaskStatus brings no task back and moves none to another session.
LEMMA UpdateKeepsIndex ==
    ASSUME StoreInv, NEW t \in TaskID, NEW state \in TaskState, UpdateTaskStatus(t, state)
    PROVE  /\ DOMAIN tasks' = DOMAIN tasks /\ DOMAIN expiry' = DOMAIN expiry
           /\ \A u \in DOMAIN tasks : tasks'[u] \in TaskRecord /\ tasks'[u].session = tasks[u].session
<1>1. CASE Kept(t)
  <2>1. tasks' = [tasks EXCEPT ![t].state = state] /\ DOMAIN expiry' = DOMAIN expiry
    BY Zenon, <1>1 DEF UpdateTaskStatus
  <2>2. ASSUME NEW u \in DOMAIN tasks
        PROVE  tasks'[u] \in TaskRecord /\ tasks'[u].session = tasks[u].session
    BY Zenon, <2>1, <2>2 DEF StoreInv, StoreTypes, TaskRecord
  <2> QED
    BY Zenon, <2>1, <2>2
<1>2. CASE ~Kept(t)
  BY <1>2, Zenon DEF UpdateTaskStatus, StoreInv, StoreTypes
<1> QED
  BY Zenon, <1>1, <1>2

\* AddTaskMessage brings no task back and moves none to another session.
LEMMA MessageKeepsIndex ==
    ASSUME StoreInv, NEW t \in TaskID, AddTaskMessage(t)
    PROVE  /\ DOMAIN tasks' = DOMAIN tasks
           /\ \A u \in DOMAIN tasks : tasks'[u] \in TaskRecord /\ tasks'[u].session = tasks[u].session
<1>1. CASE Kept(t)
  <2>1. tasks' = [tasks EXCEPT ![t].history = IF @ < MaxHistoryLen THEN @ + 1 ELSE MaxHistoryLen]
    BY Zenon, <1>1 DEF AddTaskMessage
  <2> DEFINE h == IF tasks[t].history < MaxHistoryLen THEN tasks[t].history + 1 ELSE MaxHistoryLen
  <2>2. h \in 1 .. MaxHistoryLen
    BY <1>1, TasksAssumption DEF StoreInv, StoreTypes, TaskRecord, Kept
  <2>3. tasks' = [tasks EXCEPT ![t].history = h]
    BY Zenon, <2>1
  <2> HIDE DEF h
  <2>4. ASSUME NEW u \in DOMAIN tasks
        PROVE  tasks'[u] \in TaskRecord /\ tasks'[u].session = tasks[u].session
    BY Zenon, <2>2, <2>3, <2>4 DEF StoreInv, StoreTypes, TaskRecord
  <2> QED
    BY Zenon, <2>3, <2>4
<1>2. CASE ~Kept(t)
  BY <1>2, Zenon DEF AddTaskMessage, StoreInv, StoreTypes
<1> QED
  BY Zenon, <1>1, <1>2

\* CreateTask: the new task joins the end of its session's list, and what leaves the head
\* of a full one leaves the maps too.
LEMMA CreateKeepsIndex ==
    ASSUME StoreInv, NEW t \in TaskID, NEW s \in Session, StartRequest(t, s)
    PROVE  StoreInv'
<1> DEFINE line == IF s \in DOMAIN sessions THEN sessions[s] ELSE <<>>
           full == Len(line) >= MaxTasksPerSession
           rest == IF full THEN Tail(line) ELSE line
           gone == IF full THEN {Head(line)} ELSE {}
           fresh == [session |-> s, state |-> "submitted", history |-> 1]
           mine == {u \in DOMAIN tasks : tasks[u].session = s}
<1>1. /\ tasks' = Omit(Set(tasks, t, fresh), gone)
      /\ expiry' = Omit(Set(expiry, t, "ahead"), gone)
      /\ sessions' = Set(sessions, s, Append(rest, t))
  BY Zenon DEF StartRequest, CreateTask
<1>2. request[t] = "new" /\ request' = [request EXCEPT ![t] = "created"] /\ t \notin DOMAIN tasks
  BY Zenon DEF StartRequest, At, GoesTo, StoreInv, NewHaveNone
<1>3. /\ line \in Seq(TaskID) /\ IsInjective(line) /\ Range(line) = mine
      /\ Len(line) <= MaxTasksPerSession
  <2>1. CASE s \in DOMAIN sessions
    BY <2>1, Zenon DEF StoreInv, StoreTypes, StoreIndexed
  <2>2. CASE s \notin DOMAIN sessions
    <3>1. line = <<>> /\ mine = {}
      BY <2>2, Zenon DEF StoreInv, StoreIndexed
    <3>2. <<>> \in Seq(TaskID) /\ DOMAIN <<>> = {} /\ Len(<<>>) <= MaxTasksPerSession
      BY TasksAssumption
    <3>3. Range(<<>>) = {} /\ IsInjective(<<>>)
      BY <3>2, Zenon DEF Range, IsInjective
    <3> QED
      BY Zenon, <3>1, <3>2, <3>3
  <2> QED
    BY Zenon, <2>1, <2>2
<1> HIDE DEF line
<1>4. /\ rest \in Seq(TaskID) /\ IsInjective(rest) /\ Len(rest) < MaxTasksPerSession
      /\ Range(rest) = mine \ gone
  <2>1. CASE full
    <3>1. Len(line) > 0 /\ rest = Tail(line) /\ gone = {Head(line)}
      BY <1>3, <2>1, TasksAssumption
    <3>2. /\ rest \in Seq(TaskID) /\ Len(rest) = Len(line) - 1
          /\ \A i \in 1 .. Len(line) - 1 : rest[i] = line[i + 1]
      BY <1>3, <3>1
    <3>3. DOMAIN rest = 1 .. Len(line) - 1 /\ DOMAIN line = 1 .. Len(line) /\ Head(line) = line[1]
      BY <1>3, <3>1, <3>2
    <3> HIDE DEF rest, gone, full
    <3>4. IsInjective(rest)
      <4>1. ASSUME NEW i \in DOMAIN rest, NEW j \in DOMAIN rest, rest[i] = rest[j]
            PROVE  i = j
        <5>1. i + 1 \in DOMAIN line /\ j + 1 \in DOMAIN line /\ line[i + 1] = line[j + 1]
          BY <1>3, <3>2, <3>3, <4>1
        <5>2. i + 1 = j + 1
          BY <1>3, <5>1, Zenon DEF IsInjective
        <5> QED
          BY <3>3, <4>1, <5>2
      <4> QED
        BY <4>1, Zenon DEF IsInjective
    <3>5. ASSUME NEW u \in Range(rest)
          PROVE  u \in Range(line) \ gone
      <4>1. PICK i \in DOMAIN rest : u = rest[i]
        BY <3>5, Zenon DEF Range
      <4>2. i + 1 \in DOMAIN line /\ u = line[i + 1] /\ 1 \in DOMAIN line /\ i + 1 # 1
        BY <1>3, <3>1, <3>2, <3>3, <4>1
      <4>3. u # line[1]
        BY <1>3, <4>2, Zenon DEF IsInjective
      <4> QED
        BY <3>1, <3>3, <4>2, <4>3, Zenon DEF Range
    <3>6. ASSUME NEW u \in Range(line) \ gone
          PROVE  u \in Range(rest)
      <4>1. PICK i \in DOMAIN line : u = line[i]
        BY <3>6, Zenon DEF Range
      <4>2. i # 1
        BY Zenon, <3>1, <3>3, <3>6, <4>1
      <4>3. i - 1 \in DOMAIN rest /\ rest[i - 1] = u
        BY <1>3, <3>2, <3>3, <4>1, <4>2
      <4> QED
        BY <4>3, Zenon DEF Range
    <3>7. Len(rest) < MaxTasksPerSession
      BY <1>3, <3>2, TasksAssumption
    <3> QED
      BY Zenon, <1>3, <3>2, <3>4, <3>5, <3>6, <3>7
  <2>2. CASE ~full
    <3>1. Len(line) < MaxTasksPerSession
      BY <1>3, <2>2, TasksAssumption
    <3> QED
      BY Zenon, <1>3, <2>2, <3>1
  <2> QED
    BY Zenon, <2>1, <2>2
<1>5. gone \subseteq mine
  <2>1. CASE full
    <3>1. 1 \in DOMAIN line /\ Head(line) = line[1]
      BY <1>3, <2>1, TasksAssumption
    <3> QED
      BY <1>3, <2>1, <3>1, Zenon DEF Range
  <2> QED
    BY Zenon, <2>1
<1> HIDE DEF rest, gone, mine, full
<1> DEFINE long == Append(rest, t)
<1>6. DOMAIN tasks' = (DOMAIN tasks \cup {t}) \ gone /\ DOMAIN expiry' = DOMAIN tasks'
  BY <1>1, Zenon DEF StoreInv, StoreIndexed, Omit, Set, Restrict
<1>7. t \notin gone /\ t \notin mine
  BY Zenon, <1>2, <1>5 DEF mine
<1>8. \A u \in DOMAIN tasks' : tasks'[u] = IF u = t THEN fresh ELSE tasks[u]
  BY <1>1, <1>6, Zenon DEF Omit, Set, Restrict
<1>9. fresh \in TaskRecord /\ fresh.session = s
  BY TasksAssumption DEF TaskRecord, TaskState
<1>10. /\ long \in Seq(TaskID) /\ Len(long) = Len(rest) + 1
       /\ DOMAIN long = 1 .. Len(rest) + 1 /\ DOMAIN rest = 1 .. Len(rest) /\ Len(rest) \in Nat
       /\ \A i \in 1 .. Len(rest) : long[i] = rest[i]
       /\ long[Len(rest) + 1] = t
  BY <1>4
<1> HIDE DEF long, fresh
<1>11. Range(long) = (mine \ gone) \cup {t}
  <2>1. ASSUME NEW u \in Range(long)
        PROVE  u \in Range(rest) \cup {t}
    <3>1. PICK i \in DOMAIN long : u = long[i]
      BY <2>1, Zenon DEF Range
    <3>2. (i \in DOMAIN rest /\ u = rest[i]) \/ u = t
      BY <1>10, <3>1
    <3> QED
      BY <3>2, Zenon DEF Range
  <2>2. ASSUME NEW u \in Range(rest) \cup {t}
        PROVE  u \in Range(long)
    <3>1. CASE u \in Range(rest)
      <4>1. PICK i \in DOMAIN rest : u = rest[i]
        BY <3>1, Zenon DEF Range
      <4>2. i \in DOMAIN long /\ u = long[i]
        BY <1>10, <4>1
      <4> QED
        BY <4>2, Zenon DEF Range
    <3>2. CASE u = t
      <4>1. Len(rest) + 1 \in DOMAIN long
        BY <1>10
      <4> QED
        BY <1>10, <3>2, <4>1, Zenon DEF Range
    <3> QED
      BY Zenon, <2>2, <3>1, <3>2
  <2> QED
    BY Zenon, <1>4, <2>1, <2>2
<1>12. IsInjective(long)
  <2>1. ASSUME NEW i \in DOMAIN rest
        PROVE  long[i] # t
    <3>1. rest[i] \in Range(rest)
      BY Zenon DEF Range
    <3> QED
      BY Zenon, <1>4, <1>7, <1>10, <3>1
  <2>2. ASSUME NEW i \in DOMAIN long, NEW j \in DOMAIN long, long[i] = long[j]
        PROVE  i = j
    <3>1. CASE i \in DOMAIN rest /\ j \in DOMAIN rest
      <4>1. rest[i] = rest[j]
        BY Zenon, <1>10, <2>2, <3>1
      <4> QED
        BY <1>4, <3>1, <4>1, Zenon DEF IsInjective
    <3>2. CASE i \notin DOMAIN rest \/ j \notin DOMAIN rest
      BY <1>10, <2>1, <2>2, <3>2
    <3> QED
      BY Zenon, <3>1, <3>2
  <2> QED
    BY <2>2, Zenon DEF IsInjective
<1>13. DOMAIN sessions' = DOMAIN sessions \cup {s} /\ \A z \in DOMAIN sessions' : sessions'[z] = IF z = s THEN long ELSE sessions[z]
  BY <1>1, Zenon DEF Set, long
<1>14. StoreTypes'
  <2>1. IsFiniteSet(DOMAIN tasks \cup {t})
    BY FS_AddElement, Zenon DEF StoreInv, StoreTypes
  <2>2. IsFiniteSet(DOMAIN tasks')
    BY Zenon, <2>1, <1>6, FS_Subset
  <2>3. DOMAIN tasks' \subseteq TaskID /\ \A u \in DOMAIN tasks' : tasks'[u] \in TaskRecord
    BY <1>6, <1>8, <1>9, Zenon DEF StoreInv, StoreTypes
  <2>4. DOMAIN sessions' \subseteq Session /\ \A z \in DOMAIN sessions' : sessions'[z] \in Seq(TaskID)
    BY <1>10, <1>13, Zenon DEF StoreInv, StoreTypes
  <2>5. DOMAIN request' = TaskID
    BY <1>2, Zenon DEF StoreInv, StoreTypes
  <2> QED
    BY Zenon, <2>2, <2>3, <2>4, <2>5 DEF StoreTypes
<1>15. NewHaveNone'
  BY Zenon, <1>2, <1>6 DEF StoreInv, StoreTypes, NewHaveNone
<1>16. StoreIndexed'
  <2>1. \A u \in DOMAIN tasks' : tasks'[u].session \in DOMAIN sessions'
    BY <1>6, <1>8, <1>9, <1>13, Zenon DEF StoreInv, StoreIndexed
  <2>2. {u \in DOMAIN tasks' : tasks'[u].session = s} = (mine \ gone) \cup {t}
    BY <1>6, <1>7, <1>8, <1>9, Zenon DEF mine
  <2>3. ASSUME NEW z \in DOMAIN sessions', z # s
        PROVE  {u \in DOMAIN tasks' : tasks'[u].session = z} = {u \in DOMAIN tasks : tasks[u].session = z}
    BY <1>2, <1>5, <1>6, <1>8, <1>9, <2>3, Zenon DEF mine
  <2>4. Len(long) <= MaxTasksPerSession
    BY <1>4, <1>10, TasksAssumption
  <2>5. ASSUME NEW z \in DOMAIN sessions'
        PROVE  /\ Range(sessions'[z]) = {u \in DOMAIN tasks' : tasks'[u].session = z}
               /\ IsInjective(sessions'[z]) /\ Len(sessions'[z]) <= MaxTasksPerSession
    <3>1. CASE z = s
      BY <1>11, <1>12, <1>13, <2>2, <2>4, <3>1, Zenon
    <3>2. CASE z # s
      BY <1>13, <2>3, <3>2, Zenon DEF StoreInv, StoreIndexed
    <3> QED
      BY Zenon, <3>1, <3>2
  <2> QED
    BY <1>6, <2>1, <2>5, Zenon DEF StoreIndexed
<1> QED
  BY Zenon, <1>14, <1>15, <1>16 DEF StoreInv

\* cleanExpired: an expired task leaves the maps and its session's list, and a session
\* goes when its list is empty.
LEMMA CleanKeepsIndex ==
    ASSUME StoreInv, CleanExpired
    PROVE  StoreInv'
<1> DEFINE gone == {t \in DOMAIN expiry : expiry[t] = "past"}
           left == [s \in DOMAIN sessions |-> RemoveStrings(sessions[s], gone)]
           empty == {s \in DOMAIN left : left[s] = <<>>}
<1>1. tasks' = Omit(tasks, gone) /\ expiry' = Omit(expiry, gone) /\ sessions' = Omit(left, empty) /\ request' = request
  BY Zenon DEF CleanExpired
<1> HIDE DEF gone
<1>2. /\ DOMAIN tasks' = DOMAIN tasks \ gone /\ DOMAIN expiry' = DOMAIN tasks'
      /\ \A u \in DOMAIN tasks' : tasks'[u] = tasks[u]
  BY <1>1, Zenon DEF StoreInv, StoreIndexed, Omit, Restrict
<1>3. /\ DOMAIN sessions' = DOMAIN sessions \ empty
      /\ \A s \in DOMAIN sessions' : sessions'[s] = RemoveStrings(sessions[s], gone)
  BY <1>1, Zenon DEF Omit, Restrict
<1>4. ASSUME NEW s \in DOMAIN sessions
      PROVE  /\ RemoveStrings(sessions[s], gone) \in Seq(TaskID)
             /\ Range(RemoveStrings(sessions[s], gone)) = {t \in DOMAIN tasks' : tasks'[t].session = s}
             /\ IsInjective(RemoveStrings(sessions[s], gone))
             /\ Len(RemoveStrings(sessions[s], gone)) <= MaxTasksPerSession
  <2>1. /\ sessions[s] \in Seq(TaskID) /\ IsInjective(sessions[s])
        /\ Range(sessions[s]) = {t \in DOMAIN tasks : tasks[t].session = s}
        /\ Len(sessions[s]) <= MaxTasksPerSession
    BY Zenon DEF StoreInv, StoreTypes, StoreIndexed
  <2>2. /\ RemoveStrings(sessions[s], gone) \in Seq(TaskID) /\ IsInjective(RemoveStrings(sessions[s], gone))
        /\ Range(RemoveStrings(sessions[s], gone)) = Range(sessions[s]) \ gone
        /\ Len(RemoveStrings(sessions[s], gone)) <= Len(sessions[s])
    BY <2>1, WithoutIs, Zenon
  <2>3. {t \in DOMAIN tasks : tasks[t].session = s} \ gone = {t \in DOMAIN tasks' : tasks'[t].session = s}
    BY <1>2, Zenon
  <2>4. Len(RemoveStrings(sessions[s], gone)) <= MaxTasksPerSession
    BY <2>1, <2>2, TasksAssumption
  <2> QED
    BY <2>1, <2>2, <2>3, <2>4, Zenon
<1>5. StoreTypes'
  <2>1. IsFiniteSet(DOMAIN tasks')
    BY Zenon, <1>2, FS_Subset DEF StoreInv, StoreTypes
  <2>2. \A s \in DOMAIN sessions' : sessions'[s] \in Seq(TaskID)
    BY <1>3, <1>4, Zenon
  <2> QED
    BY <1>1, <1>2, <1>3, <2>1, <2>2, Zenon DEF StoreInv, StoreTypes
<1>6. NewHaveNone'
  BY <1>1, <1>2, Zenon DEF StoreInv, NewHaveNone
<1>7. \A u \in DOMAIN tasks' : tasks'[u].session \in DOMAIN sessions'
  <2>1. SUFFICES ASSUME NEW u \in DOMAIN tasks'
                 PROVE  tasks'[u].session \in DOMAIN sessions'
    OBVIOUS
  <2> DEFINE s == tasks'[u].session
  <2>2. s \in DOMAIN sessions
    BY <1>2, Zenon DEF StoreInv, StoreIndexed
  <2>3. u \in Range(RemoveStrings(sessions[s], gone))
    BY <1>4, <2>2, Zenon
  <2>4. Range(<<>>) = {}
    BY DEF Range
  <2>5. s \notin empty
    BY <2>2, <2>3, <2>4, Zenon
  <2> QED
    BY <1>3, <2>2, <2>5, Zenon
<1>8. StoreIndexed'
  BY <1>2, <1>3, <1>4, <1>7, Zenon DEF StoreIndexed
<1> QED
  BY Zenon, <1>5, <1>6, <1>8 DEF StoreInv

\* Every request, cancellation, deadline and cleanup keeps the maps in agreement.
LEMMA StoreStep ==
    ASSUME StoreInv, [A2ANext]_a2aVars
    PROVE  StoreInv'
<1> DEFINE Same == /\ DOMAIN tasks' = DOMAIN tasks /\ DOMAIN expiry' = DOMAIN expiry
                   /\ \A u \in DOMAIN tasks : tasks'[u] \in TaskRecord /\ tasks'[u].session = tasks[u].session
           Begun == DOMAIN request' = TaskID /\ \A u \in TaskID : request'[u] = "new" => request[u] = "new"
<1>1. ASSUME Same, Begun, sessions' = sessions
      PROVE  StoreInv'
  BY <1>1, SameIndex, Zenon
<1>2. ASSUME UNCHANGED <<tasks, expiry>>
      PROVE  Same
  BY <1>2, Zenon DEF StoreInv, StoreTypes
<1>3. ASSUME NEW t \in TaskID, NEW place, place # "new", GoesTo(t, place)
      PROVE  Begun
  BY <1>3, Zenon DEF GoesTo, StoreInv, StoreTypes
<1>4. ASSUME request' = request
      PROVE  Begun
  BY <1>4, Zenon DEF StoreInv, StoreTypes
<1> HIDE DEF Same, Begun
<1>5. ASSUME NEW t \in TaskID, NEW s \in Session, StartRequest(t, s)
      PROVE  StoreInv'
  BY Zenon, <1>5, CreateKeepsIndex
<1>6. ASSUME NEW t \in TaskID, StreamBroken(t)
      PROVE  StoreInv'
  BY Zenon, <1>1, <1>2, <1>3, <1>6 DEF StreamBroken
<1>7. ASSUME NEW t \in TaskID, StartWork(t)
      PROVE  StoreInv'
  <2>1. Same /\ sessions' = sessions
    BY Zenon, <1>7, UpdateKeepsIndex DEF StartWork, TaskState, Same
  <2> DEFINE place == IF KindOf[t] = "stream" THEN "fetching" ELSE "handling"
  <2>2. GoesTo(t, place) /\ place # "new"
    BY Zenon, <1>7 DEF StartWork
  <2> QED
    BY Zenon, <1>1, <1>3, <2>1, <2>2
<1>8. ASSUME NEW t \in TaskID, FetchTask(t)
      PROVE  StoreInv'
  <2> DEFINE place == IF Kept(t) THEN "handling" ELSE "returned"
  <2>1. GoesTo(t, place) /\ place # "new"
    BY Zenon, <1>8 DEF FetchTask
  <2> QED
    BY Zenon, <1>1, <1>2, <1>3, <1>8, <2>1 DEF FetchTask
<1>9. ASSUME NEW t \in TaskID, HandlerReturns(t)
      PROVE  StoreInv'
  <2>1. Same
    <3>1. CASE AddTaskMessage(t)
      BY <1>9, <3>1, MessageKeepsIndex, Zenon DEF HandlerReturns, Same
    <3>2. CASE UNCHANGED tasks
      BY Zenon, <1>9, <3>2, <1>2 DEF HandlerReturns
    <3> QED
      BY Zenon, <1>9, <3>1, <3>2 DEF HandlerReturns
  <2>2. Begun /\ sessions' = sessions
    BY Zenon, <1>3, <1>9 DEF HandlerReturns
  <2> QED
    BY Zenon, <1>1, <2>1, <2>2
<1>10. ASSUME NEW t \in TaskID, NEW from, NEW state \in TaskState, CompleteTask(t, from, state)
       PROVE  StoreInv'
  <2>1. Same /\ sessions' = sessions
    BY Zenon, <1>10, UpdateKeepsIndex DEF CompleteTask, Same
  <2>2. Begun
    BY Zenon, <1>3, <1>10 DEF CompleteTask
  <2> QED
    BY Zenon, <1>1, <2>1, <2>2
<1>11. ASSUME NEW t \in TaskID, CancelTask(t)
       PROVE  StoreInv'
  <2>1. tasks' = [tasks EXCEPT ![t].state = "canceled"] /\ UNCHANGED <<expiry, sessions, request>>
    BY Zenon, <1>11 DEF CancelTask
  <2>2. ASSUME NEW u \in DOMAIN tasks
        PROVE  tasks'[u] \in TaskRecord /\ tasks'[u].session = tasks[u].session
    BY Zenon, <2>1, <2>2 DEF StoreInv, StoreTypes, TaskRecord, TaskState
  <2>3. Same
    BY Zenon, <2>1, <2>2 DEF Same
  <2> QED
    BY Zenon, <1>1, <1>4, <2>1, <2>3
<1>12. ASSUME NEW t \in TaskID, DeadlinePasses(t)
       PROVE  StoreInv'
  <2>1. Same
    BY <1>12, Zenon DEF DeadlinePasses, Same, StoreInv, StoreTypes
  <2> QED
    BY Zenon, <1>1, <1>4, <1>12, <2>1 DEF DeadlinePasses
<1>13. ASSUME NEW filter \in Filters, NextPage(filter)
       PROVE  StoreInv'
  BY Zenon, <1>1, <1>2, <1>4, <1>13 DEF NextPage
<1>14. CASE UNCHANGED a2aVars
  BY Zenon, <1>1, <1>2, <1>4, <1>14 DEF a2aVars
<1>15. "failed" \in TaskState /\ "completed" \in TaskState
  BY Zenon DEF TaskState
<1> QED
  BY <1>5, <1>6, <1>7, <1>8, <1>9, <1>10, <1>11, <1>12, <1>13, <1>14, <1>15, CleanKeepsIndex, Zenon
  DEF A2ANext, TaskStep

\* A new store is empty.
LEMMA StoreInit ==
    ASSUME A2AInit
    PROVE  StoreInv
<1>1. tasks = <<>> /\ expiry = <<>> /\ sessions = <<>> /\ DOMAIN <<>> = {} /\ request = [t \in TaskID |-> "new"]
  BY DEF A2AInit
<1>2. StoreTypes /\ NewHaveNone
  BY <1>1, FS_EmptySet, Zenon DEF StoreTypes, NewHaveNone
<1>3. StoreIndexed
  BY <1>1, Zenon DEF StoreIndexed
<1> QED
  BY Zenon, <1>2, <1>3 DEF StoreInv

\* The task store stays indexed: whatever requests, cancellations, evictions, deadlines
\* and cleanups come between one another, every task has a deadline and stands once in
\* the list of its own session, no list is over MaxTasksPerSession, and none names a
\* task that is gone.
THEOREM StoreStaysIndexed == A2ASpec => []StoreIndexed
<1>1. StoreInv => StoreIndexed
  BY Zenon DEF StoreInv
<1> QED
  BY StoreInit, StoreStep, <1>1, PTL DEF A2ASpec

\* One page: what a client has of the beginning of the list grows up to the new cursor,
\* and to all of it with the last page.  A cursor whose task is gone starts again.
LEMMA PageStep ==
    ASSUME StoreInv, PagesInv, NEW filter \in Filters, NextPage(filter)
    PROVE  PagesInv'
<1> DEFINE M == Matching(filter)
           m == SortTasksByID(M)
           n == Cardinality(M)
           cursor == listing.cursor
           start == StartIdx(m, cursor)
           end == IF start + Limit > Len(m) THEN Len(m) ELSE start + Limit
           page == {m[i] : i \in (start + 1) .. end}
           next == IF end < Len(m) THEN m[end] ELSE NoCursor
<1>1. M \in SUBSET Nat /\ IsFiniteSet(M) /\ M \subseteq TaskID /\ 0 \notin M
  <2>1. M \subseteq DOMAIN tasks /\ DOMAIN tasks \subseteq TaskID /\ IsFiniteSet(DOMAIN tasks)
    BY Zenon DEF StoreInv, StoreTypes, Matching
  <2> HIDE DEF M
  <2>2. IsFiniteSet(M)
    BY Zenon, <2>1, FS_Subset
  <2> QED
    BY Zenon, <2>1, <2>2, TasksAssumption
<1>2. /\ n \in Nat
      /\ m \in [1 .. n -> M]
      /\ \A i, j \in 1 .. n : i < j => m[i] < m[j]
      /\ \A x \in M : \E i \in 1 .. n : m[i] = x
  <2> HIDE DEF M
  <2> QED
    BY <1>1, AscendingIs, Zenon DEF SortTasksByID
<1>3. /\ listing.at = "idle" \/ (listing.at = "more" /\ listing.filter = filter)
      /\ listing' = [filter |-> filter, cursor |-> next, seen |-> listing.seen \cup page,
                     at |-> IF next = NoCursor THEN "done" ELSE "more"]
      /\ kept' = IF listing.at = "idle" THEN M ELSE kept
      /\ tasks' = tasks
  BY Zenon DEF NextPage, ListTasks
<1>4. kept' \subseteq M /\ Matching(filter)' = M
  <2>1. Matching(filter)' = M
    BY <1>3, Zenon DEF Matching
  <2> QED
    BY Zenon, <1>3, <2>1 DEF PagesInv
<1> HIDE DEF M, m
<1>5. Len(m) = n /\ DOMAIN m = 1 .. n /\ \A i \in 1 .. n : m[i] \in Nat \ {0}
  <2>1. m \in Seq(M) /\ DOMAIN m = 1 .. n
    BY <1>2
  <2>2. Len(m) = n
    BY <1>2, <2>1
  <2>3. \A i \in 1 .. n : m[i] \in Nat \ {0}
    BY Zenon, <1>1, <1>2
  <2> QED
    BY Zenon, <2>1, <2>2, <2>3
<1>6. start \in 0 .. n /\ (start # 0 => m[start] = cursor)
  BY <1>2, <1>5 DEF StartIdx
<1>7. start # 0 => listing.at = "more"
  <2>1. CASE listing.at = "idle"
    <3>1. cursor = 0
      BY <2>1 DEF PagesInv, NotListing, NoCursor
    <3> QED
      BY <1>5, <1>6, <3>1
  <2> QED
    BY Zenon, <1>3, <2>1
<1> HIDE DEF start
<1>8. /\ end \in 0 .. n /\ start <= end /\ (n = 0 \/ end # 0)
      /\ next = IF end < n THEN m[end] ELSE 0
  BY <1>2, <1>5, <1>6, TasksAssumption DEF NoCursor
<1> HIDE DEF end, next
<1>9. ASSUME NEW i \in 1 .. n, i <= end, m[i] \in kept'
      PROVE  m[i] \in listing.seen \cup page
  <2>1. CASE start < i
    <3>1. i \in (start + 1) .. end
      BY <1>2, <1>6, <1>8, <1>9, <2>1
    <3> QED
      BY Zenon, <3>1
  <2>2. CASE i <= start
    <3>1. start # 0 /\ listing.at = "more"
      BY <1>7, <1>6, <1>2, <2>2
    <3>2. m[i] \in kept
      BY Zenon, <1>3, <1>9, <3>1
    <3>3. i = start \/ i < start
      BY <1>6, <1>2, <2>2
    <3>4. m[i] <= m[start] /\ m[start] = cursor
      <4>1. start \in 1 .. n
        BY <1>6, <1>2, <3>1
      <4>2. m[i] \in Nat /\ m[start] \in Nat
        BY Zenon, <1>5, <4>1
      <4> QED
        BY <1>2, <1>6, <3>1, <3>3, <4>1, <4>2
    <3> QED
      BY Zenon, <3>1, <3>2, <3>4 DEF PagesInv
  <2> QED
    BY <1>2, <1>6, <2>1, <2>2
<1> HIDE DEF page
<1>10. CASE end < n
  <2>1. end \in 1 .. n /\ next = m[end] /\ next \in Nat /\ next # 0
    BY <1>2, <1>5, <1>8, <1>10
  <2>2. listing'.at = "more" /\ listing'.cursor = next /\ listing'.seen = listing.seen \cup page /\ listing'.filter = filter
    BY Zenon, <1>3, <2>1 DEF NoCursor
  <2>3. ASSUME NEW t \in kept', t <= next
        PROVE  t \in listing.seen \cup page
    <3>1. PICK i \in 1 .. n : m[i] = t
      BY Zenon, <1>2, <1>4, <2>3
    <3>2. i <= end
      <4>1. SUFFICES ASSUME end < i PROVE FALSE
        BY <1>2, <2>1
      <4>2. m[end] < m[i] /\ m[i] \in Nat
        BY Zenon, <1>2, <1>5, <2>1, <4>1
      <4> QED
        BY <2>1, <2>3, <3>1, <4>2
    <3> QED
      BY Zenon, <1>9, <2>3, <3>1, <3>2
  <2> QED
    BY Zenon, <1>4, <2>1, <2>2, <2>3 DEF PagesInv, PagesComplete
<1>11. CASE ~(end < n)
  <2>1. end = n /\ next = 0
    BY <1>2, <1>8, <1>11
  <2>2. listing'.at = "done" /\ listing'.seen = listing.seen \cup page /\ listing'.filter = filter
    BY Zenon, <1>3, <2>1 DEF NoCursor
  <2>3. ASSUME NEW t \in kept'
        PROVE  t \in listing.seen \cup page
    <3>1. PICK i \in 1 .. n : m[i] = t
      BY Zenon, <1>2, <1>4, <2>3
    <3> QED
      BY <1>2, <1>9, <2>1, <2>3, <3>1
  <2> QED
    BY Zenon, <1>4, <2>2, <2>3 DEF PagesInv, PagesComplete
<1> QED
  BY Zenon, <1>10, <1>11

\* tasks/list is complete: a client that follows the cursors to the end has seen every
\* task that matched its filter all the time, whatever changed between the pages.
THEOREM PagesAreComplete == A2ASpec => []PagesComplete
<1>1. A2AInit => A2AInv
  <2>1. ASSUME A2AInit PROVE PagesInv
    BY Zenon, <2>1 DEF A2AInit, PagesInv, PagesComplete, NotListing
  <2> QED
    BY Zenon, StoreInit, <2>1 DEF A2AInv
<1>2. A2AInv /\ [A2ANext]_a2aVars => A2AInv'
  <2>1. SUFFICES ASSUME StoreInv, PagesInv, [A2ANext]_a2aVars
                 PROVE  PagesInv'
    BY Zenon, StoreStep DEF A2AInv
  <2>2. CASE TaskStep /\ kept' = kept \cap Matching(listing.filter)'
    <3>1. listing' = listing
      BY <2>2, Zenon DEF TaskStep, StartRequest, StreamBroken, StartWork, FetchTask, HandlerReturns,
                         CompleteTask, CancelTask, DeadlinePasses, CleanExpired
    <3>2. kept' \subseteq Matching(listing.filter)' /\ kept' \subseteq kept
      BY Zenon, <2>2
    <3> QED
      BY <2>1, <3>1, <3>2, Zenon DEF PagesInv, PagesComplete
  <2>3. ASSUME NEW filter \in Filters, NextPage(filter)
        PROVE  PagesInv'
    BY Zenon, <2>1, <2>3, PageStep
  <2>4. CASE UNCHANGED a2aVars
    BY Zenon, <2>1, <2>4 DEF a2aVars, PagesInv, PagesComplete, Matching
  <2> QED
    BY Zenon, <2>1, <2>2, <2>3, <2>4 DEF A2ANext
<1>3. A2AInv => PagesComplete
  BY Zenon DEF A2AInv, PagesInv
<1> QED
  BY <1>1, <1>2, <1>3, PTL DEF A2ASpec

-----------------------------------------------------------------------------
(* The agent runner implements TaskLife, for any jobs, workers, slots and  *)
(* number of restarts.  The invariant ties the row and the answer of a job *)
(* to the place its goroutine has reached.                                 *)

Unfinished == {"submitted", "working"}
BeforeSave ==
    {"persisted", "registered", "slot", "global", "ready", "prepare", "running", "ran",
     "slotted", "ended"}
Places == BeforeSave \cup {"new", "saved", "replied", "done", "dead"}

RowFits(j) ==
    /\ at[j] = "new" => row[j] = "none" /\ j \notin unsaved
    /\ at[j] \in BeforeSave => row[j] \in Unfinished
    /\ at[j] = "saved" => outcome[j] \in Terminal /\ (j \notin unsaved => row[j] = outcome[j])

AnswerFits(j) ==
    at[j] \in BeforeSave \cup {"new", "saved"} => answer[j] = "none"

\* A process that is down has no goroutines.
DownMeansGone == process = "down" => \A j \in Job : at[j] \in {"new", "done", "dead"}

WordInv ==
    /\ at \in [Job -> Places]
    /\ outcome \in [Job -> Unfinished \cup Terminal]
    /\ row \in [Job -> {"none"} \cup Unfinished \cup Terminal]
    /\ answer \in [Job -> {"none"} \cup Terminal]
    /\ unsaved \subseteq Job
    /\ \A j \in Job : RowFits(j) /\ AnswerFits(j)
    /\ DownMeansGone

RunSpec == RunInit /\ [][RunNext]_runVars

\* A new runner has no rows and has told nobody anything.
LEMMA InitWord == RunInit => WordInv
  BY DEF RunInit, WordInv, RowFits, AnswerFits, DownMeansGone, Places, BeforeSave,
         Unfinished, Terminal

\* Submit, from the validated request to the goroutine, keeps row and place together.
LEMMA SubmitWord ==
  ASSUME WordInv, NEW j \in Job,
         CreateRow(j) \/ RegisterCancel(j) \/ Launch(j) \/ Cancel(j) \/ UnitEnds(j)
  PROVE  WordInv'
  <1>. USE DEF WordInv, RowFits, AnswerFits, DownMeansGone, Places, BeforeSave, Unfinished,
               Terminal, Moves
  <1>1. CASE CreateRow(j)  BY Zenon, <1>1 DEF CreateRow
  <1>2. CASE RegisterCancel(j)  BY Zenon, <1>2 DEF RegisterCancel
  <1>3. CASE Launch(j)  BY Zenon, <1>3 DEF Launch
  <1>4. CASE Cancel(j)  BY Zenon, <1>4 DEF Cancel
  <1>5. CASE UnitEnds(j)  BY Zenon, <1>5 DEF UnitEnds
  <1>. QED  BY Zenon, <1>1, <1>2, <1>3, <1>4, <1>5

\* The slots and the unit of a run: rows become at most working.
LEMMA RunWord ==
  ASSUME WordInv, NEW j \in Job,
         \/ AcquireSlot(j) \/ AcquireGlobal(j) \/ StartExecute(j) \/ PrepareFails(j)
         \/ StartUnit(j) \/ EndExecute(j) \/ ReleaseGlobal(j) \/ ReleaseSlot(j)
  PROVE  WordInv'
  <1>. USE DEF WordInv, RowFits, AnswerFits, DownMeansGone, Places, BeforeSave, Unfinished,
               Terminal, Moves
  <1>1. CASE AcquireSlot(j)  BY <1>1 DEF AcquireSlot
  <1>2. CASE AcquireGlobal(j)  BY <1>2 DEF AcquireGlobal
  <1>3. CASE StartExecute(j)  BY <1>3 DEF StartExecute, Update
  <1>4. CASE PrepareFails(j)  BY <1>4 DEF PrepareFails
  <1>5. CASE StartUnit(j)  BY Zenon, <1>5 DEF StartUnit
  <1>6. CASE EndExecute(j)  BY <1>6 DEF EndExecute
  <1>7. CASE ReleaseGlobal(j)  BY Zenon, <1>7 DEF ReleaseGlobal
  <1>8. CASE ReleaseSlot(j)  BY Zenon, <1>8 DEF ReleaseSlot
  <1>. QED  BY Zenon, <1>1, <1>2, <1>3, <1>4, <1>5, <1>6, <1>7, <1>8

\* The end of run: the outcome is stored before it is told.
LEMMA EndWord ==
  ASSUME WordInv, NEW j \in Job, SaveOutcome(j) \/ Reply(j) \/ Unregister(j)
  PROVE  WordInv'
  <1>. USE DEF WordInv, RowFits, AnswerFits, DownMeansGone, Places, BeforeSave, Unfinished,
               Terminal, Moves
  <1>1. CASE SaveOutcome(j)  BY Zenon, <1>1 DEF SaveOutcome, Update
  <1>2. CASE Reply(j)  BY <1>2 DEF Reply
  <1>3. CASE Unregister(j)  BY Zenon, <1>3 DEF Unregister
  <1>. QED  BY Zenon, <1>1, <1>2, <1>3

\* The end of the process takes its goroutines along, and a start meets none.
LEMMA ProcessWord ==
  ASSUME WordInv, CancelAll \/ Wait \/ RelayLost \/ FailOrphans \/ UNCHANGED runVars
  PROVE  WordInv'
  <1>. USE DEF WordInv, RowFits, AnswerFits, DownMeansGone, Places, BeforeSave, Unfinished,
               Terminal
  <1>1. CASE CancelAll  BY Zenon, <1>1 DEF CancelAll
  <1>2. CASE Wait \/ RelayLost  BY <1>2 DEF Wait, RelayLost, Gone
  <1>3. CASE FailOrphans  BY Zenon, <1>3 DEF FailOrphans
  <1>4. CASE UNCHANGED runVars  BY Zenon, <1>4 DEF runVars
  <1>. QED  BY Zenon, <1>1, <1>2, <1>3, <1>4

\* The place of a job's goroutine determines what its row and its answer may be.
THEOREM RowsFollowJobs == RunSpec => []WordInv
  <1>1. WordInv /\ [RunNext]_runVars => WordInv'
    BY Zenon, SubmitWord, RunWord, EndWord, ProcessWord DEF RunNext, Proceed
  <1>. QED  BY InitWord, <1>1, PTL DEF RunSpec

-----------------------------------------------------------------------------
\* Told to the sender of job j, as TaskLife sees it.
Told(j) == IF j \in unsaved THEN "none" ELSE answer[j]

\* A step of one task of TaskLife, or none.
JobStep(j) ==
    /\ row'[j] = row[j] \/ <<row[j], row'[j]>> \in TL!Steps
    /\ \/ Told(j)' = Told(j)
       \/ Told(j) = "none" /\ row[j] \in Terminal /\ Told(j)' = row[j]

\* Every step of the runner is, for every job, a step of its task or none.
LEMMA StepIsJobStep ==
  ASSUME WordInv, [RunNext]_runVars, NEW i \in Job
  PROVE  JobStep(i)
  <1>. USE DEF WordInv, RowFits, AnswerFits, Places, BeforeSave, Unfinished, Terminal,
               JobStep, Told, TL!Steps, TL!Ends
  <1>1. ASSUME NEW j \in Job, CreateRow(j)  PROVE JobStep(i)
    BY Zenon, <1>1 DEF CreateRow, Moves
  <1>2. ASSUME NEW j \in Job, StartExecute(j)  PROVE JobStep(i)
    BY Zenon, <1>2 DEF StartExecute, Update, Moves
  <1>3. ASSUME NEW j \in Job, SaveOutcome(j)  PROVE JobStep(i)
    BY Zenon, <1>3 DEF SaveOutcome, Update, Moves
  <1>4. ASSUME NEW j \in Job, Reply(j)  PROVE JobStep(i)
    BY Zenon, <1>4 DEF Reply, Moves
  <1>5. CASE FailOrphans
    BY Zenon, <1>5 DEF FailOrphans
  <1>6. CASE UNCHANGED <<row, answer, unsaved>>
    BY Zenon, <1>6
  <1>7. ASSUME NEW j \in Job,
               \/ Cancel(j) \/ UnitEnds(j) \/ RegisterCancel(j) \/ Launch(j)
               \/ AcquireSlot(j) \/ AcquireGlobal(j) \/ PrepareFails(j) \/ StartUnit(j)
               \/ EndExecute(j) \/ ReleaseGlobal(j) \/ ReleaseSlot(j) \/ Unregister(j)
        PROVE  UNCHANGED <<row, answer, unsaved>>
    BY Zenon, <1>7 DEF Cancel, UnitEnds, RegisterCancel, Launch, AcquireSlot, AcquireGlobal,
                PrepareFails, StartUnit, EndExecute, ReleaseGlobal, ReleaseSlot, Unregister
  <1>8. CASE CancelAll \/ Wait \/ RelayLost \/ UNCHANGED runVars
    BY Zenon, <1>6, <1>8 DEF CancelAll, Wait, RelayLost, Gone, runVars
  <1>. QED
    BY Zenon, <1>1, <1>2, <1>3, <1>4, <1>5, <1>6, <1>7, <1>8 DEF RunNext, Proceed

\* The runner keeps its word to the senders of tasks: through cancels, crashes at
\* any step and restarts, a task ends once, as tasks/get reports it ever after, and
\* what tasks/result told its sender is that ending.
THEOREM RunnerKeepsItsWord == RunSpec => KeepsItsWord
  <1>1. RunInit => TL!Init
    BY Zenon DEF RunInit, TL!Init
  <1>2. WordInv /\ [RunNext]_runVars
            => [TL!Next]_<<row, [j \in Job |-> IF j \in unsaved THEN "none" ELSE answer[j]]>>
    BY Zenon, StepIsJobStep DEF JobStep, Told, TL!Next, TL!Ends, Terminal
  <1>. QED  BY <1>1, <1>2, RowsFollowJobs, PTL DEF RunSpec, KeepsItsWord, TL!Spec

-----------------------------------------------------------------------------
(***************************************************************************)
(* The tools of the MCP server.  The inbox, the tasks and the gateway have *)
(* an invariant each; a session belongs to the first two.                  *)
(***************************************************************************)
SessionTypes ==
    session \in [ToolUser -> [at : {"ready", "mark", "count", "submit", "cancel", "untrack"},
                              ref : Nat \cup RemoteTask, total : Nat, since : Nat]]

InboxTypes ==
    /\ arrived \in 0 .. MaxIncoming
    /\ inbox \in Seq(1 .. arrived) /\ Len(inbox) <= MaxInbox
    /\ marked \subseteq 1 .. arrived /\ announcing \subseteq 1 .. arrived
    /\ announced \subseteq 1 .. arrived /\ erased \subseteq 1 .. arrived

\* A sequence of length k of the first a numbers has the newest first.  The i-th is at
\* least i - 1 older than the newest, so one that is trimmed has MaxInbox newer ones.
Falling(box, k, a) ==
    /\ \A i \in 1 .. k : box[i] \in 1 .. a /\ box[i] + i <= a + 1
    /\ \A i, j \in 1 .. k : i < j => box[i] > box[j]

Accounted ==
    /\ \A n \in 1 .. arrived : In(n) \/ n \in erased \/ arrived - n >= MaxInbox
    /\ \A n \in erased : ~In(n)
    /\ \A n : <<n, FALSE>> \in shown => n \in 1 .. arrived /\ ~In(n)

\* What a session remembers of the inbox between its two looks.
Looking(u) ==
    /\ session[u].at = "mark" => session[u].ref \in 1 .. arrived
    /\ session[u].at = "count" => /\ session[u].since \in 0 .. arrived
                                  /\ Len(inbox) <= session[u].total + (arrived - session[u].since)

InboxInv ==
    /\ SessionTypes /\ InboxTypes /\ Falling(inbox, Len(inbox), arrived) /\ Accounted
    /\ \A u \in ToolUser : Looking(u)
    /\ ~miscounted

\* A sequence stays in order with a newer number before it, cut off at its end, and with
\* one taken out.
LEMMA FallingFrom ==
    ASSUME NEW a \in Nat, NEW k \in Nat, NEW l \in Nat, NEW old, NEW box,
           Falling(old, k, a), 1 <= l, l <= k + 1,
           box[1] = a + 1, \A i \in 2 .. l : box[i] = old[i - 1]
    PROVE  Falling(box, l, a + 1)
<1>1. \A i \in 2 .. l : i - 1 \in 1 .. k /\ box[i] = old[i - 1]
  OBVIOUS
<1>2. \A i \in 1 .. l : i = 1 \/ i \in 2 .. l
  OBVIOUS
<1>3. \A i \in 2 .. l : box[i] \in 1 .. a /\ box[i] + i <= a + 2
  BY <1>1 DEF Falling
<1>4. \A i, j \in 2 .. l : i < j => box[i] > box[j]
  BY <1>1 DEF Falling
<1> QED BY <1>2, <1>3, <1>4 DEF Falling

\* Without its m-th message, which Delete removes, the newest are still first.
LEMMA FallingWithout ==
    ASSUME NEW a \in Nat, NEW k \in Nat, NEW m \in 1 .. k, NEW old, NEW box,
           Falling(old, k, a),
           \A i \in 1 .. k - 1 : box[i] = IF i < m THEN old[i] ELSE old[i + 1]
    PROVE  Falling(box, k - 1, a)
BY DEF Falling

\* A new message is the first, the others move back, and the last may be trimmed.
LEMMA Prepended ==
    ASSUME NEW n, InboxTypes, n = arrived + 1
    PROVE  /\ Prepend(n) \in Seq(1 .. n) /\ Len(Prepend(n)) \in Nat /\ Len(Prepend(n)) >= 1
           /\ Prepend(n)[1] = n
           /\ \A i \in 2 .. Len(Prepend(n)) : i - 1 \in DOMAIN inbox /\ Prepend(n)[i] = inbox[i - 1]
           /\ Len(Prepend(n)) <= MaxInbox /\ Len(Prepend(n)) <= Len(inbox) + 1
           /\ Len(Prepend(n)) = Len(inbox) + 1 \/ (Len(inbox) = MaxInbox /\ Len(Prepend(n)) = MaxInbox)
<1> USE ToolAssumption
<1>1. /\ arrived \in Nat /\ inbox \in Seq(1 .. arrived) /\ Len(inbox) \in Nat /\ Len(inbox) <= MaxInbox
      /\ DOMAIN inbox = 1 .. Len(inbox) /\ \A i \in 1 .. Len(inbox) : inbox[i] \in 1 .. arrived
  BY DEF InboxTypes
<1> DEFINE all == <<n>> \o inbox
<1>2. inbox \in Seq(1 .. n) /\ <<n>> \in Seq(1 .. n)
  BY <1>1
<1>3. all \in Seq(1 .. n) /\ Len(all) = Len(inbox) + 1
  BY <1>1, <1>2
<1>4. all[1] = n /\ \A i \in 2 .. Len(inbox) + 1 : all[i] = inbox[i - 1]
  BY <1>1, <1>2
<1>p. Prepend(n) = IF Len(all) > MaxInbox THEN SubSeq(all, 1, MaxInbox) ELSE all
  BY Zenon DEF Prepend
<1> HIDE DEF all
<1>5. CASE Len(all) > MaxInbox
  <2>1. Prepend(n) = SubSeq(all, 1, MaxInbox)
    BY Zenon, <1>5, <1>p
  <2>3. Len(inbox) = MaxInbox
    <3>1. Len(inbox) \in Nat /\ Len(inbox) <= MaxInbox /\ Len(all) = Len(inbox) + 1
      BY Zenon, <1>1, <1>3
    <3> QED BY <1>5, <3>1
  <2>2. /\ Len(SubSeq(all, 1, MaxInbox)) = MaxInbox
        /\ \A i \in 1 .. MaxInbox : SubSeq(all, 1, MaxInbox)[i] = all[i]
        /\ SubSeq(all, 1, MaxInbox) \in Seq(1 .. n)
    BY <1>3, <1>5
  <2> DEFINE box == Prepend(n)
  <2>4. box \in Seq(1 .. n) /\ Len(box) = MaxInbox /\ \A i \in 1 .. MaxInbox : box[i] = all[i]
    BY Zenon, <2>1, <2>2
  <2> HIDE DEF box
  <2>5. box[1] = n /\ \A i \in 2 .. Len(box) : i - 1 \in DOMAIN inbox /\ box[i] = inbox[i - 1]
    <3>1. Len(inbox) \in Nat /\ Len(inbox) = MaxInbox /\ Len(box) = MaxInbox
      BY Zenon, <1>1, <2>3, <2>4
    <3>2. 1 \in 1 .. MaxInbox
      BY ToolAssumption
    <3>3. \A i \in 2 .. Len(box) :
             i \in 1 .. MaxInbox /\ i \in 2 .. Len(inbox) + 1 /\ i - 1 \in 1 .. Len(inbox)
      BY <3>1
    <3> QED BY Zenon, <1>1, <1>4, <2>4, <3>2, <3>3
  <2> QED BY <1>1, <2>3, <2>4, <2>5 DEF box
<1>6. CASE ~(Len(all) > MaxInbox)
  <2>1. Prepend(n) = all
    <3>1. Len(all) \in Nat
      BY <1>1, <1>3
    <3> QED BY Zenon, <1>6, <1>p, <3>1
  <2>2. /\ \A i \in 2 .. Len(all) : i - 1 \in DOMAIN inbox /\ all[i] = inbox[i - 1]
        /\ Len(all) \in Nat /\ Len(all) >= 1 /\ Len(all) <= MaxInbox /\ Len(all) <= Len(inbox) + 1
    BY <1>1, <1>3, <1>4, <1>6
  <2> QED BY Zenon, <1>3, <1>4, <2>1, <2>2
<1> QED BY Zenon, <1>5, <1>6

\* HandleIncomingMessage and the notification.
LEMMA AddStep ==
    ASSUME InboxInv, AddMessage
    PROVE  InboxInv'
<1>1. /\ arrived < MaxIncoming /\ arrived' = arrived + 1 /\ inbox' = Prepend(arrived + 1)
      /\ announcing' = announcing \cup {arrived + 1}
      /\ UNCHANGED <<marked, announced, erased, shown, miscounted, session>>
  BY Zenon DEF AddMessage
<1>2. SessionTypes' /\ ~miscounted'
  BY Zenon, <1>1 DEF InboxInv, SessionTypes
<1>p. InboxTypes
  BY Zenon DEF InboxInv
<1>t. /\ arrived \in 0 .. MaxIncoming /\ arrived \in Nat /\ Len(inbox) \in Nat
      /\ MaxInbox \in Nat /\ MaxInbox > 0 /\ DOMAIN inbox = 1 .. Len(inbox)
  BY <1>p, ToolAssumption DEF InboxTypes
<1> DEFINE n == arrived + 1
           box == Prepend(n)
           k == Len(inbox)
           l == Len(box)
<1>3. /\ box \in Seq(1 .. n) /\ l \in Nat /\ l >= 1 /\ box[1] = n
      /\ \A i \in 2 .. l : i - 1 \in 1 .. k /\ box[i] = inbox[i - 1]
      /\ l <= MaxInbox /\ l <= k + 1
      /\ l = k + 1 \/ (k = MaxInbox /\ l = MaxInbox)
      /\ DOMAIN box = 1 .. l
  <2>1. n = arrived + 1
    BY Zenon
  <2> HIDE DEF n
  <2>2. box \in Seq(1 .. n)
    BY Zenon, <1>p, <2>1, Prepended
  <2> HIDE DEF box
  <2>3. DOMAIN box = 1 .. l
    BY <2>2
  <2> QED BY Zenon, <1>p, <1>t, <2>1, <2>2, <2>3, Prepended DEF box
<1>n. k \in Nat /\ l \in Nat /\ l >= 1 /\ (l = k + 1 \/ (k = MaxInbox /\ l = MaxInbox))
  BY Zenon, <1>t, <1>3
<1>f. Falling(inbox, k, arrived)
  BY Zenon DEF InboxInv
<1>5. Falling(box, l, n)
  <2>1. \A i \in 2 .. l : box[i] = inbox[i - 1]
    BY Zenon, <1>3
  <2> HIDE DEF box, l, k
  <2>2. k \in Nat
    BY Zenon, <1>t DEF k
  <2> QED BY Zenon, <1>t, <1>3, <1>f, <2>1, <2>2, FallingFrom
<1>e. arrived' = n /\ inbox' = box /\ announcing' = announcing \cup {n}
  BY Zenon, <1>1
<1>o. \A m \in 1 .. n : m \in 1 .. arrived \/ m = n
  BY <1>t
<1>a. n \notin 1 .. arrived /\ n \in 1 .. n /\ 1 .. arrived \subseteq 1 .. n /\ n \in 0 .. MaxIncoming
  BY <1>1, <1>t, ToolAssumption
<1> HIDE DEF box, l, k
<1>4. InboxTypes'
  BY Zenon, <1>1, <1>e, <1>3, <1>p, <1>a DEF InboxTypes, l
<1>6. \A m \in 1 .. arrived : (\E i \in 1 .. l : box[i] = m) => (\E i \in 1 .. k : inbox[i] = m)
  <2> SUFFICES ASSUME NEW m \in 1 .. arrived, NEW i \in 1 .. l, box[i] = m
               PROVE  \E q \in 1 .. k : inbox[q] = m
    BY Zenon
  <2>1. i # 1
    BY Zenon, <1>3, <1>a
  <2>2. i \in 2 .. l
    BY <1>n, <2>1
  <2> QED BY Zenon, <1>3, <2>2
<1>7. \A m \in 1 .. arrived : (\E i \in 1 .. k : inbox[i] = m) =>
          (\E i \in 1 .. l : box[i] = m) \/ n - m >= MaxInbox
  <2> SUFFICES ASSUME NEW m \in 1 .. arrived, NEW i \in 1 .. k, inbox[i] = m
               PROVE  (\E q \in 1 .. l : box[q] = m) \/ n - m >= MaxInbox
    BY Zenon
  <2>1. CASE i + 1 <= l
    <3>1. i + 1 \in 2 .. l /\ (i + 1) - 1 = i /\ i + 1 \in 1 .. l
      BY <1>n, <2>1
    <3>2. box[i + 1] = m
      BY Zenon, <1>3, <3>1
    <3> QED BY Zenon, <3>1, <3>2
  <2>2. CASE ~(i + 1 <= l)
    <3>1. i = MaxInbox
      BY <1>n, <1>t, <2>2
    <3>2. m + i <= arrived + 1
      BY Zenon, <1>f DEF Falling
    <3> QED BY <1>t, <3>1, <3>2
  <2> QED BY Zenon, <2>1, <2>2
<1>8. \E i \in 1 .. l : box[i] = n
  <2>1. 1 \in 1 .. l
    BY <1>n
  <2> QED BY Zenon, <1>3, <2>1
<1>m. \A m : (In(m)' <=> \E i \in 1 .. l : box[i] = m) /\ (In(m) <=> \E i \in 1 .. k : inbox[i] = m)
  <2>1. DOMAIN inbox = 1 .. k
    BY Zenon, <1>t DEF k
  <2> QED BY Zenon, <1>e, <1>3, <2>1 DEF In
<1> HIDE DEF k, n
<1>9. Accounted'
  <2>2. \A m \in 1 .. arrived : arrived - m >= MaxInbox => n - m >= MaxInbox
    BY <1>t DEF n
  <2>3. \A m \in 1 .. arrived : In(m)' \/ m \in erased \/ n - m >= MaxInbox
    BY Zenon, <1>7, <1>m, <2>2 DEF InboxInv, Accounted
  <2>4. \A m \in 1 .. arrived' : In(m)' \/ m \in erased' \/ arrived' - m >= MaxInbox
    <3>1. erased' = erased /\ arrived' = n
      BY Zenon, <1>1, <1>e
    <3> QED BY Zenon, <3>1, <1>8, <1>m, <1>o, <2>3
  <2>5. \A m \in erased' : ~In(m)'
    BY Zenon, <1>1, <1>6, <1>m, <1>p DEF InboxInv, Accounted, InboxTypes
  <2>6. \A m : <<m, FALSE>> \in shown' => m \in 1 .. arrived' /\ ~In(m)'
    BY Zenon, <1>1, <1>e, <1>6, <1>m, <1>a DEF InboxInv, Accounted
  <2> QED BY Zenon, <2>4, <2>5, <2>6 DEF Accounted
<1>10. \A u \in ToolUser : Looking(u)'
  <2> SUFFICES ASSUME NEW u \in ToolUser PROVE Looking(u)'
    OBVIOUS
  <2>1. session'[u] = session[u] /\ Len(inbox') = l /\ l \in Nat /\ l <= k + 1 /\ k \in Nat
    BY Zenon, <1>1, <1>e, <1>3, <1>t DEF l, k
  <2>2. session[u].total \in Nat /\ Looking(u)
    BY Zenon DEF InboxInv, SessionTypes
  <2> QED BY <1>e, <1>t, <2>1, <2>2 DEF Looking, n, k
<1> QED BY Zenon, <1>2, <1>4, <1>5, <1>9, <1>10, <1>e DEF InboxInv, l

\* Steps that leave the inbox alone and take no look at it.
LEMMA InboxFrame ==
    ASSUME InboxInv, UNCHANGED inboxVars, SessionTypes',
           \A u \in ToolUser : session'[u] = session[u] \/ session'[u].at \notin {"mark", "count"}
    PROVE  InboxInv'
<1>1. UNCHANGED <<inbox, marked, arrived, announcing, announced, erased, shown, miscounted>>
  BY Zenon DEF inboxVars
<1>2. InboxTypes' /\ Falling(inbox, Len(inbox), arrived)' /\ ~miscounted'
  BY Zenon, <1>1 DEF InboxInv, InboxTypes
<1>3. Accounted'
  BY Zenon, <1>1 DEF InboxInv, Accounted, In
<1>4. \A u \in ToolUser : Looking(u)'
  BY Zenon, <1>1 DEF InboxInv, Looking
<1> QED BY Zenon, <1>2, <1>3, <1>4 DEF InboxInv

\* A step of one session makes a record of the session's type.
LEMMA SessionStep ==
    ASSUME SessionTypes, NEW u \in ToolUser, NEW s, Goto(u, s),
           s \in [at : {"ready", "mark", "count", "submit", "cancel", "untrack"},
                  ref : Nat \cup RemoteTask, total : Nat, since : Nat]
    PROVE  SessionTypes' /\ session'[u] = s /\ \A v \in ToolUser \ {u} : session'[v] = session[v]
BY Zenon DEF SessionTypes, Goto

\* The notification of the clients.
LEMMA NotifyStep ==
    ASSUME InboxInv, NEW n, NotifyMessageReceived(n)
    PROVE  InboxInv'
<1>1. /\ n \in announcing /\ announcing' = announcing \ {n} /\ announced' = announced \cup {n}
      /\ UNCHANGED <<inbox, marked, arrived, erased, shown, miscounted, session>>
  BY Zenon DEF NotifyMessageReceived
<1>2. InboxTypes' /\ SessionTypes' /\ Falling(inbox, Len(inbox), arrived)' /\ ~miscounted'
  BY Zenon, <1>1 DEF InboxInv, InboxTypes, SessionTypes
<1>3. Accounted'
  BY Zenon, <1>1 DEF InboxInv, Accounted, In
<1>4. \A u \in ToolUser : Looking(u)'
  BY Zenon, <1>1 DEF InboxInv, Looking
<1> QED BY Zenon, <1>2, <1>3, <1>4 DEF InboxInv

\* read_message finds the message and remembers its number.
LEMMA GetStep ==
    ASSUME InboxInv, NEW u \in ToolUser, NEW n \in 1 .. arrived, GetMessage(u, n)
    PROVE  InboxInv'
<1> DEFINE s == IF In(n) THEN [Ready EXCEPT !.at = "mark", !.ref = n] ELSE Ready
<1>1. UNCHANGED <<inbox, marked, arrived, announcing, announced, erased, shown, miscounted>> /\ Goto(u, s)
  BY Zenon DEF GetMessage, inboxVars
<1>t. arrived \in Nat /\ SessionTypes
  BY ToolAssumption DEF InboxInv, InboxTypes
<1>2. /\ s \in [at : {"ready", "mark", "count", "submit", "cancel", "untrack"},
                ref : Nat \cup RemoteTask, total : Nat, since : Nat]
      /\ s.at # "count" /\ (s.at = "mark" => s.ref = n)
  <2>1. n \in Nat
    BY <1>t
  <2>2. [Ready EXCEPT !.at = "mark", !.ref = n] \in [at : {"mark"}, ref : {n}, total : {0}, since : {0}]
    BY Zenon DEF Ready
  <2>3. Ready \in [at : {"ready"}, ref : {0}, total : {0}, since : {0}]
    BY Zenon DEF Ready
  <2>4. s \in [at : {"mark"}, ref : {n}, total : {0}, since : {0}] \cup
              [at : {"ready"}, ref : {0}, total : {0}, since : {0}]
    BY Zenon, <2>2, <2>3
  <2> HIDE DEF s
  <2> QED BY <2>1, <2>4
<1> HIDE DEF s
<1>3. SessionTypes' /\ session'[u] = s /\ \A v \in ToolUser \ {u} : session'[v] = session[v]
  BY Zenon, <1>1, <1>2, <1>t, SessionStep
<1>4. InboxTypes' /\ Falling(inbox, Len(inbox), arrived)' /\ ~miscounted'
  BY Zenon, <1>1 DEF InboxInv, InboxTypes
<1>5. Accounted'
  BY Zenon, <1>1 DEF InboxInv, Accounted, In
<1>6. \A v \in ToolUser : Looking(v)'
  BY Zenon, <1>1, <1>2, <1>3 DEF InboxInv, Looking
<1> QED BY Zenon, <1>3, <1>4, <1>5, <1>6 DEF InboxInv

\* MarkRead: an answer shows a message as unread when the second lookup fails.
LEMMA MarkReadStep ==
    ASSUME InboxInv, NEW u \in ToolUser, MarkRead(u)
    PROVE  InboxInv'
<1> DEFINE n == session[u].ref
<1>1. /\ session[u].at = "mark" /\ Goto(u, Ready)
      /\ marked' = (IF In(n) THEN marked \cup {n} ELSE marked)
      /\ shown' = shown \cup {<<n, n \in marked'>>}
      /\ UNCHANGED <<inbox, arrived, announcing, announced, erased, miscounted>>
  BY Zenon DEF MarkRead
<1>2. n \in 1 .. arrived
  BY Zenon, <1>1 DEF InboxInv, Looking
<1>r. /\ Ready \in [at : {"ready", "mark", "count", "submit", "cancel", "untrack"},
                    ref : Nat \cup RemoteTask, total : Nat, since : Nat]
      /\ Ready.at = "ready"
  BY Zenon DEF Ready
<1>3. SessionTypes' /\ session'[u] = Ready /\ \A v \in ToolUser \ {u} : session'[v] = session[v]
  BY Zenon, <1>1, <1>r, SessionStep DEF InboxInv
<1> HIDE DEF n
<1>4. InboxTypes' /\ Falling(inbox, Len(inbox), arrived)' /\ ~miscounted'
  BY Zenon, <1>1, <1>2 DEF InboxInv, InboxTypes
<1>5. Accounted'
  <2>1. \A m : <<m, FALSE>> \in shown' => <<m, FALSE>> \in shown \/ (m = n /\ ~In(n))
    <3> SUFFICES ASSUME NEW m, <<m, FALSE>> \in shown', <<m, FALSE>> \notin shown
                 PROVE  m = n /\ ~In(n)
      BY Zenon
    <3>1. <<m, FALSE>> = <<n, n \in marked'>>
      BY Zenon, <1>1
    <3>2. m = n /\ FALSE = (n \in marked')
      BY Zenon, <3>1
    <3>3. n \notin marked'
      BY Zenon, <3>2
    <3> QED BY Zenon, <1>1, <3>2, <3>3
  <2> QED BY Zenon, <1>1, <1>2, <2>1 DEF InboxInv, Accounted, In
<1>6. \A v \in ToolUser : Looking(v)'
  BY Zenon, <1>1, <1>r, <1>3 DEF InboxInv, Looking
<1> QED BY Zenon, <1>3, <1>4, <1>5, <1>6 DEF InboxInv

\* What TakenOut makes is a sequence.
LEMMA AsSequence ==
    ASSUME NEW T, NEW l \in Nat, NEW box \in [1 .. l -> T]
    PROVE  box \in Seq(T) /\ Len(box) = l /\ DOMAIN box = 1 .. l
OBVIOUS

\* Delete takes one message out.
LEMMA EraseStep ==
    ASSUME InboxInv, NEW u \in ToolUser, NEW n \in 1 .. arrived, EraseMessage(u, n)
    PROVE  InboxInv'
<1>0. /\ UNCHANGED <<marked, arrived, announcing, announced, shown, miscounted, session>>
      /\ \/ ~In(n) /\ UNCHANGED <<inbox, erased>>
         \/ \E i \in DOMAIN inbox :
               /\ inbox[i] = n /\ \A j \in 1 .. i - 1 : inbox[j] # n
               /\ inbox' = TakenOut(i) /\ erased' = erased \cup {n}
  BY Zenon DEF EraseMessage
<1>1. CASE ~In(n) /\ UNCHANGED <<inbox, erased>>
  <2>1. UNCHANGED inboxVars /\ SessionTypes' /\ \A v \in ToolUser : session'[v] = session[v]
    BY Zenon, <1>0, <1>1 DEF inboxVars, InboxInv, SessionTypes
  <2> QED BY Zenon, <2>1, InboxFrame
<1>2. ASSUME NEW m \in DOMAIN inbox, inbox[m] = n, inbox' = TakenOut(m), erased' = erased \cup {n}
      PROVE  InboxInv'
  <2> DEFINE k == Len(inbox)
             box == TakenOut(m)
  <2>p. InboxTypes /\ SessionTypes
    BY Zenon DEF InboxInv
  <2>t. /\ arrived \in Nat /\ k \in Nat /\ DOMAIN inbox = 1 .. k /\ k <= MaxInbox
        /\ \A i \in 1 .. k : inbox[i] \in 1 .. arrived
    BY <2>p, ToolAssumption DEF InboxTypes
  <2>1. m \in 1 .. k /\ k >= 1 /\ k - 1 \in Nat /\ k \in Nat
    <3>1. k \in Nat /\ m \in 1 .. k
      BY Zenon, <2>t, <1>2
    <3> HIDE DEF k
    <3> QED BY <3>1
  <2>2. box = [j \in 1 .. k - 1 |-> IF j < m THEN inbox[j] ELSE inbox[j + 1]]
    BY Zenon DEF TakenOut
  <2> HIDE DEF box, k
  <2>3. box \in Seq(1 .. arrived) /\ Len(box) = k - 1 /\ DOMAIN box = 1 .. k - 1
    <3>1. \A j \in 1 .. k - 1 : (IF j < m THEN inbox[j] ELSE inbox[j + 1]) \in 1 .. arrived
      BY <2>1, <2>t
    <3>2. box \in [1 .. k - 1 -> 1 .. arrived]
      BY Zenon, <2>2, <3>1
    <3> DEFINE l == k - 1
    <3>3. l \in Nat /\ box \in [1 .. l -> 1 .. arrived]
      BY Zenon, <2>1, <3>2
    <3> HIDE DEF l
    <3>4. box \in Seq(1 .. arrived) /\ Len(box) = l /\ DOMAIN box = 1 .. l
      BY Zenon, <3>3, AsSequence
    <3> QED BY Zenon, <3>4 DEF l
  <2>4. \A j \in 1 .. k - 1 : box[j] = IF j < m THEN inbox[j] ELSE inbox[j + 1]
    BY Zenon, <2>2
  <2>5. Falling(inbox, k, arrived)
    BY Zenon DEF InboxInv, k
  <2>6. Falling(box, k - 1, arrived)
    BY Zenon, <2>t, <2>1, <2>4, <2>5, FallingWithout
  <2>7. \A i \in 1 .. k : i # m => inbox[i] # n
    <3>1. \A i, j \in 1 .. k : i < j => inbox[i] > inbox[j]
      BY Zenon, <2>5 DEF Falling
    <3> QED BY <3>1, <1>2, <2>1, <2>t
  <2>8. \A q : (\E i \in 1 .. k - 1 : box[i] = q) <=> (q # n /\ \E i \in 1 .. k : inbox[i] = q)
    <3> SUFFICES ASSUME NEW q
                 PROVE  (\E i \in 1 .. k - 1 : box[i] = q) <=> (q # n /\ \E i \in 1 .. k : inbox[i] = q)
      OBVIOUS
    <3>1. ASSUME NEW i \in 1 .. k - 1, box[i] = q
          PROVE  q # n /\ \E j \in 1 .. k : inbox[j] = q
      <4>1. CASE i < m
        <5>1. i \in 1 .. k /\ i # m
          BY <2>1, <4>1
        <5> QED BY Zenon, <5>1, <4>1, <2>4, <2>7, <3>1
      <4>2. CASE ~(i < m)
        <5>1. i + 1 \in 1 .. k /\ i + 1 # m
          BY <2>1, <4>2
        <5> QED BY Zenon, <5>1, <4>2, <2>4, <2>7, <3>1
      <4> QED BY Zenon, <4>1, <4>2
    <3>2. ASSUME q # n, NEW j \in 1 .. k, inbox[j] = q
          PROVE  \E i \in 1 .. k - 1 : box[i] = q
      <4>1. j # m
        BY Zenon, <3>2, <1>2
      <4>2. CASE j < m
        <5>1. j \in 1 .. k - 1
          BY <2>1, <4>2
        <5> QED BY Zenon, <5>1, <4>2, <2>4, <3>2
      <4>3. CASE ~(j < m)
        <5>1. j - 1 \in 1 .. k - 1 /\ ~(j - 1 < m) /\ (j - 1) + 1 = j
          BY <2>1, <4>1, <4>3
        <5> QED BY Zenon, <5>1, <2>4, <3>2
      <4> QED BY Zenon, <4>2, <4>3
    <3> QED BY Zenon, <3>1, <3>2
  <2>9. \A q : In(q)' <=> (q # n /\ In(q))
    <3>1. inbox' = box
      BY Zenon, <1>2 DEF box
    <3>2. \A q : (In(q)' <=> \E i \in 1 .. k - 1 : box[i] = q) /\ (In(q) <=> \E i \in 1 .. k : inbox[i] = q)
      BY Zenon, <3>1, <2>3, <2>t DEF In
    <3> QED BY Zenon, <3>2, <2>8
  <2>10. Len(inbox') = k - 1 /\ inbox' \in Seq(1 .. arrived) /\ Falling(inbox', k - 1, arrived)
    BY Zenon, <1>2, <2>3, <2>6 DEF box
  <2>11. InboxTypes' /\ SessionTypes' /\ Falling(inbox, Len(inbox), arrived)' /\ ~miscounted'
    <3>1. k - 1 <= MaxInbox
      BY <2>t, <2>1, ToolAssumption
    <3> QED BY Zenon, <1>0, <1>2, <2>p, <2>10, <3>1 DEF InboxInv, InboxTypes, SessionTypes
  <2>12. Accounted'
    BY Zenon, <1>0, <1>2, <2>9 DEF InboxInv, Accounted
  <2>13. \A v \in ToolUser : Looking(v)'
    <3> SUFFICES ASSUME NEW v \in ToolUser PROVE Looking(v)'
      OBVIOUS
    <3>1. session'[v] = session[v] /\ arrived' = arrived /\ Len(inbox') = Len(inbox) - 1
      BY Zenon, <1>0, <2>10 DEF k
    <3>2. session[v].total \in Nat /\ Looking(v) /\ Len(inbox) \in Nat
      BY Zenon, <2>p, <2>t DEF InboxInv, SessionTypes, k
    <3> QED BY <2>t, <3>1, <3>2 DEF Looking
  <2> QED BY Zenon, <2>11, <2>12, <2>13 DEF InboxInv
<1> QED BY Zenon, <1>0, <1>1, <1>2

\* message_count remembers how many messages there were.
LEMMA CountStep ==
    ASSUME InboxInv, NEW u \in ToolUser, CountTotal(u)
    PROVE  InboxInv'
<1> DEFINE s == [at |-> "count", ref |-> 0, total |-> Len(inbox), since |-> arrived]
<1>1. UNCHANGED <<inbox, marked, arrived, announcing, announced, erased, shown, miscounted>> /\ Goto(u, s)
  BY Zenon DEF CountTotal, inboxVars
<1>t. arrived \in Nat /\ Len(inbox) \in Nat /\ SessionTypes
  BY ToolAssumption DEF InboxInv, InboxTypes
<1>2. /\ s \in [at : {"ready", "mark", "count", "submit", "cancel", "untrack"},
                ref : Nat \cup RemoteTask, total : Nat, since : Nat]
      /\ s.at = "count" /\ s.total = Len(inbox) /\ s.since = arrived
  BY Zenon, <1>t
<1> HIDE DEF s
<1>3. SessionTypes' /\ session'[u] = s /\ \A v \in ToolUser \ {u} : session'[v] = session[v]
  BY Zenon, <1>1, <1>2, <1>t, SessionStep
<1>4. InboxTypes' /\ Falling(inbox, Len(inbox), arrived)' /\ ~miscounted'
  BY Zenon, <1>1 DEF InboxInv, InboxTypes
<1>5. Accounted'
  BY Zenon, <1>1 DEF InboxInv, Accounted, In
<1>6. \A v \in ToolUser \ {u} : Looking(v)'
  BY Zenon, <1>1, <1>3 DEF InboxInv, Looking
<1>7. Looking(u)'
  <2>1. arrived \in 0 .. arrived /\ Len(inbox) <= Len(inbox) + (arrived - arrived)
    BY <1>t
  <2>2. inbox' = inbox /\ arrived' = arrived /\ session'[u] = s /\ "count" # "mark"
    BY Zenon, <1>1, <1>3
  <2> QED BY Zenon, <1>2, <2>1, <2>2 DEF Looking
<1> QED BY Zenon, <1>3, <1>4, <1>5, <1>6, <1>7 DEF InboxInv

\* ... and counts the unread ones; there are no more of them than messages in the inbox.
LEMMA UnreadStep ==
    ASSUME InboxInv, NEW u \in ToolUser, CountUnread(u)
    PROVE  InboxInv'
<1> DEFINE unread == {i \in DOMAIN inbox : inbox[i] \notin marked}
<1>1. /\ session[u].at = "count" /\ Goto(u, Ready)
      /\ miscounted' = (miscounted \/ Cardinality(unread) > session[u].total + (arrived - session[u].since))
      /\ UNCHANGED <<inbox, marked, arrived, announcing, announced, erased, shown>>
  BY Zenon DEF CountUnread
<1>t. arrived \in Nat /\ Len(inbox) \in Nat /\ SessionTypes /\ DOMAIN inbox = 1 .. Len(inbox)
  BY ToolAssumption DEF InboxInv, InboxTypes
<1>r. /\ Ready \in [at : {"ready", "mark", "count", "submit", "cancel", "untrack"},
                    ref : Nat \cup RemoteTask, total : Nat, since : Nat]
      /\ Ready.at = "ready"
  BY Zenon DEF Ready
<1>3. SessionTypes' /\ session'[u] = Ready /\ \A v \in ToolUser \ {u} : session'[v] = session[v]
  BY Zenon, <1>1, <1>r, SessionStep DEF InboxInv
<1>4. InboxTypes' /\ Falling(inbox, Len(inbox), arrived)'
  BY Zenon, <1>1 DEF InboxInv, InboxTypes
<1>5. Accounted'
  BY Zenon, <1>1 DEF InboxInv, Accounted, In
<1>6. \A v \in ToolUser : Looking(v)'
  BY Zenon, <1>1, <1>r, <1>3 DEF InboxInv, Looking
<1>7. Cardinality(unread) \in Nat /\ Cardinality(unread) <= Len(inbox)
  <2>1. IsFiniteSet(1 .. Len(inbox)) /\ Cardinality(1 .. Len(inbox)) = Len(inbox)
    <3>1. 1 \in Int /\ Len(inbox) \in Int
      BY <1>t
    <3>2. IsFiniteSet(1 .. Len(inbox)) /\ Cardinality(1 .. Len(inbox)) =
             IF 1 > Len(inbox) THEN 0 ELSE Len(inbox) - 1 + 1
      BY Zenon, <3>1, FS_Interval
    <3> QED BY <1>t, <3>2
  <2>2. unread \subseteq 1 .. Len(inbox)
    BY Zenon, <1>t
  <2> HIDE DEF unread
  <2> QED BY Zenon, <2>1, <2>2, FS_Subset, FS_CardinalityType
<1> HIDE DEF unread
<1>8. ~miscounted'
  <2>1. /\ Len(inbox) <= session[u].total + (arrived - session[u].since)
        /\ session[u].since \in 0 .. arrived
    BY Zenon, <1>1 DEF InboxInv, Looking
  <2>2. session[u].total \in Nat
    BY Zenon, <1>t DEF SessionTypes
  <2>3. ~(Cardinality(unread) > session[u].total + (arrived - session[u].since))
    BY <1>t, <1>7, <2>1, <2>2
  <2> QED BY Zenon, <1>1, <2>3 DEF InboxInv
<1> QED BY Zenon, <1>3, <1>4, <1>5, <1>6, <1>8 DEF InboxInv

(***************************************************************************)
(* The tasks                                                               *)
(***************************************************************************)
TaskTypes ==
    /\ remote \in [RemoteTask -> {"none", "open", "closed"}]
    /\ submitted \subseteq RemoteTask /\ confirmed \subseteq submitted
    /\ \A t \in submitted : remote[t] # "none"

\* What a session knows of the task it is cancelling.
Cancelling(u) ==
    /\ session[u].at \in {"cancel", "untrack"} => session[u].ref \in submitted
    /\ session[u].at = "untrack" => remote[session[u].ref] = "closed"

TaskInv == TaskTypes /\ TasksTracked /\ \A u \in ToolUser : Cancelling(u)

\* Steps that leave the tasks alone and cancel none.
LEMMA TaskFrame ==
    ASSUME TaskInv, UNCHANGED taskVars,
           \A u \in ToolUser : session'[u] = session[u] \/ session'[u].at \notin {"cancel", "untrack"}
    PROVE  TaskInv'
<1>1. UNCHANGED <<remote, submitted, tracked, confirmed>>
  BY Zenon DEF taskVars
<1>2. TaskTypes' /\ TasksTracked'
  BY Zenon, <1>1 DEF TaskInv, TaskTypes, TasksTracked
<1>3. \A u \in ToolUser : Cancelling(u)'
  BY Zenon, <1>1 DEF TaskInv, Cancelling
<1> QED BY Zenon, <1>2, <1>3 DEF TaskInv

\* The answer to submit_task, or its loss.
LEMMA SubmitReturnsStep ==
    ASSUME SessionTypes, TaskInv, NEW u \in ToolUser, SubmitReturns(u)
    PROVE  SessionTypes' /\ TaskInv' /\ session'[u].at = "ready"
           /\ \A v \in ToolUser \ {u} : session'[v] = session[v]
<1>1. /\ Goto(u, Ready) /\ confirmed' = confirmed
      /\ \/ \E t \in RemoteTask :
               /\ remote[t] = "none" /\ remote' = [remote EXCEPT ![t] = "open"]
               /\ \/ tracked' = tracked \cup {t} /\ submitted' = submitted \cup {t}
                  \/ UNCHANGED <<tracked, submitted>>
         \/ UNCHANGED <<remote, tracked, submitted>>
  BY Zenon DEF SubmitReturns
<1>r. /\ Ready \in [at : {"ready", "mark", "count", "submit", "cancel", "untrack"},
                    ref : Nat \cup RemoteTask, total : Nat, since : Nat]
      /\ Ready.at = "ready"
  BY Zenon DEF Ready
<1>2. SessionTypes' /\ session'[u] = Ready /\ \A v \in ToolUser \ {u} : session'[v] = session[v]
  BY Zenon, <1>1, <1>r, SessionStep
<1>3. CASE UNCHANGED <<remote, tracked, submitted>>
  <2>1. UNCHANGED taskVars
    BY Zenon, <1>1, <1>3 DEF taskVars
  <2>2. \A v \in ToolUser : session'[v] = session[v] \/ session'[v].at \notin {"cancel", "untrack"}
    BY Zenon, <1>r, <1>2
  <2> QED BY Zenon, <1>2, <1>r, <2>1, <2>2, TaskFrame
<1>4. ASSUME NEW t \in RemoteTask, remote[t] = "none", remote' = [remote EXCEPT ![t] = "open"],
             \/ tracked' = tracked \cup {t} /\ submitted' = submitted \cup {t}
             \/ UNCHANGED <<tracked, submitted>>
      PROVE  TaskInv'
  <2>1. t \notin submitted /\ t \notin confirmed
    BY Zenon, <1>4 DEF TaskInv, TaskTypes
  <2>2. /\ remote' \in [RemoteTask -> {"none", "open", "closed"}] /\ remote'[t] = "open"
        /\ \A q \in RemoteTask \ {t} : remote'[q] = remote[q]
    BY Zenon, <1>4 DEF TaskInv, TaskTypes
  <2>3. TaskTypes'
    BY Zenon, <1>1, <1>4, <2>1, <2>2 DEF TaskInv, TaskTypes
  <2>4. TasksTracked'
    <3>1. tracked' = submitted' \ confirmed'
      BY Zenon, <1>1, <1>4, <2>1 DEF TaskInv, TasksTracked
    <3>2. \A q \in confirmed' : remote'[q] = "closed"
      BY Zenon, <1>1, <2>1, <2>2 DEF TaskInv, TasksTracked, TaskTypes
    <3> QED BY Zenon, <3>1, <3>2 DEF TasksTracked
  <2>5. \A v \in ToolUser : Cancelling(v)'
    <3> SUFFICES ASSUME NEW v \in ToolUser PROVE Cancelling(v)'
      OBVIOUS
    <3>1. CASE v = u
      BY Zenon, <3>1, <1>2, <1>r DEF Cancelling
    <3>2. CASE v # u
      <4>1. session'[v] = session[v] /\ Cancelling(v)
        BY Zenon, <3>2, <1>2 DEF TaskInv
      <4>2. submitted \subseteq submitted' /\ submitted \subseteq RemoteTask \ {t}
        BY Zenon, <1>4, <2>1 DEF TaskInv, TaskTypes
      <4> QED BY Zenon, <4>1, <4>2, <2>2 DEF Cancelling
    <3> QED BY Zenon, <3>1, <3>2
  <2> QED BY Zenon, <2>3, <2>4, <2>5 DEF TaskInv
<1> QED BY Zenon, <1>1, <1>2, <1>3, <1>4, <1>r

\* A task is closed at the other agent.
LEMMA CloseStep ==
    ASSUME TaskInv, NEW t \in RemoteTask, remote' = [remote EXCEPT ![t] = "closed"],
           remote[t] = "open", UNCHANGED <<submitted, tracked, confirmed>>
    PROVE  TaskTypes' /\ TasksTracked' /\ remote'[t] = "closed"
           /\ \A q \in submitted : remote[q] = "closed" => remote'[q] = "closed"
<1>1. /\ remote' \in [RemoteTask -> {"none", "open", "closed"}] /\ remote'[t] = "closed"
      /\ \A q \in RemoteTask \ {t} : remote'[q] = remote[q]
  BY Zenon DEF TaskInv, TaskTypes
<1>2. TaskTypes'
  BY Zenon, <1>1 DEF TaskInv, TaskTypes
<1>3. TasksTracked'
  BY Zenon, <1>1 DEF TaskInv, TaskTypes, TasksTracked
<1> QED BY Zenon, <1>1, <1>2, <1>3 DEF TaskInv, TaskTypes

\* cancel_task for an ID the user was given.
LEMMA CancelStep ==
    ASSUME SessionTypes, TaskInv, NEW u \in ToolUser, NEW t, CancelRemote(u, t)
    PROVE  SessionTypes' /\ TaskInv' /\ session'[u].at = "cancel"
           /\ \A v \in ToolUser \ {u} : session'[v] = session[v]
<1> DEFINE s == [Ready EXCEPT !.at = "cancel", !.ref = t]
<1>1. t \in submitted /\ Goto(u, s) /\ UNCHANGED <<remote, submitted, tracked, confirmed>>
  BY Zenon DEF CancelRemote, taskVars
<1>2. s \in [at : {"cancel"}, ref : {t}, total : {0}, since : {0}] /\ t \in RemoteTask
  BY Zenon, <1>1 DEF Ready, TaskInv, TaskTypes
<1> HIDE DEF s
<1>3. /\ s \in [at : {"ready", "mark", "count", "submit", "cancel", "untrack"},
                ref : Nat \cup RemoteTask, total : Nat, since : Nat]
      /\ s.at = "cancel" /\ s.ref = t
  BY <1>2
<1>4. SessionTypes' /\ session'[u] = s /\ \A v \in ToolUser \ {u} : session'[v] = session[v]
  BY Zenon, <1>1, <1>3, SessionStep
<1>5. TaskTypes' /\ TasksTracked'
  BY Zenon, <1>1 DEF TaskInv, TaskTypes, TasksTracked
<1>6. \A v \in ToolUser : Cancelling(v)'
  BY Zenon, <1>1, <1>3, <1>4 DEF TaskInv, Cancelling
<1> QED BY Zenon, <1>3, <1>4, <1>5, <1>6 DEF TaskInv

\* The answer to cancel_task, or an error.
LEMMA CancelReturnsStep ==
    ASSUME SessionTypes, TaskInv, NEW u \in ToolUser, CancelReturns(u)
    PROVE  SessionTypes' /\ TaskInv' /\ session'[u].at \in {"ready", "untrack"}
           /\ \A v \in ToolUser \ {u} : session'[v] = session[v]
<1> DEFINE t == session[u].ref
           s == [session[u] EXCEPT !.at = "untrack"]
<1>1. /\ session[u].at = "cancel" /\ UNCHANGED <<submitted, tracked, confirmed>>
      /\ \/ /\ remote[t] = "open" /\ remote' = [remote EXCEPT ![t] = "closed"]
            /\ Goto(u, s) \/ Goto(u, Ready)
         \/ Goto(u, Ready) /\ UNCHANGED remote
  BY Zenon DEF CancelReturns
<1>2. t \in submitted /\ t \in RemoteTask
  BY Zenon, <1>1 DEF TaskInv, TaskTypes, Cancelling
<1>r. /\ Ready \in [at : {"ready", "mark", "count", "submit", "cancel", "untrack"},
                    ref : Nat \cup RemoteTask, total : Nat, since : Nat]
      /\ Ready.at = "ready"
  BY Zenon DEF Ready
<1>s. /\ s \in [at : {"ready", "mark", "count", "submit", "cancel", "untrack"},
                ref : Nat \cup RemoteTask, total : Nat, since : Nat]
      /\ s.at = "untrack" /\ s.ref = t
  <2>1. session[u] \in [at : {"ready", "mark", "count", "submit", "cancel", "untrack"},
                        ref : Nat \cup RemoteTask, total : Nat, since : Nat]
    BY Zenon DEF SessionTypes
  <2> QED BY Zenon, <2>1
<1> HIDE DEF s, t
<1>3. CASE Goto(u, Ready) /\ UNCHANGED remote
  <2>1. UNCHANGED taskVars
    BY Zenon, <1>1, <1>3 DEF taskVars
  <2>2. SessionTypes' /\ session'[u] = Ready /\ \A v \in ToolUser \ {u} : session'[v] = session[v]
    BY Zenon, <1>3, <1>r, SessionStep
  <2>3. \A v \in ToolUser : session'[v] = session[v] \/ session'[v].at \notin {"cancel", "untrack"}
    BY Zenon, <1>r, <2>2
  <2> QED BY Zenon, <1>r, <2>1, <2>2, <2>3, TaskFrame
<1>4. ASSUME remote[t] = "open", remote' = [remote EXCEPT ![t] = "closed"], NEW new, new \in {s, Ready}, Goto(u, new)
      PROVE  SessionTypes' /\ TaskInv' /\ session'[u].at \in {"ready", "untrack"}
             /\ \A v \in ToolUser \ {u} : session'[v] = session[v]
  <2>1. /\ TaskTypes' /\ TasksTracked' /\ remote'[t] = "closed"
        /\ \A q \in submitted : remote[q] = "closed" => remote'[q] = "closed"
    BY Zenon, <1>1, <1>2, <1>4, CloseStep
  <2>2. SessionTypes' /\ session'[u] = new /\ \A v \in ToolUser \ {u} : session'[v] = session[v]
    <3>1. new \in [at : {"ready", "mark", "count", "submit", "cancel", "untrack"},
                   ref : Nat \cup RemoteTask, total : Nat, since : Nat]
      BY Zenon, <1>4, <1>r, <1>s
    <3> QED BY Zenon, <1>4, <3>1, SessionStep
  <2>3. Cancelling(u)' /\ new.at \in {"ready", "untrack"}
    BY Zenon, <1>1, <1>2, <1>4, <1>r, <1>s, <2>1, <2>2 DEF Cancelling
  <2>4. \A v \in ToolUser \ {u} : Cancelling(v)'
    <3> SUFFICES ASSUME NEW v \in ToolUser, v # u PROVE Cancelling(v)'
      BY Zenon
    <3>1. session'[v] = session[v] /\ Cancelling(v) /\ submitted' = submitted
      BY Zenon, <1>1, <2>2 DEF TaskInv
    <3> QED BY Zenon, <2>1, <3>1 DEF Cancelling
  <2> QED BY Zenon, <2>1, <2>2, <2>3, <2>4 DEF TaskInv
<1> QED BY Zenon, <1>1, <1>3, <1>4

\* The task leaves the list and the cancellation is reported.
LEMMA UntrackStep ==
    ASSUME SessionTypes, TaskInv, NEW u \in ToolUser, UntrackTask(u)
    PROVE  SessionTypes' /\ TaskInv' /\ session'[u].at = "ready"
           /\ \A v \in ToolUser \ {u} : session'[v] = session[v]
<1> DEFINE t == session[u].ref
<1>1. /\ session[u].at = "untrack" /\ Goto(u, Ready) /\ UNCHANGED <<remote, submitted>>
      /\ tracked' = tracked \ {t} /\ confirmed' = confirmed \cup {t}
  BY Zenon DEF UntrackTask
<1>2. t \in submitted /\ remote[t] = "closed"
  BY Zenon, <1>1 DEF TaskInv, Cancelling
<1>r. /\ Ready \in [at : {"ready", "mark", "count", "submit", "cancel", "untrack"},
                    ref : Nat \cup RemoteTask, total : Nat, since : Nat]
      /\ Ready.at = "ready"
  BY Zenon DEF Ready
<1>3. SessionTypes' /\ session'[u] = Ready /\ \A v \in ToolUser \ {u} : session'[v] = session[v]
  BY Zenon, <1>1, <1>r, SessionStep
<1> HIDE DEF t
<1>4. TaskTypes' /\ TasksTracked'
  <2>1. TaskTypes'
    BY Zenon, <1>1, <1>2 DEF TaskInv, TaskTypes
  <2>2. tracked' = submitted' \ confirmed'
    BY Zenon, <1>1 DEF TaskInv, TasksTracked
  <2>3. \A q \in confirmed' : remote'[q] = "closed"
    BY Zenon, <1>1, <1>2 DEF TaskInv, TasksTracked
  <2> QED BY Zenon, <2>1, <2>2, <2>3 DEF TasksTracked
<1>5. \A v \in ToolUser : Cancelling(v)'
  BY Zenon, <1>1, <1>3, <1>r DEF TaskInv, Cancelling
<1> QED BY Zenon, <1>3, <1>4, <1>5, <1>r DEF TaskInv

\* The task ends by itself.
LEMMA RemoteEndsStep ==
    ASSUME TaskInv, NEW t \in RemoteTask, RemoteEnds(t)
    PROVE  TaskInv'
<1>1. /\ remote[t] = "open" /\ remote' = [remote EXCEPT ![t] = "closed"]
      /\ UNCHANGED <<submitted, tracked, confirmed>> /\ UNCHANGED session
  BY Zenon DEF RemoteEnds
<1>2. /\ TaskTypes' /\ TasksTracked'
      /\ \A q \in submitted : remote[q] = "closed" => remote'[q] = "closed"
  BY Zenon, <1>1, CloseStep
<1>3. \A v \in ToolUser : Cancelling(v)'
  BY Zenon, <1>1, <1>2 DEF TaskInv, Cancelling
<1> QED BY Zenon, <1>2, <1>3 DEF TaskInv

(***************************************************************************)
(* The gateway                                                             *)
(***************************************************************************)
\* The three sets grow together: the first message of a tenant caches its identity and
\* begins its registration under one lock.
GatewayInv ==
    /\ identCache \subseteq Tenants /\ registered = identCache /\ registering \subseteq Tenants
    /\ senders \ {NoTenant} = identCache
    /\ attempts \in [Tenants -> Nat] /\ RegisteredOnce

\* What the invariant of the gateway depends on.
LEMMA GatewayFrame ==
    ASSUME GatewayInv, UNCHANGED gatewayVars
    PROVE  GatewayInv'
BY Zenon DEF GatewayInv, gatewayVars, RegisteredOnce

\* The end of a registration.
LEMMA RegisterStep ==
    ASSUME GatewayInv, NEW t, registerSubordinate(t)
    PROVE  GatewayInv'
BY Zenon DEF GatewayInv, registerSubordinate, RegisteredOnce

\* A message is sent for a session.
LEMMA SendStep ==
    ASSUME GatewayInv, NEW u \in ToolUser, SendFor(u)
    PROVE  GatewayInv'
<1> DEFINE t == TenantOf[u]
<1>1. /\ t = NoTenant \/ t \in Tenants
      /\ NoTenant \notin Tenants
  BY Zenon DEF Tenants
<1>2. senders' = senders \cup {t}
  BY Zenon DEF SendFor
<1>3. CASE t # NoTenant /\ t \notin identCache
  <2>1. /\ identCache' = identCache \cup {t} /\ registered' = registered \cup {t}
        /\ registering' = registering \cup {t} /\ attempts' = [attempts EXCEPT ![t] = @ + 1]
    BY Zenon, <1>3 DEF SendFor, tenantIdentity, GatewayInv
  <2> HIDE DEF t
  <2>2. t \in Tenants /\ t \notin senders
    BY Zenon, <1>1, <1>3 DEF GatewayInv
  <2>3. attempts[t] = 0 /\ attempts \in [Tenants -> Nat]
    BY Zenon, <2>2 DEF GatewayInv, RegisteredOnce
  <2>4. /\ attempts' \in [Tenants -> Nat] /\ attempts'[t] = 1
        /\ \A q \in Tenants \ {t} : attempts'[q] = attempts[q]
    BY <2>1, <2>2, <2>3
  <2>5. RegisteredOnce'
    BY Zenon, <1>2, <2>4 DEF GatewayInv, RegisteredOnce
  <2>6. senders' \ {NoTenant} = identCache'
    <3>1. senders \ {NoTenant} = identCache /\ identCache' = identCache \cup {t}
      BY Zenon, <2>1 DEF GatewayInv
    <3> QED BY Zenon, <1>2, <1>3, <3>1
  <2>7. identCache' \subseteq Tenants /\ registered' = identCache' /\ registering' \subseteq Tenants
    BY Zenon, <2>1, <2>2 DEF GatewayInv
  <2> QED BY Zenon, <2>4, <2>5, <2>6, <2>7 DEF GatewayInv
<1>4. CASE ~(t # NoTenant /\ t \notin identCache)
  <2>1. UNCHANGED <<identCache, registered, registering, attempts>>
    BY Zenon, <1>4 DEF SendFor, tenantIdentity
  <2> HIDE DEF t
  <2>2. \A q \in Tenants : q \in senders' <=> q \in senders
    BY Zenon, <1>1, <1>2, <1>4 DEF GatewayInv
  <2>3. RegisteredOnce'
    BY Zenon, <2>1, <2>2 DEF GatewayInv, RegisteredOnce
  <2>4. senders' \ {NoTenant} = identCache'
    BY Zenon, <1>2, <1>4, <2>1 DEF GatewayInv
  <2> QED BY Zenon, <2>1, <2>3, <2>4 DEF GatewayInv
<1> QED BY Zenon, <1>3, <1>4

(***************************************************************************)
(* Together                                                                *)
(***************************************************************************)
ToolInv == InboxInv /\ TaskInv /\ GatewayInv /\ toolCalls \in 0 .. MaxToolCalls

\* The server starts with nothing in its inbox, no tasks and nobody registered.
LEMMA ToolStarts ==
    ASSUME ToolInit
    PROVE  ToolInv
<1> USE ToolAssumption DEF ToolInit
<1>1. SessionTypes /\ \A u \in ToolUser : session[u].at = "ready"
  BY Zenon DEF SessionTypes, Ready
<1>2. InboxTypes /\ Len(inbox) = 0 /\ DOMAIN inbox = {} /\ 1 .. 0 = {} /\ arrived = 0
  BY DEF InboxTypes
<1>3. Falling(inbox, Len(inbox), arrived) /\ Accounted
  BY Zenon, <1>2 DEF Falling, Accounted
<1>4. \A u \in ToolUser : Looking(u) /\ Cancelling(u)
  BY Zenon, <1>1 DEF Looking, Cancelling
<1>5. TaskTypes /\ TasksTracked
  BY Zenon DEF TaskTypes, TasksTracked
<1>6. GatewayInv
  BY Zenon DEF GatewayInv, RegisteredOnce
<1>7. ~miscounted /\ toolCalls \in 0 .. MaxToolCalls
  BY DEF ToolInit
<1> QED BY Zenon, <1>1, <1>2, <1>3, <1>4, <1>5, <1>6, <1>7 DEF ToolInv, InboxInv, TaskInv

\* A tool call counts.
LEMMA BeginsTool ==
    ASSUME toolCalls \in 0 .. MaxToolCalls, NEW u, BeginTool(u)
    PROVE  toolCalls' \in 0 .. MaxToolCalls
BY ToolAssumption DEF BeginTool

\* Steps of a session that leave the inbox and the tasks alone.
LEMMA SessionOnly ==
    ASSUME InboxInv, TaskInv, UNCHANGED session, UNCHANGED inboxVars, UNCHANGED taskVars
    PROVE  InboxInv' /\ TaskInv'
<1>1. SessionTypes' /\ \A u \in ToolUser : session'[u] = session[u]
  BY Zenon DEF InboxInv, SessionTypes
<1>2. InboxInv'
  BY Zenon, <1>1, InboxFrame
<1>3. TaskInv'
  BY Zenon, <1>1, TaskFrame
<1> QED BY Zenon, <1>2, <1>3

\* Steps that move one session and leave the inbox alone.
LEMMA SessionMoves ==
    ASSUME InboxInv, UNCHANGED inboxVars, SessionTypes', NEW u \in ToolUser,
           session'[u].at \in {"ready", "submit", "cancel", "untrack"},
           \A v \in ToolUser \ {u} : session'[v] = session[v]
    PROVE  InboxInv'
<1>1. \A v \in ToolUser : session'[v] = session[v] \/ session'[v].at \notin {"mark", "count"}
  BY Zenon
<1> QED BY Zenon, <1>1, InboxFrame

\* Every tool, and every message that arrives, keeps the invariant.
LEMMA ToolStep ==
    ASSUME ToolInv, ToolNext
    PROVE  ToolInv'
<1>i. InboxInv /\ TaskInv /\ GatewayInv /\ toolCalls \in 0 .. MaxToolCalls /\ SessionTypes
  BY Zenon DEF ToolInv, InboxInv
<1>1. CASE AddMessage
  <2>1. UNCHANGED taskVars /\ UNCHANGED gatewayVars /\ UNCHANGED <<session, toolCalls>>
    BY Zenon, <1>1 DEF AddMessage
  <2>2. InboxInv'
    BY Zenon, <1>1, <1>i, AddStep
  <2>3. \A v \in ToolUser : session'[v] = session[v]
    BY Zenon, <2>1
  <2>4. TaskInv'
    BY Zenon, <1>i, <2>1, <2>3, TaskFrame
  <2>5. GatewayInv'
    BY Zenon, <1>i, <2>1, GatewayFrame
  <2> QED BY Zenon, <1>i, <2>1, <2>2, <2>4, <2>5 DEF ToolInv
<1>2. ASSUME NEW n \in announcing, NotifyMessageReceived(n) PROVE ToolInv'
  <2>1. UNCHANGED taskVars /\ UNCHANGED gatewayVars /\ UNCHANGED <<session, toolCalls>>
    BY Zenon, <1>2 DEF NotifyMessageReceived
  <2>2. InboxInv'
    BY Zenon, <1>2, <1>i, NotifyStep
  <2>3. \A v \in ToolUser : session'[v] = session[v]
    BY Zenon, <2>1
  <2>4. TaskInv'
    BY Zenon, <1>i, <2>1, <2>3, TaskFrame
  <2>5. GatewayInv'
    BY Zenon, <1>i, <2>1, GatewayFrame
  <2> QED BY Zenon, <1>i, <2>1, <2>2, <2>4, <2>5 DEF ToolInv
<1>3. ASSUME NEW u \in ToolUser, NEW n \in 1 .. arrived, GetMessage(u, n) PROVE ToolInv'
  <2>1. UNCHANGED taskVars /\ UNCHANGED gatewayVars /\ BeginTool(u)
    BY Zenon, <1>3 DEF GetMessage
  <2>2. InboxInv' /\ toolCalls' \in 0 .. MaxToolCalls
    BY Zenon, <1>3, <1>i, <2>1, GetStep, BeginsTool
  <2>3. session'[u].at \in {"mark", "ready"} /\ \A v \in ToolUser \ {u} : session'[v] = session[v]
    BY Zenon, <1>3, <1>i DEF GetMessage, Goto, Ready, SessionTypes
  <2>4. \A v \in ToolUser : session'[v] = session[v] \/ session'[v].at \notin {"cancel", "untrack"}
    BY Zenon, <2>3
  <2>5. TaskInv'
    BY Zenon, <1>i, <2>1, <2>4, TaskFrame
  <2>6. GatewayInv'
    BY Zenon, <1>i, <2>1, GatewayFrame
  <2> QED BY Zenon, <2>2, <2>5, <2>6 DEF ToolInv
<1>4. ASSUME NEW u \in ToolUser, NEW n \in 1 .. arrived, EraseMessage(u, n) PROVE ToolInv'
  <2>1. UNCHANGED taskVars /\ UNCHANGED gatewayVars /\ UNCHANGED session /\ BeginTool(u)
    BY Zenon, <1>4 DEF EraseMessage
  <2>2. InboxInv' /\ toolCalls' \in 0 .. MaxToolCalls
    BY Zenon, <1>4, <1>i, <2>1, EraseStep, BeginsTool
  <2>3. \A v \in ToolUser : session'[v] = session[v]
    BY Zenon, <2>1
  <2>4. TaskInv'
    BY Zenon, <1>i, <2>1, <2>3, TaskFrame
  <2>5. GatewayInv'
    BY Zenon, <1>i, <2>1, GatewayFrame
  <2> QED BY Zenon, <2>2, <2>4, <2>5 DEF ToolInv
<1>5. ASSUME NEW u \in ToolUser, MarkRead(u) \/ CountUnread(u) PROVE ToolInv'
  <2>1. UNCHANGED taskVars /\ UNCHANGED gatewayVars /\ Goto(u, Ready) /\ UNCHANGED toolCalls
    BY Zenon, <1>5 DEF MarkRead, CountUnread
  <2>2. InboxInv'
    BY Zenon, <1>5, <1>i, MarkReadStep, UnreadStep
  <2>3. session'[u].at = "ready" /\ \A v \in ToolUser \ {u} : session'[v] = session[v]
    BY Zenon, <2>1, <1>i DEF Goto, Ready, SessionTypes
  <2>4. \A v \in ToolUser : session'[v] = session[v] \/ session'[v].at \notin {"cancel", "untrack"}
    BY Zenon, <2>3
  <2>5. TaskInv'
    BY Zenon, <1>i, <2>1, <2>4, TaskFrame
  <2>6. GatewayInv'
    BY Zenon, <1>i, <2>1, GatewayFrame
  <2> QED BY Zenon, <1>i, <2>1, <2>2, <2>5, <2>6 DEF ToolInv
<1>6. ASSUME NEW u \in ToolUser, CountTotal(u) PROVE ToolInv'
  <2>1. UNCHANGED taskVars /\ UNCHANGED gatewayVars /\ BeginTool(u)
    BY Zenon, <1>6 DEF CountTotal
  <2>2. InboxInv' /\ toolCalls' \in 0 .. MaxToolCalls
    BY Zenon, <1>6, <1>i, <2>1, CountStep, BeginsTool
  <2>3. session'[u].at = "count" /\ \A v \in ToolUser \ {u} : session'[v] = session[v]
    BY Zenon, <1>6, <1>i DEF CountTotal, Goto, SessionTypes
  <2>4. \A v \in ToolUser : session'[v] = session[v] \/ session'[v].at \notin {"cancel", "untrack"}
    BY Zenon, <2>3
  <2>5. TaskInv'
    BY Zenon, <1>i, <2>1, <2>4, TaskFrame
  <2>6. GatewayInv'
    BY Zenon, <1>i, <2>1, GatewayFrame
  <2> QED BY Zenon, <2>2, <2>5, <2>6 DEF ToolInv
<1>7. ASSUME NEW u \in ToolUser, SendMessage(u) PROVE ToolInv'
  <2>1. UNCHANGED taskVars /\ UNCHANGED inboxVars /\ UNCHANGED session /\ BeginTool(u) /\ SendFor(u)
    BY Zenon, <1>7 DEF SendMessage
  <2>2. InboxInv' /\ TaskInv'
    BY Zenon, <1>i, <2>1, SessionOnly
  <2>3. GatewayInv'
    BY Zenon, <1>i, <2>1, SendStep
  <2>4. toolCalls' \in 0 .. MaxToolCalls
    BY Zenon, <1>i, <2>1, BeginsTool
  <2> QED BY Zenon, <2>2, <2>3, <2>4 DEF ToolInv
<1>8. ASSUME NEW u \in ToolUser, SubmitTask(u) PROVE ToolInv'
  <2>1. UNCHANGED taskVars /\ UNCHANGED inboxVars /\ BeginTool(u) /\ SendFor(u)
        /\ Goto(u, [Ready EXCEPT !.at = "submit"])
    BY Zenon, <1>8 DEF SubmitTask
  <2>2. /\ SessionTypes' /\ session'[u].at = "submit"
        /\ \A v \in ToolUser \ {u} : session'[v] = session[v]
    BY Zenon, <2>1, <1>i DEF Goto, Ready, SessionTypes
  <2>3. InboxInv'
    BY Zenon, <1>i, <2>1, <2>2, SessionMoves
  <2>4. \A v \in ToolUser : session'[v] = session[v] \/ session'[v].at \notin {"cancel", "untrack"}
    BY Zenon, <2>2
  <2>5. TaskInv'
    BY Zenon, <1>i, <2>1, <2>4, TaskFrame
  <2>6. GatewayInv'
    BY Zenon, <1>i, <2>1, SendStep
  <2>7. toolCalls' \in 0 .. MaxToolCalls
    BY Zenon, <1>i, <2>1, BeginsTool
  <2> QED BY Zenon, <2>3, <2>5, <2>6, <2>7 DEF ToolInv
<1>9. ASSUME NEW u \in ToolUser, SubmitReturns(u) \/ CancelReturns(u) \/ UntrackTask(u) PROVE ToolInv'
  <2>1. UNCHANGED inboxVars /\ UNCHANGED gatewayVars /\ UNCHANGED toolCalls
    BY Zenon, <1>9 DEF SubmitReturns, CancelReturns, UntrackTask
  <2>2. /\ SessionTypes' /\ TaskInv' /\ session'[u].at \in {"ready", "untrack"}
        /\ \A v \in ToolUser \ {u} : session'[v] = session[v]
    BY Zenon, <1>i, <1>9, SubmitReturnsStep, CancelReturnsStep, UntrackStep
  <2>3. InboxInv'
    BY Zenon, <1>i, <2>1, <2>2, SessionMoves
  <2>4. GatewayInv'
    BY Zenon, <1>i, <2>1, GatewayFrame
  <2> QED BY Zenon, <1>i, <2>1, <2>2, <2>3, <2>4 DEF ToolInv
<1>10. ASSUME NEW u \in ToolUser, NEW t, CancelRemote(u, t) PROVE ToolInv'
  <2>1. UNCHANGED inboxVars /\ BeginTool(u) /\ SendFor(u)
    BY Zenon, <1>10 DEF CancelRemote
  <2>2. /\ SessionTypes' /\ TaskInv' /\ session'[u].at = "cancel"
        /\ \A v \in ToolUser \ {u} : session'[v] = session[v]
    BY Zenon, <1>i, <1>10, CancelStep
  <2>3. InboxInv'
    BY Zenon, <1>i, <2>1, <2>2, SessionMoves
  <2>4. GatewayInv'
    BY Zenon, <1>i, <2>1, SendStep
  <2>5. toolCalls' \in 0 .. MaxToolCalls
    BY Zenon, <1>i, <2>1, BeginsTool
  <2> QED BY Zenon, <2>2, <2>3, <2>4, <2>5 DEF ToolInv
<1>11. ASSUME NEW u \in ToolUser, NEW t, SendTaskInput(u, t) PROVE ToolInv'
  <2>1. SendMessage(u)
    BY Zenon, <1>11 DEF SendTaskInput
  <2> QED BY Zenon, <1>7, <2>1
<1>12. ASSUME NEW t, registerSubordinate(t) PROVE ToolInv'
  <2>1. UNCHANGED inboxVars /\ UNCHANGED taskVars /\ UNCHANGED session /\ UNCHANGED toolCalls
    BY Zenon, <1>12 DEF registerSubordinate
  <2>2. InboxInv' /\ TaskInv'
    BY Zenon, <1>i, <2>1, SessionOnly
  <2>3. GatewayInv'
    BY Zenon, <1>i, <1>12, RegisterStep
  <2> QED BY Zenon, <1>i, <2>1, <2>2, <2>3 DEF ToolInv
<1>13. ASSUME NEW t \in RemoteTask, RemoteEnds(t) PROVE ToolInv'
  <2>1. UNCHANGED inboxVars /\ UNCHANGED gatewayVars /\ UNCHANGED session /\ UNCHANGED toolCalls
    BY Zenon, <1>13 DEF RemoteEnds
  <2>2. TaskInv'
    BY Zenon, <1>i, <1>13, RemoteEndsStep
  <2>3. SessionTypes' /\ \A v \in ToolUser : session'[v] = session[v]
    BY Zenon, <1>i, <2>1 DEF SessionTypes
  <2>4. InboxInv'
    BY Zenon, <1>i, <2>1, <2>3, InboxFrame
  <2>5. GatewayInv'
    BY Zenon, <1>i, <2>1, GatewayFrame
  <2> QED BY Zenon, <1>i, <2>1, <2>2, <2>4, <2>5 DEF ToolInv
<1> QED BY Zenon, <1>1, <1>2, <1>3, <1>4, <1>5, <1>6, <1>7, <1>8, <1>9, <1>10, <1>11, <1>12, <1>13 DEF ToolNext

\* Tools called at the same time tell no more than is so.  The inbox stays in order, with
\* nothing in it that was deleted and nothing missing that a client was told of except by
\* deletion or age, and its counts are those of one moment or of messages that came in
\* between; the list of tasks is what was submitted and not reported as cancelled; and
\* each tenant's keys are registered once, by its first message.  pkg/mcp: Inbox, the
\* tasks of the bridge, tenantIdentity.
THEOREM ToolsAreTruthful == ToolSpec => [](ToolTypeOK /\ ToolsTruthful)
<1>1. ToolInit => ToolInv
  BY Zenon, ToolStarts
<1>2. ToolInv /\ [ToolNext]_toolVars => ToolInv'
  <2> SUFFICES ASSUME ToolInv, [ToolNext]_toolVars PROVE ToolInv'
    OBVIOUS
  <2>1. CASE UNCHANGED toolVars
    <3>1. UNCHANGED inboxVars /\ UNCHANGED taskVars /\ UNCHANGED gatewayVars /\ UNCHANGED <<session, toolCalls>>
      BY Zenon, <2>1 DEF toolVars
    <3>2. InboxInv' /\ TaskInv' /\ GatewayInv'
      BY Zenon, <3>1, SessionOnly, GatewayFrame DEF ToolInv
    <3> QED BY Zenon, <3>1, <3>2 DEF ToolInv
  <2> QED BY Zenon, <2>1, ToolStep
<1>3. ToolInv => ToolTypeOK
  <2> SUFFICES ASSUME ToolInv PROVE ToolTypeOK
    OBVIOUS
  <2>1. \A u \in ToolUser : session[u].at \in {"ready", "mark", "count", "submit", "cancel", "untrack"}
    BY Zenon DEF ToolInv, InboxInv, SessionTypes
  <2>2. \A set \in {marked, announcing, announced, erased} : set \subseteq 1 .. arrived
    BY Zenon DEF ToolInv, InboxInv, InboxTypes
  <2>3. \A set \in {submitted, tracked, confirmed} : set \subseteq RemoteTask
    BY Zenon DEF ToolInv, TaskInv, TaskTypes, TasksTracked
  <2>4. \A set \in {identCache, registered, registering} : set \subseteq Tenants
    BY Zenon DEF ToolInv, GatewayInv
  <2> QED BY Zenon, <2>1, <2>2, <2>3, <2>4 DEF ToolTypeOK, ToolInv, InboxInv, InboxTypes, TaskInv, TaskTypes
<1>4. ToolInv => ToolsTruthful
  <2> SUFFICES ASSUME ToolInv PROVE ToolsTruthful
    OBVIOUS
  <2>1. DOMAIN inbox = 1 .. Len(inbox)
    BY DEF ToolInv, InboxInv, InboxTypes
  <2>2. InboxSound
    BY Zenon, <2>1 DEF InboxSound, ToolInv, InboxInv, InboxTypes, Falling, Accounted
  <2> QED BY Zenon, <2>2 DEF ToolsTruthful, ToolInv, TaskInv, GatewayInv
<1> QED BY <1>1, <1>2, <1>3, <1>4, PTL DEF ToolSpec
=============================================================================
