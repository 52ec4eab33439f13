------------------------- MODULE OfflineQueueProofs -------------------------
(***************************************************************************)
(* Proofs about the in-memory offline queue, for every configuration and   *)
(* every number of recipients, message IDs and entries.                    *)
(***************************************************************************)
EXTENDS OfflineQueue, FiniteSetTheorems, TLAPS

\* The inductive invariant.  The limits are enforced against totalCount and
\* against the length of a recipient's queue, so they need CountIsExact, and
\* that one needs the held set to be finite and a stored message to be new
\* to it, which InOnePlace gives.
IInv ==
    /\ TypeOK
    /\ IsFiniteSet(queued)
    /\ CountIsExact
    /\ WithinLimits
    /\ AttemptsSplit
    /\ InOnePlace

\* A subset of what a recipient holds is finite and no larger.
LEMMA SubQueue ==
    ASSUME NEW S, IsFiniteSet(S), NEW T, T \subseteq S
    PROVE  /\ IsFiniteSet(T)
           /\ Cardinality(T) \in Nat
           /\ Cardinality(S) \in Nat
           /\ Cardinality(T) <= Cardinality(S)
<1> QED BY FS_Subset, FS_CardinalityType

\* What evictOldestLocked gives up: nothing, or one message that was held.
LEMMA EvictionShape ==
    ASSUME NEW gone \in Evictions
    PROVE  \/ gone = {} /\ (MaxTotalMessages > 0 /\ totalCount >= MaxTotalMessages => queued = {})
           \/ \E o \in queued : gone = {o}
<1>1. CASE MaxTotalMessages > 0 /\ totalCount >= MaxTotalMessages
  BY <1>1 DEF Evictions, evictOldestLocked, OldestOf
<1>2. CASE ~(MaxTotalMessages > 0 /\ totalCount >= MaxTotalMessages)
  BY <1>2 DEF Evictions
<1> QED BY <1>1, <1>2

\* The tail of Enqueue keeps the counter exact and both limits.
LEMMA AppendCloneKeeps ==
    ASSUME IInv, ~closed, closed' = closed,
           NEW m \in Entry, m \notin queued, ~QueueFull(m.to), AppendClone(m)
    PROVE  /\ queued' \subseteq queued \cup {m}
           /\ totalCount' \in Int
           /\ IsFiniteSet(queued)'
           /\ CountIsExact'
           /\ WithinLimits'
<1> USE ConfigAssumption
<1>1. PICK gone \in Evictions :
          /\ queued' = (queued \ gone) \cup {m}
          /\ totalCount' = totalCount - Cardinality(gone) + 1
  BY DEF AppendClone
<1>2. /\ IsFiniteSet(queued) /\ totalCount = Cardinality(queued)
      /\ Cardinality(queued) \in Nat
  BY FS_CardinalityType DEF IInv, CountIsExact
<1>3. /\ IsFiniteSet(queued \ gone)
      /\ Cardinality(queued \ gone) = Cardinality(queued) - Cardinality(gone)
      /\ Cardinality(gone) \in {0, 1}
      /\ MaxTotalMessages > 0 /\ totalCount >= MaxTotalMessages => Cardinality(gone) = 1
  <2>1. CASE /\ gone = {}
             /\ MaxTotalMessages > 0 /\ totalCount >= MaxTotalMessages => queued = {}
    BY <2>1, <1>2, FS_EmptySet
  <2>2. CASE \E o \in queued : gone = {o}
    <3>1. PICK o \in queued : gone = {o}
      BY <2>2
    <3>2. Cardinality(gone) = 1
      BY <3>1, FS_Singleton
    <3>3. IsFiniteSet(queued \ {o}) /\ Cardinality(queued \ {o}) = Cardinality(queued) - 1
      BY <3>1, <1>2, FS_RemoveElement
    <3> QED BY <3>1, <3>2, <3>3
  <2> QED BY <2>1, <2>2, EvictionShape
<1>4. /\ IsFiniteSet(queued')
      /\ Cardinality(queued') = Cardinality(queued \ gone) + 1
  BY <1>1, <1>3, FS_AddElement
<1>5. CountIsExact' /\ totalCount' \in Int
  BY <1>1, <1>2, <1>3, <1>4 DEF CountIsExact
<1>6. ASSUME MaxQueueSize > 0, NEW d \in DID
      PROVE  Cardinality(QueueOf(d)') <= MaxQueueSize
  <2>1. /\ IsFiniteSet(QueueOf(d)) /\ Cardinality(QueueOf(d)) \in Nat
        /\ Cardinality(QueueOf(d)) <= MaxQueueSize
    BY <1>2, <1>6, SubQueue DEF QueueOf, IInv, WithinLimits
  <2>2. CASE m.to = d
    <3>1. Cardinality(QueueOf(d)) < MaxQueueSize
      BY <1>6, <2>1, <2>2 DEF QueueFull
    <3>2. m \notin QueueOf(d)
      BY DEF QueueOf
    <3>3. /\ IsFiniteSet(QueueOf(d) \cup {m})
          /\ Cardinality(QueueOf(d) \cup {m}) = Cardinality(QueueOf(d)) + 1
      BY <2>1, <3>2, FS_AddElement
    <3>4. QueueOf(d)' \subseteq QueueOf(d) \cup {m}
      BY <1>1 DEF QueueOf
    <3> QED BY <2>1, <3>1, <3>3, <3>4, SubQueue
  <2>3. CASE m.to # d
    <3>1. QueueOf(d)' \subseteq QueueOf(d)
      BY <1>1, <2>3 DEF QueueOf
    <3> QED BY <2>1, <3>1, SubQueue
  <2> QED BY <2>2, <2>3
<1>7. ASSUME MaxTotalMessages > 0
      PROVE  Cardinality(queued') <= MaxTotalMessages
  BY <1>2, <1>3, <1>4, <1>7 DEF IInv, WithinLimits
<1> QED BY <1>1, <1>4, <1>5, <1>6, <1>7 DEF WithinLimits

\* Taking a set of held messages out keeps the counter exact and the limits.
LEMMA TakeOutKeeps ==
    ASSUME IInv, ~closed, closed' = closed,
           NEW r, r \subseteq queued, TakeOut(r)
    PROVE  /\ queued' = queued \ r
           /\ totalCount' \in Int
           /\ IsFiniteSet(queued)'
           /\ CountIsExact'
           /\ WithinLimits'
<1> USE ConfigAssumption
<1>1. queued' = queued \ r /\ totalCount' = totalCount - Cardinality(r)
  BY DEF TakeOut
<1>2. /\ IsFiniteSet(queued) /\ totalCount = Cardinality(queued)
      /\ Cardinality(queued) \in Nat
      /\ IsFiniteSet(r) /\ Cardinality(r) \in Nat
  BY FS_CardinalityType, SubQueue DEF IInv, CountIsExact
<1>3. /\ IsFiniteSet(queued \ r) /\ Cardinality(queued \ r) \in Nat
      /\ Cardinality(queued \ r) = Cardinality(queued) - Cardinality(r)
  <2>1. queued \cap r = r
    BY <1>2
  <2> QED BY <1>2, <2>1, FS_Difference, FS_CardinalityType
<1>4. ASSUME MaxQueueSize > 0, NEW d \in DID
      PROVE  Cardinality(QueueOf(d)') <= MaxQueueSize
  <2>1. IsFiniteSet(QueueOf(d)) /\ Cardinality(QueueOf(d)) <= MaxQueueSize
    BY <1>2, <1>4, SubQueue DEF QueueOf, IInv, WithinLimits
  <2>2. QueueOf(d)' \subseteq QueueOf(d)
    BY <1>1 DEF QueueOf
  <2> QED BY <2>1, <2>2, SubQueue
<1>5. MaxTotalMessages > 0 => Cardinality(queued') <= MaxTotalMessages
  BY <1>1, <1>2, <1>3 DEF IInv, WithinLimits
<1> QED BY <1>1, <1>2, <1>3, <1>4, <1>5 DEF CountIsExact, WithinLimits

\* NewMemoryStore establishes the invariant.
LEMMA InitIInv == Init => IInv
<1> SUFFICES ASSUME Init PROVE IInv
  OBVIOUS
<1>1. \A d \in DID : QueueOf(d) = {}
  BY DEF Init, QueueOf
<1>2. IsFiniteSet(queued) /\ CountIsExact /\ WithinLimits
  BY <1>1, FS_EmptySet, ConfigAssumption DEF Init, CountIsExact, WithinLimits
<1>3. TypeOK
  <2>1. closed \in BOOLEAN
    BY DEF Init
  <2> QED BY <2>1 DEF Init, TypeOK
<1>4. AttemptsSplit
  BY DEF Init, AttemptsSplit
<1>5. InOnePlace
  BY DEF Init, InOnePlace
<1> QED BY <1>2, <1>3, <1>4, <1>5 DEF IInv

\* Enqueue preserves it, evictions included.
LEMMA EnqueueIInv ==
    ASSUME IInv, NEW id \in ID, NEW d \in DID, NEW at \in 0..now, Enqueue(id, d, at)
    PROVE  IInv'
<1> USE ConfigAssumption
<1>1. PICK r \in FreshRef :
          AppendClone([ref |-> r, id |-> id, to |-> d, queuedAt |-> at, attempts |-> 0])
  BY DEF Enqueue
<1> DEFINE m == [ref |-> r, id |-> id, to |-> d, queuedAt |-> at, attempts |-> 0]
<1>2. ~closed /\ ~QueueFull(m.to) /\ UNCHANGED <<dlq, closed, taken, now>>
  BY DEF Enqueue, EnqueueResult
<1>3. /\ m \in Entry
      /\ \A n \in queued \cup taken \cup dlq : n.ref # m.ref
  BY DEF FreshRef, Entry, IInv, TypeOK
<1>4. /\ queued' \subseteq queued \cup {m}
      /\ totalCount' \in Int
      /\ IsFiniteSet(queued)'
      /\ CountIsExact'
      /\ WithinLimits'
  <2> HIDE DEF m
  <2>1. m \notin queued /\ AppendClone(m)
    BY <1>1, <1>3 DEF m
  <2> QED BY <1>2, <1>3, <2>1, AppendCloneKeeps
<1>5. TypeOK'
  BY <1>2, <1>3, <1>4 DEF IInv, TypeOK
<1>6. AttemptsSplit'
  BY <1>2, <1>4 DEF IInv, AttemptsSplit
<1>7. InOnePlace'
  <2> HIDE DEF m
  <2> QED BY <1>2, <1>3, <1>4 DEF IInv, InOnePlace
<1> QED BY <1>4, <1>5, <1>6, <1>7 DEF IInv

\* Enqueueing a held message again preserves it.
LEMMA RequeueIInv ==
    ASSUME IInv, NEW m \in taken, NEW dropped \in SUBSET taken, Requeue(m, dropped)
    PROVE  IInv'
<1> USE ConfigAssumption
<1>1. /\ taken' = taken \ ({m} \cup dropped)
      /\ UNCHANGED <<dlq, closed, now>>
      /\ m \in Entry /\ m.to \in DID /\ m \notin queued
  BY DEF Requeue, IInv, TypeOK, Entry, InOnePlace
<1>2. CASE EnqueueResult(m.to) = "ok"
  <2>1. ~closed /\ ~QueueFull(m.to) /\ AppendClone(m)
    BY <1>2 DEF Requeue, EnqueueResult
  <2>2. /\ queued' \subseteq queued \cup {m}
        /\ totalCount' \in Int
        /\ IsFiniteSet(queued)'
        /\ CountIsExact'
        /\ WithinLimits'
    BY <1>1, <2>1, AppendCloneKeeps
  <2>3. TypeOK'
    BY <1>1, <2>2 DEF IInv, TypeOK
  <2>4. AttemptsSplit'
    BY <1>1, <2>2 DEF IInv, AttemptsSplit
  <2>5. InOnePlace'
    BY <1>1, <2>2 DEF IInv, InOnePlace
  <2> QED BY <2>2, <2>3, <2>4, <2>5 DEF IInv
<1>3. CASE EnqueueResult(m.to) # "ok"
  <2>1. UNCHANGED <<queued, totalCount>>
    BY <1>3 DEF Requeue
  <2>2. CountIsExact' /\ WithinLimits' /\ IsFiniteSet(queued)'
    BY <1>1, <2>1 DEF IInv, CountIsExact, WithinLimits, QueueOf
  <2> QED
    BY <1>1, <2>1, <2>2 DEF IInv, TypeOK, AttemptsSplit, InOnePlace
<1> QED BY <1>2, <1>3

\* Dequeue preserves it: what leaves the queue is held by the caller.
LEMMA DequeueIInv ==
    ASSUME IInv, NEW d \in DID, Dequeue(d)
    PROVE  IInv'
<1>1. PICK r \in DequeueResults(d) : TakeOut(r) /\ taken' = taken \cup r
  BY DEF Dequeue
<1>2. r \subseteq queued
  BY DEF DequeueResults, QueueOf
<1>3. ~closed /\ UNCHANGED <<dlq, closed, now>>
  BY DEF Dequeue
<1>4. /\ queued' = queued \ r
      /\ totalCount' \in Int
      /\ IsFiniteSet(queued)'
      /\ CountIsExact'
      /\ WithinLimits'
  BY <1>1, <1>2, <1>3, TakeOutKeeps
<1>5. TypeOK' /\ AttemptsSplit' /\ InOnePlace'
  BY <1>1, <1>2, <1>3, <1>4 DEF IInv, TypeOK, AttemptsSplit, InOnePlace
<1> QED BY <1>4, <1>5 DEF IInv

\* Ack preserves it.
LEMMA AckIInv ==
    ASSUME IInv, NEW id \in ID, Ack(id)
    PROVE  IInv'
<1>1. PICK m \in queued : queued' = queued \ {m} /\ totalCount' = totalCount - 1
  BY DEF Ack
<1>2. ~closed /\ UNCHANGED <<dlq, closed, taken, now>>
  BY DEF Ack
<1>3. TakeOut({m})
  BY <1>1, FS_Singleton DEF TakeOut
<1>4. /\ totalCount' \in Int
      /\ IsFiniteSet(queued)'
      /\ CountIsExact'
      /\ WithinLimits'
  BY <1>2, <1>3, TakeOutKeeps
<1>5. TypeOK' /\ AttemptsSplit' /\ InOnePlace'
  BY <1>1, <1>2, <1>4 DEF IInv, TypeOK, AttemptsSplit, InOnePlace
<1> QED BY <1>4, <1>5 DEF IInv

\* Cleanup of expired messages preserves it.
LEMMA CleanupIInv ==
    ASSUME IInv, Cleanup
    PROVE  IInv'
<1> DEFINE expired == {m \in queued : IsExpired(m)}
<1>1. TakeOut(expired) /\ ~closed /\ UNCHANGED <<dlq, closed, taken, now>>
  BY DEF Cleanup, TakeOut
<1>2. /\ queued' = queued \ expired
      /\ totalCount' \in Int
      /\ IsFiniteSet(queued)'
      /\ CountIsExact'
      /\ WithinLimits'
  <2>1. expired \subseteq queued
    OBVIOUS
  <2> HIDE DEF expired
  <2> QED BY <1>1, <2>1, TakeOutKeeps
<1>3. TypeOK' /\ AttemptsSplit' /\ InOnePlace'
  <2> HIDE DEF expired
  <2> QED BY <1>1, <1>2 DEF IInv, TypeOK, AttemptsSplit, InOnePlace
<1> QED BY <1>2, <1>3 DEF IInv

\* Close preserves it.
LEMMA CloseIInv ==
    ASSUME IInv, Close
    PROVE  IInv'
<1>1. queued' = {} /\ dlq' = {} /\ closed' = TRUE /\ UNCHANGED <<totalCount, taken, now>>
  BY DEF Close
<1>2. \A d \in DID : QueueOf(d)' = {}
  BY <1>1 DEF QueueOf
<1>3. IsFiniteSet(queued)' /\ WithinLimits' /\ CountIsExact'
  BY <1>1, <1>2, FS_EmptySet, ConfigAssumption DEF WithinLimits, CountIsExact
<1> QED
  BY <1>1, <1>3 DEF IInv, TypeOK, AttemptsSplit, InOnePlace

\* Nack preserves it, whether it re-queues or buries the message.
LEMMA NackIInv ==
    ASSUME IInv, NEW id \in ID, Nack(id)
    PROVE  IInv'
<1> USE ConfigAssumption
<1>1. PICK m \in queued :
          LET tried == [m EXCEPT !.attempts = @ + 1] IN
          IF MaxDeliveryAttempts > 0 /\ tried.attempts >= MaxDeliveryAttempts
          THEN /\ queued' = queued \ {m}
               /\ totalCount' = totalCount - 1
               /\ dlq' = IF EnableDLQ THEN dlq \cup {tried} ELSE dlq
          ELSE /\ queued' = (queued \ {m}) \cup {tried}
               /\ UNCHANGED <<dlq, totalCount>>
  BY DEF Nack
<1> DEFINE tried == [m EXCEPT !.attempts = @ + 1]
<1>2. ~closed /\ UNCHANGED <<closed, taken, now>>
  BY DEF Nack
<1>3. /\ m \in Entry /\ tried \in Entry
      /\ tried.ref = m.ref /\ tried.to = m.to /\ tried.attempts = m.attempts + 1
      /\ m.attempts \in Nat
      /\ tried # m
  BY DEF IInv, TypeOK, Entry
<1>4. tried \notin queued \cup taken \cup dlq
  BY <1>3 DEF IInv, InOnePlace
<1>5. CASE MaxDeliveryAttempts > 0 /\ tried.attempts >= MaxDeliveryAttempts
  <2>1. /\ queued' = queued \ {m} /\ totalCount' = totalCount - 1
        /\ dlq' = IF EnableDLQ THEN dlq \cup {tried} ELSE dlq
    BY <1>1, <1>5
  <2>2. TakeOut({m})
    BY <2>1, FS_Singleton DEF TakeOut
  <2>3. /\ totalCount' \in Int
        /\ IsFiniteSet(queued)'
        /\ CountIsExact'
        /\ WithinLimits'
    BY <1>2, <2>2, TakeOutKeeps
  <2>4. tried.attempts = MaxDeliveryAttempts
    BY <1>3, <1>5 DEF IInv, AttemptsSplit
  <2> HIDE DEF tried
  <2>5. TypeOK' /\ AttemptsSplit'
    BY <1>2, <1>3, <2>1, <2>3, <2>4 DEF IInv, TypeOK, AttemptsSplit
  <2>6. InOnePlace'
    BY <1>2, <1>3, <1>4, <2>1 DEF IInv, InOnePlace
  <2> QED BY <2>3, <2>5, <2>6 DEF IInv
<1>6. CASE ~(MaxDeliveryAttempts > 0 /\ tried.attempts >= MaxDeliveryAttempts)
  <2>1. queued' = (queued \ {m}) \cup {tried} /\ UNCHANGED <<dlq, totalCount>>
    BY <1>1, <1>6
  <2>2. MaxDeliveryAttempts > 0 => tried.attempts < MaxDeliveryAttempts
    BY <1>3, <1>6
  <2> HIDE DEF tried
  <2>3. TypeOK' /\ AttemptsSplit'
    BY <1>2, <1>3, <2>1, <2>2 DEF IInv, TypeOK, AttemptsSplit
  <2>4. InOnePlace'
    BY <1>2, <1>3, <1>4, <2>1 DEF IInv, InOnePlace
  <2>5. /\ IsFiniteSet(queued)'
        /\ Cardinality(queued') = Cardinality(queued)
        /\ \A d \in DID : Cardinality(QueueOf(d)') = Cardinality(QueueOf(d))
    <3>1. ASSUME NEW S, IsFiniteSet(S), m \in S, tried \notin S
          PROVE  /\ IsFiniteSet((S \ {m}) \cup {tried})
                 /\ Cardinality((S \ {m}) \cup {tried}) = Cardinality(S)
      <4>1. /\ IsFiniteSet(S \ {m}) /\ Cardinality(S \ {m}) = Cardinality(S) - 1
            /\ Cardinality(S) \in Nat
        BY <3>1, FS_RemoveElement, FS_CardinalityType
      <4>2. /\ IsFiniteSet((S \ {m}) \cup {tried})
            /\ Cardinality((S \ {m}) \cup {tried}) = Cardinality(S \ {m}) + 1
        BY <3>1, <4>1, FS_AddElement
      <4> QED BY <4>1, <4>2
    <3>2. ASSUME NEW d \in DID, m.to = d
          PROVE  QueueOf(d)' = (QueueOf(d) \ {m}) \cup {tried} /\ m \in QueueOf(d)
      BY <1>3, <2>1, <3>2 DEF QueueOf
    <3>3. ASSUME NEW d \in DID, m.to # d
          PROVE  QueueOf(d)' = QueueOf(d)
      BY <1>3, <2>1, <3>3 DEF QueueOf
    <3>4. ASSUME NEW d \in DID
          PROVE  IsFiniteSet(QueueOf(d)) /\ tried \notin QueueOf(d)
      BY <1>4, SubQueue DEF QueueOf, IInv
    <3>5. \A d \in DID : Cardinality(QueueOf(d)') = Cardinality(QueueOf(d))
      BY <3>1, <3>2, <3>3, <3>4
    <3> QED BY <1>4, <2>1, <3>1, <3>5 DEF IInv
  <2>6. CountIsExact' /\ WithinLimits'
    BY <1>2, <2>1, <2>5 DEF IInv, CountIsExact, WithinLimits
  <2> QED BY <2>3, <2>4, <2>5, <2>6 DEF IInv
<1> QED BY <1>5, <1>6

\* Steps of the callers and of the clock do not touch the store.
LEMMA OutsideIInv ==
    ASSUME IInv, taken' \subseteq taken, now' \in Nat,
           UNCHANGED <<queued, dlq, totalCount, closed>>
    PROVE  IInv'
<1>1. CountIsExact' /\ WithinLimits' /\ IsFiniteSet(queued)'
  BY DEF IInv, CountIsExact, WithinLimits, QueueOf
<1>2. TypeOK' /\ AttemptsSplit' /\ InOnePlace'
  BY DEF IInv, TypeOK, AttemptsSplit, InOnePlace
<1> QED BY <1>1, <1>2 DEF IInv

\* Every step preserves the invariant.
LEMMA StepIInv == IInv /\ [Next]_vars => IInv'
<1> SUFFICES ASSUME IInv, [Next]_vars PROVE IInv'
  OBVIOUS
<1> USE DEF Next
<1>1. CASE \E id \in ID, d \in DID, at \in 0..now : Enqueue(id, d, at)
  BY <1>1, EnqueueIInv
<1>2. CASE \E m \in taken : \E dropped \in SUBSET taken : Requeue(m, dropped)
  BY <1>2, RequeueIInv
<1>3. CASE \E d \in DID : Dequeue(d)
  BY <1>3, DequeueIInv
<1>4. CASE \E S \in SUBSET taken : Forget(S)
  <2>1. /\ taken' \subseteq taken /\ now' \in Nat
        /\ UNCHANGED <<queued, dlq, totalCount, closed>>
    BY <1>4 DEF Forget, IInv, TypeOK
  <2> QED BY <2>1, OutsideIInv
<1>5. CASE \E id \in ID : Ack(id)
  BY <1>5, AckIInv
<1>6. CASE \E id \in ID : Nack(id)
  BY <1>6, NackIInv
<1>7. CASE Cleanup
  BY <1>7, CleanupIInv
<1>8. CASE Close
  BY <1>8, CloseIInv
<1>9. CASE Tick
  <2>1. /\ taken' \subseteq taken /\ now' \in Nat
        /\ UNCHANGED <<queued, dlq, totalCount, closed>>
    BY <1>9 DEF Tick, IInv, TypeOK
  <2> QED BY <2>1, OutsideIInv
<1>10. CASE UNCHANGED vars
  <2>1. /\ taken' \subseteq taken /\ now' \in Nat
        /\ UNCHANGED <<queued, dlq, totalCount, closed>>
    BY <1>10 DEF vars, IInv, TypeOK
  <2> QED BY <2>1, OutsideIInv
<1> QED BY <1>1, <1>2, <1>3, <1>4, <1>5, <1>6, <1>7, <1>8, <1>9, <1>10

\* The strengthened invariant holds of every behaviour of the store.
THEOREM Invariance == Spec => []IInv
<1> QED BY InitIInv, StepIInv, PTL DEF Spec

\* MemoryStore's fields keep their types.
THEOREM TypeCorrect == Spec => []TypeOK
<1>1. IInv => TypeOK
  BY DEF IInv
<1> QED BY <1>1, Invariance, PTL

\* MemoryStore.totalCount is exact until Close, for every configuration.
THEOREM CountExact == Spec => []CountIsExact
<1>1. IInv => CountIsExact
  BY DEF IInv
<1> QED BY <1>1, Invariance, PTL

\* Enqueue enforces MaxQueueSize and MaxTotalMessages for every configuration,
\* whichever messages eviction, Nack, Cleanup and re-queueing touched before.
THEOREM LimitsHold == Spec => []WithinLimits
<1>1. IInv => WithinLimits
  BY DEF IInv
<1> QED BY <1>1, Invariance, PTL

\* No message is pending with its attempts used up, none dead before that.
THEOREM AttemptsHold == Spec => []AttemptsSplit
<1>1. IInv => AttemptsSplit
  BY DEF IInv
<1> QED BY <1>1, Invariance, PTL

\* A message is never both stored and in a caller's hands, or dead as well.
THEOREM OnePlaceHolds == Spec => []InOnePlace
<1>1. IInv => InOnePlace
  BY DEF IInv
<1> QED BY <1>1, Invariance, PTL

\* What makes room for a new message is the oldest held, and only at the global limit.
LEMMA AppendEvicts ==
    ASSUME IInv, ~closed, NEW m, AppendClone(m)
    PROVE  EvictsTheOldest
<1> USE ConfigAssumption
<1> DEFINE refs(S) == {n.ref : n \in S}
<1>1. PICK gone \in Evictions : queued' = (queued \ gone) \cup {m}
  BY DEF AppendClone
<1>2. SUFFICES ASSUME NEW o \in queued, o.ref \notin refs(queued')
               PROVE  /\ o \in OldestOf(queued)
                      /\ Cardinality(queued) = MaxTotalMessages
                      /\ refs(queued) \ refs(queued') = {o.ref}
  BY Zenon DEF EvictsTheOldest
<1>3. o \in gone
  BY <1>1, <1>2
<1>4. MaxTotalMessages > 0 /\ totalCount >= MaxTotalMessages /\ gone \in evictOldestLocked
  BY <1>3 DEF Evictions
<1>5. o \in OldestOf(queued) /\ gone = {o}
  BY <1>3, <1>4 DEF evictOldestLocked
<1>6. Cardinality(queued) = MaxTotalMessages
  <2>1. totalCount = Cardinality(queued) /\ Cardinality(queued) <= MaxTotalMessages /\ Cardinality(queued) \in Nat
    BY <1>4, FS_CardinalityType DEF IInv, CountIsExact, WithinLimits
  <2> QED BY <1>4, <2>1
<1>7. refs(queued) \ refs(queued') = {o.ref}
  BY <1>1, <1>2, <1>5
<1> QED BY <1>5, <1>6, <1>7

\* A step that brings no message into the queue evicts none.
LEMMA NoNewcomer ==
    ASSUME \A n \in queued' : \E m \in queued : m.ref = n.ref
    PROVE  EvictsTheOldest
BY DEF EvictsTheOldest

\* Whoever leaves the queue for a reader (Dequeue, which sorts) or for want of room
\* (evictOldestLocked) is the oldest, although re-queued messages are appended behind
\* younger ones.
THEOREM OldestLeavesFirst == Spec => OldestLeaves
<1>1. ASSUME IInv, [Next]_vars PROVE [TakesTheOldest /\ EvictsTheOldest]_vars
  <2>1. ASSUME taken' \subseteq taken PROVE TakesTheOldest
    BY <2>1 DEF TakesTheOldest
  <2>2. ASSUME queued' \subseteq queued PROVE EvictsTheOldest
    BY <2>2, NoNewcomer
  <2>3. ASSUME NEW id \in ID, NEW d \in DID, NEW at \in 0 .. now, Enqueue(id, d, at)
        PROVE  TakesTheOldest /\ EvictsTheOldest
    <3>1. ~closed /\ taken' \subseteq taken
      BY <2>3 DEF Enqueue, EnqueueResult
    <3>2. EvictsTheOldest
      BY Zenon, <1>1, <2>3, <3>1, AppendEvicts DEF Enqueue
    <3> QED BY <2>1, <3>1, <3>2
  <2>4. ASSUME NEW m \in taken, NEW dropped \in SUBSET taken, Requeue(m, dropped)
        PROVE  TakesTheOldest /\ EvictsTheOldest
    <3>1. taken' \subseteq taken
      BY <2>4 DEF Requeue
    <3>2. CASE EnqueueResult(m.to) = "ok"
      <4>1. ~closed /\ AppendClone(m)
        BY <2>4, <3>2 DEF Requeue, EnqueueResult
      <4> QED BY Zenon, <1>1, <2>1, <3>1, <4>1, AppendEvicts
    <3>3. CASE EnqueueResult(m.to) # "ok"
      BY <2>1, <2>2, <2>4, <3>1, <3>3 DEF Requeue
    <3> QED BY <3>2, <3>3
  <2>5. ASSUME NEW d \in DID, Dequeue(d) PROVE TakesTheOldest /\ EvictsTheOldest
    <3>1. PICK r \in DequeueResults(d) : queued' = queued \ r /\ taken' = taken \cup r
      BY <2>5 DEF Dequeue, TakeOut
    <3>2. ASSUME NEW m \in r
          PROVE  /\ m.to = d /\ ~IsExpired(m)
                 /\ \A n \in queued \ r : n.to = d /\ ~IsExpired(n) => m.queuedAt <= n.queuedAt
      BY DEF DequeueResults, QueueOf
    <3>3. TakesTheOldest
      BY <3>1, <3>2 DEF TakesTheOldest
    <3> QED BY <2>2, <3>1, <3>3
  <2>6. ASSUME NEW id \in ID, Nack(id) PROVE TakesTheOldest /\ EvictsTheOldest
    <3>1. PICK m \in queued : \/ queued' = queued \ {m}
                              \/ queued' = (queued \ {m}) \cup {[m EXCEPT !.attempts = @ + 1]}
      BY Zenon, <2>6 DEF Nack
    <3>2. [m EXCEPT !.attempts = @ + 1].ref = m.ref
      BY <1>1 DEF IInv, TypeOK, Entry
    <3>3. taken' \subseteq taken
      BY <2>6 DEF Nack
    <3>4. \A n \in queued' : \E o \in queued : o.ref = n.ref
      BY Zenon, <3>1, <3>2
    <3> QED BY <2>1, <3>3, <3>4, NoNewcomer
  <2>7. ASSUME \/ \E S \in SUBSET taken : Forget(S)
               \/ \E id \in ID : Ack(id)
               \/ Cleanup \/ Close \/ Tick
        PROVE  TakesTheOldest /\ EvictsTheOldest
    <3>1. taken' \subseteq taken /\ queued' \subseteq queued
      BY <2>7 DEF Forget, Ack, Cleanup, Close, Tick
    <3> QED BY <2>1, <2>2, <3>1
  <2> QED BY Zenon, <1>1, <2>3, <2>4, <2>5, <2>6, <2>7 DEF Next
<1> QED BY <1>1, Invariance, PTL DEF Spec, OldestLeaves
========================================
