--------------------------- MODULE RelayHubProofs ---------------------------
(***************************************************************************)
(* Proofs about the relay hub, for every number of connections, DIDs and   *)
(* messages and every configuration: its fields keep their types, a send   *)
(* on a closed channel happens only in the shutdown, every use of the      *)
(* offline queue is one the queue allows, and a message is never in two    *)
(* places, so it is delivered at most once and a failed one is gone.       *)
(***************************************************************************)
EXTENDS RelayHub, FiniteSetTheorems, TLAPS

(***************************************************************************)
(* The parts of the inductive invariant.                                   *)
(***************************************************************************)
\* The buffers of SendCh are within their size and hold messages and control frames.
Buffers(ch) ==
    /\ ch \in [Conn -> Seq(Msg \cup {Control})]
    /\ \A c \in Conn : Len(ch[c]) <= SendBuffer

HubTypes ==
    /\ pc \in [Conn -> {"off", "checked", "accepted", "idle", "request", "announce",
                        "fetch", "deliver", "deliverLast", "route", "closing",
                        "unregistered", "gone", "panicked"}]
    /\ did \in [Conn -> DID \cup {None}]
    /\ Buffers(sendCh)
    /\ chClosed \subseteq Conn
    /\ writer \in [Conn -> {"none", "run", "done"}]
    /\ byID \subseteq Conn
    /\ byDID \in [DID -> Conn \cup {None}]
    /\ route \in [Conn -> [msg : Msg \cup {None}, client : Conn \cup {None}, sender : Conn \cup {None}]]
    /\ batch \in [Conn -> SUBSET Q!Entry]
    /\ outcome \in [Msg -> {"unsent", "routing", "delivered", "queued"} \cup Failures]
    /\ received \in [Msg -> Nat]
    /\ stop \in {"no", "cancelled", "closed", "done"}

\* What a handler has in hand is told by where it is.
HandlersHold ==
    \A c \in Conn :
        /\ pc[c] \in {"announce", "fetch", "deliver", "deliverLast"} => did[c] \in DID
        /\ pc[c] = "route" <=> route[c].msg # None
        /\ batch[c] # {} => pc[c] \in {"deliver", "deliverLast"}

\* The connections between the increment and the decrement of the counter.
Open == {c \in Conn : pc[c] \notin {"off", "checked", "gone"}}

ConnectionsCounted == IsFiniteSet(Open) /\ connections = Cardinality(Open)

\* Where a message may be.
Slot(ch, c, i, m) == i \in 1..Len(ch[c]) /\ ch[c][i] = m

Routed(m) == \E c \in Conn : route[c].msg = m
Stored(m) == \E e \in queued : e.ref = m
Drained(m) == \E c \in Conn : \E e \in batch[c] : e.ref = m
Buffered(m) == \E c \in Conn : \E i \in Nat : Slot(sendCh, c, i, m)
Received(m) == received[m] # 0

\* No place has a message twice.
RoutesApart == \A c, k \in Conn : route[c].msg # None /\ route[c].msg = route[k].msg => c = k
BatchesApart == \A c, k \in Conn : c # k => batch[c] \cap batch[k] = {}
RefsAreIDs == \A e \in queued \cup Held : e.id = e.ref
SlotsApart ==
    \A c, k \in Conn : \A i, j \in Nat : \A m \in Msg :
        Slot(sendCh, c, i, m) /\ Slot(sendCh, k, j, m) => c = k /\ i = j
ReceivedOnce == \A m \in Msg : received[m] \in {0, 1}

NoCopies == RoutesApart /\ BatchesApart /\ RefsAreIDs /\ SlotsApart /\ ReceivedOnce

\* No message is in two places, and what its sender was told is so.
OnePlace ==
    \A m \in Msg :
        /\ Routed(m) => outcome[m] = "routing"
        /\ Routed(m) => ~Stored(m) /\ ~Drained(m) /\ ~Buffered(m) /\ ~Received(m)
        /\ Stored(m) => ~Drained(m) /\ ~Buffered(m) /\ ~Received(m)
        /\ Drained(m) => ~Buffered(m) /\ ~Received(m)
        /\ Buffered(m) => ~Received(m)
        /\ outcome[m] \in {"unsent"} \cup Failures =>
               ~Routed(m) /\ ~Stored(m) /\ ~Drained(m) /\ ~Buffered(m) /\ ~Received(m)

\* What the steps of the hub need to know of its queue: a message is in it once, and not
\* also in a batch.
QueueSound ==
    /\ queued \subseteq Q!Entry /\ Held \subseteq Q!Entry
    /\ totalCount \in Int /\ queueClosed \in BOOLEAN /\ now \in Nat
    /\ queued \cap Held = {}
    /\ \A e, f \in queued \cup Held : e.ref = f.ref => e = f

(***************************************************************************)
(* The buffers.                                                            *)
(***************************************************************************)
\* A non-blocking send keeps the buffers within their size; a control frame leaves the
\* messages in the buffers where they are.
LEMMA OfferControl ==
    ASSUME NEW ch, Buffers(ch), NEW c \in Conn
    PROVE  /\ Buffers(Offer(ch, c, Control))
           /\ \A k \in Conn, i \in Nat, m \in Msg :
                  Slot(Offer(ch, c, Control), k, i, m) <=> Slot(ch, k, i, m)
<1> USE HubAssumption DEF Buffers, Offer, HasRoom, Slot
<1>1. CASE Len(ch[c]) < SendBuffer
  <2>1. Offer(ch, c, Control) = [ch EXCEPT ![c] = Append(ch[c], Control)]
    BY Zenon, <1>1
  <2> QED BY <1>1, <2>1
<1>2. CASE ~(Len(ch[c]) < SendBuffer)
  BY Zenon, <1>2
<1> QED BY Zenon, <1>1, <1>2

\* A message for which there is room is put behind the others.
LEMMA OfferMessage ==
    ASSUME NEW ch, Buffers(ch), NEW c \in Conn, NEW x \in Msg, HasRoom(ch, c)
    PROVE  /\ Buffers(Offer(ch, c, x))
           /\ \A k \in Conn, i \in Nat, m \in Msg :
                  Slot(Offer(ch, c, x), k, i, m) <=>
                      Slot(ch, k, i, m) \/ (k = c /\ i = Len(ch[c]) + 1 /\ m = x)
<1> USE HubAssumption DEF Buffers, Offer, HasRoom, Slot
<1>1. Offer(ch, c, x) = [ch EXCEPT ![c] = Append(ch[c], x)]
  OBVIOUS
<1> QED BY <1>1

\* Broadcast sends control frames only.
LEMMA BroadcastControl ==
    ASSUME HubTypes, NEW c \in Conn
    PROVE  /\ Buffers(Broadcast(c))
           /\ \A k \in Conn, i \in Nat, m \in Msg :
                  Slot(Broadcast(c), k, i, m) <=> Slot(sendCh, k, i, m)
<1>1. \A k \in Conn : Broadcast(c)[k] \in {sendCh[k], Offer(sendCh, k, Control)[k]}
  BY Zenon DEF Broadcast
<1>2. Buffers(sendCh)
  BY Zenon DEF HubTypes
<1>3. \A k \in Conn : /\ Buffers(Offer(sendCh, k, Control))
                      /\ \A i \in Nat, m \in Msg :
                             Slot(Offer(sendCh, k, Control), k, i, m) <=> Slot(sendCh, k, i, m)
  BY Zenon, <1>2, OfferControl
<1>4. Broadcast(c) = [k \in Conn |-> Broadcast(c)[k]]
  BY Zenon DEF Broadcast
<1>5. Buffers(Broadcast(c))
  <2>1. \A k \in Conn : /\ Broadcast(c)[k] \in Seq(Msg \cup {Control})
                        /\ Len(Broadcast(c)[k]) <= SendBuffer
    BY Zenon, <1>1, <1>2, <1>3 DEF Buffers
  <2> HIDE DEF Broadcast
  <2> QED BY Zenon, <1>4, <2>1 DEF Buffers
<1>6. ASSUME NEW k \in Conn, NEW i \in Nat, NEW m \in Msg
      PROVE  Slot(Broadcast(c), k, i, m) <=> Slot(sendCh, k, i, m)
  BY <1>1, <1>3 DEF Slot
<1> QED BY Zenon, <1>5, <1>6

\* The writer takes the first frame out; the others move up.
LEMMA TakeFirst ==
    ASSUME HubTypes, NEW c \in Conn, sendCh[c] # <<>>, sendCh' = [sendCh EXCEPT ![c] = Tail(@)]
    PROVE  /\ Buffers(sendCh')
           /\ \A i \in Nat, m \in Msg : Slot(sendCh', c, i, m) <=> i # 0 /\ Slot(sendCh, c, i + 1, m)
           /\ \A k \in Conn \ {c}, i \in Nat, m \in Msg : Slot(sendCh', k, i, m) <=> Slot(sendCh, k, i, m)
           /\ Slot(sendCh, c, 1, Head(sendCh[c]))
<1> USE HubAssumption DEF HubTypes, Buffers, Slot
<1>1. sendCh[c] \in Seq(Msg \cup {Control}) /\ Len(sendCh[c]) \in Nat \ {0}
  OBVIOUS
<1>2. /\ sendCh'[c] = Tail(sendCh[c])
      /\ \A k \in Conn \ {c} : sendCh'[k] = sendCh[k]
      /\ DOMAIN sendCh' = Conn
  OBVIOUS
<1>3. /\ Tail(sendCh[c]) \in Seq(Msg \cup {Control})
      /\ Len(Tail(sendCh[c])) = Len(sendCh[c]) - 1
      /\ \A i \in 1..(Len(sendCh[c]) - 1) : Tail(sendCh[c])[i] = sendCh[c][i + 1]
  BY <1>1
<1> QED BY <1>1, <1>2, <1>3

\* The end of Route: the buffers are ch but for control frames, and the handler has
\* told its result, or died because Stop had closed a channel.
LEMMA ConcludeFrame ==
    ASSUME HubTypes, NEW c \in Conn, route[c].msg \in Msg,
           NEW ch, Buffers(ch), NEW res, Conclude(c, res, ch)
    PROVE  /\ Buffers(sendCh')
           /\ \A k \in Conn, i \in Nat, m \in Msg : Slot(sendCh', k, i, m) <=> Slot(ch, k, i, m)
           /\ \/ pc' = [pc EXCEPT ![c] = "idle"] /\ outcome' = [outcome EXCEPT ![route[c].msg] = res]
              \/ pc' = [pc EXCEPT ![c] = "panicked"] /\ outcome' = outcome /\ chClosed # {}
<1> DEFINE ackTo == IF route[c].msg \in RequestAck THEN {route[c].sender} \ {None} ELSE {}
           errTo == IF res \in Failures THEN {c} ELSE {}
           acked == IF ackTo = {} THEN ch ELSE Offer(ch, route[c].sender, Control)
<1>1. ackTo # {} => route[c].sender \in Conn
  BY Zenon DEF HubTypes
<1>2. /\ Buffers(acked)
      /\ \A k \in Conn, i \in Nat, m \in Msg : Slot(acked, k, i, m) <=> Slot(ch, k, i, m)
  BY Zenon, <1>1, OfferControl
<1>3. /\ Buffers(Offer(acked, c, Control))
      /\ \A k \in Conn, i \in Nat, m \in Msg :
             Slot(Offer(acked, c, Control), k, i, m) <=> Slot(ch, k, i, m)
  <2> HIDE DEF acked
  <2> QED BY Zenon, <1>2, OfferControl
<1>4. \/ sendCh' = ch /\ pc' = [pc EXCEPT ![c] = "panicked"] /\ outcome' = outcome /\ chClosed # {}
      \/ sendCh' = acked /\ pc' = [pc EXCEPT ![c] = "panicked"] /\ outcome' = outcome /\ chClosed # {}
      \/ /\ sendCh' \in {acked, Offer(acked, c, Control)}
         /\ pc' = [pc EXCEPT ![c] = "idle"]
         /\ outcome' = [outcome EXCEPT ![route[c].msg] = res]
  BY Zenon DEF Conclude, Goto
<1> HIDE DEF acked, errTo, ackTo
<1> QED BY <1>2, <1>3, <1>4

(***************************************************************************)
(* The handlers and their counter.                                         *)
(***************************************************************************)
\* What a handler keeps without a look at the others; the hub has no dead letters, since
\* its queue is made without them.
LocalInv ==
    /\ HubTypes
    /\ HandlersHold
    /\ ConnectionsCounted
    /\ PanicOnlyInShutdown
    /\ dlq = {}

\* A handler that goes on inside a connection leaves the counter exact.
LEMMA CounterStays ==
    ASSUME ConnectionsCounted, Open' = Open, connections' = connections
    PROVE  ConnectionsCounted'
<1> QED BY Zenon DEF ConnectionsCounted

\* Steps that move only the handler, the client map or the writer.
LEMMA PlainStep ==
    ASSUME LocalInv, NEW c \in Conn,
           \/ Register(c) \/ Read(c) \/ Ignore(c) \/ ReadError(c) \/ Unregister(c) \/ WriterExit(c)
           \/ \E d \in DID : HandleRegister(c, d)
    PROVE  LocalInv'
<1> USE HubAssumption DEF LocalInv, Goto, hubVars, queueVars
<1>1. Open' = Open /\ connections' = connections
  BY DEF Register, Read, Ignore, ReadError, Unregister, WriterExit, HandleRegister, Open, HubTypes
<1>2. ConnectionsCounted'
  BY Zenon, <1>1, CounterStays
<1>3. HubTypes'
  <2>1. Buffers(sendCh)'
    BY DEF Register, Read, Ignore, ReadError, Unregister, WriterExit, HandleRegister, HubTypes, Buffers
  <2>2. byDID' \in [DID -> Conn \cup {None}]
    BY DEF Register, Read, Ignore, ReadError, Unregister, WriterExit, HandleRegister, HubTypes
  <2>3. CASE Register(c) \/ WriterExit(c)
    <3>1. byID' \subseteq Conn
      BY <2>3 DEF Register, WriterExit, HubTypes
    <3>2. writer' \in [Conn -> {"none", "run", "done"}]
      BY <2>3 DEF Register, WriterExit, HubTypes
    <3> QED BY <2>1, <2>2, <2>3, <3>1, <3>2 DEF Register, WriterExit, HubTypes
  <2>4. CASE Read(c) \/ Ignore(c) \/ ReadError(c)
    BY <2>1, <2>2, <2>4 DEF Read, Ignore, ReadError, HubTypes
  <2>5. CASE Unregister(c) \/ \E d \in DID : HandleRegister(c, d)
    BY <2>1, <2>2, <2>5 DEF Unregister, HandleRegister, HubTypes
  <2> QED BY Zenon, <2>3, <2>4, <2>5
<1>4. HandlersHold'
  BY DEF Register, Read, Ignore, ReadError, Unregister, WriterExit, HandleRegister, HubTypes, HandlersHold
<1>5. PanicOnlyInShutdown' /\ dlq' = {}
  BY DEF Register, Read, Ignore, ReadError, Unregister, WriterExit, HandleRegister, HubTypes, PanicOnlyInShutdown
<1> QED BY Zenon, <1>2, <1>3, <1>4, <1>5

\* handleMessage up to the lookup of the clients.
LEMMA SendStep ==
    ASSUME LocalInv, NEW c \in Conn, NEW m \in Msg, HandleSend(c, m)
    PROVE  LocalInv'
<1> USE HubAssumption DEF LocalInv, Goto, hubVars, queueVars, HandleSend
<1>1. Open' = Open /\ connections' = connections
  BY Zenon DEF Open, HubTypes
<1>2. ConnectionsCounted'
  BY Zenon, <1>1, CounterStays
<1> DEFINE read == [msg |-> m, client |-> byDID[To[m]], sender |-> byDID[did[c]]]
<1>3. /\ read \in [msg : Msg \cup {None}, client : Conn \cup {None}, sender : Conn \cup {None}]
      /\ read.msg = m
      /\ route' = [route EXCEPT ![c] = read]
  BY Zenon DEF HubTypes
<1> HIDE DEF read
<1>4. HubTypes'
  BY <1>3 DEF HubTypes, Buffers
<1>5. HandlersHold'
  BY <1>3 DEF HubTypes, HandlersHold
<1>6. PanicOnlyInShutdown' /\ dlq' = {}
  BY Zenon DEF HubTypes, PanicOnlyInShutdown
<1> QED BY Zenon, <1>2, <1>4, <1>5, <1>6

\* Answers and announcements.
LEMMA ReplyStep ==
    ASSUME LocalInv, NEW c \in Conn, Answer(c) \/ Announce(c)
    PROVE  /\ LocalInv'
           /\ \A k \in Conn, i \in Nat, m \in Msg : Slot(sendCh', k, i, m) <=> Slot(sendCh, k, i, m)
<1> USE DEF LocalInv, Goto, hubVars, queueVars
<1>1. Open' = Open /\ connections' = connections
  BY Zenon DEF Answer, Announce, Open, HubTypes
<1>2. ConnectionsCounted'
  BY Zenon, <1>1, CounterStays
<1>3. sendCh' \in {sendCh, Offer(sendCh, c, Control), Broadcast(c), Offer(Broadcast(c), c, Control)}
  BY Zenon DEF Answer, Announce
<1>4. /\ Buffers(sendCh')
      /\ \A k \in Conn, i \in Nat, m \in Msg : Slot(sendCh', k, i, m) <=> Slot(sendCh, k, i, m)
  <2>1. Buffers(sendCh)
    BY Zenon DEF HubTypes
  <2> QED BY <1>3, <2>1, OfferControl, BroadcastControl
<1>5. HubTypes'
  BY Zenon, <1>4 DEF Answer, Announce, HubTypes
<1>6. HandlersHold'
  BY DEF Answer, Announce, HubTypes, HandlersHold
<1>7. PanicOnlyInShutdown' /\ dlq' = {}
  BY Zenon DEF Answer, Announce, HubTypes, PanicOnlyInShutdown
<1> QED BY Zenon, <1>2, <1>4, <1>5, <1>6, <1>7

\* The writer's step.
LEMMA WriteStep ==
    ASSUME LocalInv, NEW c \in Conn, Write(c)
    PROVE  LocalInv'
<1> USE DEF LocalInv, hubVars, queueVars, Write
<1>1. Open' = Open /\ connections' = connections
  BY Zenon DEF Open
<1>2. ConnectionsCounted'
  BY Zenon, <1>1, CounterStays
<1>3. Buffers(sendCh')
  BY Zenon, TakeFirst
<1>4. received' \in [Msg -> Nat]
  <2>1. received' = received \/ \E x \in Msg : received' = [received EXCEPT ![x] = @ + 1]
    OBVIOUS
  <2> QED BY <2>1 DEF HubTypes
<1>5. HubTypes'
  BY Zenon, <1>3, <1>4 DEF HubTypes
<1>6. HandlersHold' /\ PanicOnlyInShutdown' /\ dlq' = {}
  BY Zenon DEF HandlersHold, PanicOnlyInShutdown
<1> QED BY Zenon, <1>2, <1>5, <1>6

\* Stop, the cleanup loop and the clock.
LEMMA StopStep ==
    ASSUME LocalInv, Stop \/ CleanupLoop \/ Tick
    PROVE  LocalInv'
<1> USE DEF LocalInv, connVars, hubVars, queueVars, Stop, StopCancel, StopClose, StopFinish,
            CleanupLoop, Tick, Q!Close, Q!Cleanup, Q!Tick
<1>1. Open' = Open /\ connections' = connections
  BY Zenon DEF Open
<1>2. ConnectionsCounted'
  BY Zenon, <1>1, CounterStays
<1>3. Clients \subseteq Conn
  BY DEF Clients, HubTypes, Range
<1>4. HubTypes'
  BY Zenon, <1>3 DEF HubTypes, Buffers
<1>5. HandlersHold' /\ PanicOnlyInShutdown' /\ dlq' = {}
  BY Zenon DEF HandlersHold, PanicOnlyInShutdown
<1> QED BY Zenon, <1>2, <1>4, <1>5

\* deliverQueuedMessages asks for a batch.
LEMMA FetchStep ==
    ASSUME LocalInv, queued \subseteq Q!Entry, NEW c \in Conn, FetchBatch(c)
    PROVE  LocalInv'
<1> USE DEF LocalInv, Goto, hubVars, FetchBatch
<1>1. Open' = Open /\ connections' = connections
  BY Zenon DEF Open, HubTypes
<1>2. ConnectionsCounted'
  BY Zenon, <1>1, CounterStays
<1>3. \/ batch' = batch /\ pc' = [pc EXCEPT ![c] = "idle"]
      \/ \E r \in SUBSET Q!Entry : /\ r # {} /\ batch' = [batch EXCEPT ![c] = r]
                                   /\ \/ pc' = [pc EXCEPT ![c] = "deliver"]
                                      \/ pc' = [pc EXCEPT ![c] = "deliverLast"]
  <2>1. \A r \in Q!DequeueResults(did[c]) : r \subseteq Q!Entry
    BY Zenon DEF Q!DequeueResults, Q!QueueOf
  <2> QED BY Zenon, <2>1
<1>4. HubTypes'
  <2>1. batch' \in [Conn -> SUBSET Q!Entry]
    BY <1>3 DEF HubTypes
  <2> QED BY Zenon, <1>3, <2>1 DEF HubTypes, Buffers
<1>5. HandlersHold'
  BY <1>3 DEF HubTypes, HandlersHold
<1>6. PanicOnlyInShutdown' /\ dlq' = {}
  BY <1>3 DEF HubTypes, PanicOnlyInShutdown
<1> QED BY Zenon, <1>2, <1>4, <1>5, <1>6

\* deliverQueuedMessages hands one message on.
LEMMA DeliverStep ==
    ASSUME LocalInv, NEW c \in Conn, NEW e \in batch[c], e.id \in Msg, DeliverQueued(c, e)
    PROVE  LocalInv'
<1> USE DEF LocalInv, Goto, hubVars, DeliverQueued
<1>1. sendCh' = sendCh \/ (HasRoom(sendCh, c) /\ sendCh' = Offer(sendCh, c, e.id))
  OBVIOUS
<1>2. Open' = Open /\ connections' = connections
  BY Zenon, <1>1 DEF Open, HubTypes
<1>3. ConnectionsCounted'
  BY Zenon, <1>2, CounterStays
<1>4. Buffers(sendCh')
  BY <1>1, OfferMessage DEF HubTypes
<1>5. HubTypes'
  BY <1>1, <1>4 DEF HubTypes
<1>6. HandlersHold'
  BY <1>1 DEF HubTypes, HandlersHold
<1>7. PanicOnlyInShutdown' /\ dlq' = {}
  BY Zenon, <1>1 DEF HubTypes, PanicOnlyInShutdown
<1> QED BY Zenon, <1>3, <1>5, <1>6, <1>7

\* What the end of Route does with its message x: it is lost, queued or buffered.
Loses(x) ==
    /\ \A k \in Conn, i \in Nat, m \in Msg : Slot(sendCh', k, i, m) <=> Slot(sendCh, k, i, m)
    /\ UNCHANGED <<queued, totalCount>>
    /\ outcome' = outcome \/ \E res \in Failures : outcome' = [outcome EXCEPT ![x] = res]

Queues(x) ==
    /\ \A k \in Conn, i \in Nat, m \in Msg : Slot(sendCh', k, i, m) <=> Slot(sendCh, k, i, m)
    /\ Q!EnqueueResult(To[x]) = "ok"
    /\ Q!AppendClone([ref |-> x, id |-> x, to |-> To[x], queuedAt |-> now, attempts |-> 0])
    /\ outcome' = outcome \/ outcome' = [outcome EXCEPT ![x] = "queued"]

Sends(x) ==
    /\ \E c \in Conn : \A k \in Conn, i \in Nat, m \in Msg :
           Slot(sendCh', k, i, m) <=>
               Slot(sendCh, k, i, m) \/ (k = c /\ i = Len(sendCh[c]) + 1 /\ m = x)
    /\ UNCHANGED <<queued, totalCount>>
    /\ outcome' = outcome \/ outcome' = [outcome EXCEPT ![x] = "delivered"]

\* Route ends in one of three ways, and its handler is idle again or has died.
LEMMA RouteFrame ==
    ASSUME LocalInv, NEW c \in Conn, RouteOffline(c) \/ RouteOnline(c)
    PROVE  /\ pc[c] = "route" /\ route[c].msg \in Msg
           /\ route' = [route EXCEPT ![c] = NoRoute]
           /\ UNCHANGED <<did, chClosed, writer, hubVars, batch, received, stop, dlq, queueClosed, now>>
           /\ Buffers(sendCh')
           /\ \/ pc' = [pc EXCEPT ![c] = "idle"]
              \/ pc' = [pc EXCEPT ![c] = "panicked"] /\ chClosed # {}
           /\ Loses(route[c].msg) \/ Queues(route[c].msg) \/ Sends(route[c].msg)
<1> USE HubAssumption DEF LocalInv
<1> DEFINE x == route[c].msg
           added == [ref |-> x, id |-> x, to |-> To[x], queuedAt |-> now, attempts |-> 0]
           done == \/ pc' = [pc EXCEPT ![c] = "idle"]
                   \/ pc' = [pc EXCEPT ![c] = "panicked"] /\ chClosed # {}
<1>1. /\ pc[c] = "route" /\ x \in Msg
      /\ route' = [route EXCEPT ![c] = NoRoute]
  BY Zenon DEF RouteOffline, RouteOnline, RouteDone, HandlersHold, HubTypes
<1>2. UNCHANGED <<did, chClosed, writer, hubVars, batch, received, stop, dlq, queueClosed, now>>
  BY Zenon DEF RouteOffline, RouteOnline, queueVars
<1>3. Buffers(sendCh)
  BY Zenon DEF HubTypes
<1>4. \A res, ch : Buffers(ch) /\ Conclude(c, res, ch) =>
          /\ Buffers(sendCh')
          /\ \A k \in Conn, i \in Nat, m \in Msg : Slot(sendCh', k, i, m) <=> Slot(ch, k, i, m)
          /\ outcome' = outcome \/ outcome' = [outcome EXCEPT ![x] = res]
          /\ done
  BY Zenon, <1>1, ConcludeFrame
<1>5. CASE RouteOffline(c)
  <2>1. CASE /\ Conclude(c, "recipient not found", sendCh) \/ Conclude(c, "queue failed", sendCh)
             /\ UNCHANGED <<queued, totalCount>>
    BY Zenon, <1>1, <1>2, <1>3, <1>4, <2>1 DEF Loses, Failures
  <2>2. CASE /\ Q!EnqueueResult(To[x]) = "ok"
             /\ Q!AppendClone(added)
             /\ Conclude(c, "queued", sendCh)
    BY Zenon, <1>1, <1>2, <1>3, <1>4, <2>2 DEF Queues
  <2> QED BY Zenon, <1>5, <2>1, <2>2 DEF RouteOffline
<1>6. CASE RouteOnline(c)
  <2> DEFINE k == route[c].client
  <2>0. k \in Conn /\ UNCHANGED <<queued, totalCount>>
    BY Zenon, <1>6 DEF RouteOnline, HubTypes, queueVars
  <2>1. CASE k \in chClosed /\ Goto(c, "panicked") /\ UNCHANGED <<sendCh, outcome>>
    BY Zenon, <1>1, <1>2, <1>3, <2>0, <2>1 DEF Loses, Goto
  <2>2. CASE HasRoom(sendCh, k) /\ Conclude(c, "delivered", Offer(sendCh, k, x))
    <3> HIDE DEF x, k
    <3>1. /\ Buffers(Offer(sendCh, k, x))
          /\ \A l \in Conn, i \in Nat, m \in Msg :
                 Slot(Offer(sendCh, k, x), l, i, m) <=>
                     Slot(sendCh, l, i, m) \/ (l = k /\ i = Len(sendCh[k]) + 1 /\ m = x)
      BY Zenon, <1>1, <1>3, <2>0, <2>2, OfferMessage
    <3>2. /\ Buffers(sendCh') /\ done
          /\ outcome' = outcome \/ outcome' = [outcome EXCEPT ![x] = "delivered"]
          /\ \A l \in Conn, i \in Nat, m \in Msg :
                 Slot(sendCh', l, i, m) <=> Slot(Offer(sendCh, k, x), l, i, m)
      BY Zenon, <1>4, <2>2, <3>1
    <3>3. Sends(x)
      BY Zenon, <2>0, <3>1, <3>2 DEF Sends
    <3> QED BY Zenon, <1>1, <1>2, <3>2, <3>3 DEF x
  <2>3. CASE Conclude(c, "buffer full", sendCh)
    BY Zenon, <1>1, <1>2, <1>3, <1>4, <2>0, <2>3 DEF Loses, Failures
  <2> QED BY Zenon, <1>6, <2>1, <2>2, <2>3 DEF RouteOnline
<1> QED BY Zenon, <1>5, <1>6

\* The end of Route.
LEMMA RouteStep ==
    ASSUME LocalInv, NEW c \in Conn, RouteOffline(c) \/ RouteOnline(c)
    PROVE  LocalInv'
<1>1. /\ pc[c] = "route" /\ route[c].msg \in Msg
      /\ route' = [route EXCEPT ![c] = NoRoute]
      /\ UNCHANGED <<did, chClosed, writer, hubVars, batch, received, stop, dlq, queueClosed, now>>
      /\ Buffers(sendCh')
      /\ \/ pc' = [pc EXCEPT ![c] = "idle"]
         \/ pc' = [pc EXCEPT ![c] = "panicked"] /\ chClosed # {}
      /\ Loses(route[c].msg) \/ Queues(route[c].msg) \/ Sends(route[c].msg)
  BY Zenon, RouteFrame
<1> USE HubAssumption DEF LocalInv, hubVars
<1>2. Open' = Open /\ connections' = connections
  BY Zenon, <1>1 DEF Open, HubTypes
<1>3. ConnectionsCounted'
  BY Zenon, <1>2, CounterStays
<1>4. HubTypes'
  <2>1. outcome' \in [Msg -> {"unsent", "routing", "delivered", "queued"} \cup Failures]
    <3>1. outcome \in [Msg -> {"unsent", "routing", "delivered", "queued"} \cup Failures]
      BY Zenon DEF HubTypes
    <3>2. \/ outcome' = outcome
          \/ \E res \in {"queued", "delivered"} \cup Failures : outcome' = [outcome EXCEPT ![route[c].msg] = res]
      BY Zenon, <1>1 DEF Loses, Queues, Sends
    <3> QED BY Zenon, <3>1, <3>2
  <2>2. route' \in [Conn -> [msg : Msg \cup {None}, client : Conn \cup {None}, sender : Conn \cup {None}]]
    BY Zenon, <1>1 DEF HubTypes, NoRoute
  <2> QED BY <1>1, <2>1, <2>2 DEF HubTypes
<1>5. HandlersHold'
  BY <1>1 DEF HubTypes, HandlersHold, NoRoute
<1>6. PanicOnlyInShutdown' /\ dlq' = {}
  BY <1>1 DEF HubTypes, PanicOnlyInShutdown
<1> QED BY Zenon, <1>3, <1>4, <1>5, <1>6

(***************************************************************************)
(* The queue as the hub uses it.                                           *)
(***************************************************************************)
\* A handler lets go of entries of its batch: nobody else held them.
LEMMA LetGo ==
    ASSUME HubTypes, NoCopies, NEW c \in Conn, NEW S \in SUBSET batch[c],
           batch' = [batch EXCEPT ![c] = @ \ S]
    PROVE  Held' = Held \ S
<1>1. batch'[c] = batch[c] \ S /\ \A k \in Conn \ {c} : batch'[k] = batch[k]
  BY Zenon DEF HubTypes
<1>2. \A k \in Conn \ {c} : batch[k] \cap S = {}
  BY Zenon DEF NoCopies, BatchesApart
<1> QED BY <1>1, <1>2 DEF Held

\* A handler with nothing in hand takes a batch.
LEMMA PickUp ==
    ASSUME HubTypes, NEW c \in Conn, batch[c] = {}, NEW S, batch' = [batch EXCEPT ![c] = S]
    PROVE  Held' = Held \cup S
<1>1. batch'[c] = S /\ \A k \in Conn \ {c} : batch'[k] = batch[k]
  BY Zenon DEF HubTypes
<1> QED BY Zenon, <1>1 DEF Held

\* deliverQueuedMessages dequeues.
LEMMA FetchUse ==
    ASSUME LocalInv, NEW c \in Conn, FetchBatch(c)
    PROVE  [Q!Next]_(Q!vars)
<1>1. CASE UNCHANGED <<batch, queued, totalCount>>
  BY Zenon, <1>1 DEF FetchBatch, Q!vars, Held
<1>2. CASE /\ ~queueClosed
           /\ \E r \in Q!DequeueResults(did[c]) \ {{}} :
                 batch' = [batch EXCEPT ![c] = r] /\ Q!TakeOut(r)
  <2>1. PICK r \in Q!DequeueResults(did[c]) \ {{}} :
            batch' = [batch EXCEPT ![c] = r] /\ Q!TakeOut(r)
    BY Zenon, <1>2
  <2>2. batch[c] = {} /\ did[c] \in DID
    BY Zenon DEF FetchBatch, LocalInv, HandlersHold
  <2>3. Held' = Held \cup r
    BY Zenon, <2>1, <2>2, PickUp DEF LocalInv
  <2>4. UNCHANGED <<dlq, queueClosed, now>>
    BY Zenon DEF FetchBatch
  <2>5. Q!Dequeue(did[c])
    BY Zenon, <1>2, <2>1, <2>3, <2>4 DEF Q!Dequeue
  <2> QED BY Zenon, <2>2, <2>5 DEF Q!Next
<1> QED BY Zenon, <1>1, <1>2 DEF FetchBatch

\* deliverQueuedMessages lets go of what it has handed on, dropped or put back.
LEMMA DeliverUse ==
    ASSUME LocalInv, NoCopies, NEW c \in Conn, NEW e \in batch[c], DeliverQueued(c, e)
    PROVE  [Q!Next]_(Q!vars)
<1>1. batch[c] \subseteq Held /\ UNCHANGED <<dlq, queueClosed, now>>
  BY Zenon DEF DeliverQueued, Held
<1>2. CASE batch' = [batch EXCEPT ![c] = batch[c] \ {e}] /\ UNCHANGED <<queued, totalCount>>
  <2>1. Held' = Held \ {e}
    <3>1. {e} \in SUBSET batch[c]
      OBVIOUS
    <3> QED BY Zenon, <1>2, <3>1, LetGo DEF LocalInv
  <2>2. Q!Forget({e})
    BY Zenon, <1>1, <1>2, <2>1 DEF Q!Forget
  <2> QED BY Zenon, <1>1, <2>2 DEF Q!Next
<1>3. CASE batch' = [batch EXCEPT ![c] = {}] /\ UNCHANGED <<queued, totalCount>>
  <2>1. batch' = [batch EXCEPT ![c] = batch[c] \ batch[c]]
    BY Zenon, <1>3
  <2>2. Held' = Held \ batch[c]
    BY Zenon, <2>1, LetGo DEF LocalInv
  <2>3. Q!Forget(batch[c])
    BY Zenon, <1>1, <1>3, <2>2 DEF Q!Forget
  <2> QED BY Zenon, <1>1, <2>3 DEF Q!Next
<1>4. CASE /\ batch' = [batch EXCEPT ![c] = {}]
           /\ IF Q!EnqueueResult(e.to) = "ok"
              THEN Q!AppendClone(e) ELSE UNCHANGED <<queued, totalCount>>
  <2>1. batch' = [batch EXCEPT ![c] = batch[c] \ batch[c]]
    BY Zenon, <1>4
  <2>2. Held' = Held \ ({e} \cup batch[c])
    <3>1. Held' = Held \ batch[c]
      BY Zenon, <2>1, LetGo DEF LocalInv
    <3> QED BY Zenon, <3>1
  <2>3. Q!Requeue(e, batch[c])
    BY Zenon, <1>1, <1>4, <2>2 DEF Q!Requeue
  <2> QED BY Zenon, <1>1, <2>3 DEF Q!Next
<1> QED BY Zenon, <1>2, <1>3, <1>4 DEF DeliverQueued

\* Route enqueues a message that the queue does not know.
LEMMA RouteUse ==
    ASSUME LocalInv, QueueSound, OnePlace, NEW c \in Conn, RouteOffline(c) \/ RouteOnline(c)
    PROVE  [Q!Next]_(Q!vars)
<1> DEFINE x == route[c].msg
<1>1. /\ x \in Msg /\ Routed(x)
      /\ UNCHANGED <<batch, dlq, queueClosed, now>>
      /\ Loses(x) \/ Queues(x) \/ Sends(x)
  BY Zenon, RouteFrame DEF Routed
<1>2. Held' = Held
  BY Zenon, <1>1 DEF Held
<1>3. CASE UNCHANGED <<queued, totalCount>>
  BY Zenon, <1>1, <1>2, <1>3 DEF Q!vars
<1>4. CASE Queues(x)
  <2>1. x \in Q!FreshRef
    <3>1. ~Stored(x) /\ ~Drained(x) /\ dlq = {}
      BY Zenon, <1>1 DEF OnePlace, LocalInv
    <3> QED BY Zenon, <1>1, <3>1 DEF Q!FreshRef, Stored, Drained, Held
  <2> HIDE DEF x
  <2>2. Q!Enqueue(x, To[x], now)
    BY Zenon, <1>1, <1>2, <1>4, <2>1 DEF Q!Enqueue, Queues
  <2>3. To[x] \in DID /\ now \in 0..now
    BY <1>1, HubAssumption DEF QueueSound
  <2> QED BY Zenon, <1>1, <2>2, <2>3 DEF Q!Next
<1> QED BY Zenon, <1>1, <1>3, <1>4 DEF Loses, Sends

(***************************************************************************)
(* Where a message is.                                                     *)
(***************************************************************************)
Where(m) ==
    IF Routed(m) THEN "routing"
    ELSE IF Stored(m) THEN "queue"
    ELSE IF Drained(m) THEN "batch"
    ELSE IF Buffered(m) THEN "buffer"
    ELSE IF Received(m) THEN "recipient"
    ELSE IF outcome[m] = "unsent" THEN "sender" ELSE "lost"

\* Every message stays or moves as StoreAndForward lets it, and is in one place after.
Forwards ==
    /\ NoCopies'
    /\ OnePlace'
    /\ \A m \in Msg : Where(m)' = Where(m) \/ <<Where(m), Where(m)'>> \in SF!Moves

\* Nothing happens to the messages.
LEMMA Still ==
    ASSUME HubTypes, NoCopies, OnePlace,
           UNCHANGED <<route, batch, queued, received, outcome>>,
           \A k \in Conn, i \in Nat, m \in Msg : Slot(sendCh', k, i, m) <=> Slot(sendCh, k, i, m)
    PROVE  Forwards
<1>1. NoCopies'
  BY DEF NoCopies, RoutesApart, BatchesApart, RefsAreIDs, SlotsApart, ReceivedOnce, Held
<1>2. \A m \in Msg : /\ Routed(m)' <=> Routed(m)
                     /\ Stored(m)' <=> Stored(m)
                     /\ Drained(m)' <=> Drained(m)
                     /\ Buffered(m)' <=> Buffered(m)
                     /\ Received(m)' <=> Received(m)
  BY Zenon DEF Routed, Stored, Drained, Buffered, Received
<1>3. OnePlace' /\ \A m \in Msg : Where(m)' = Where(m)
  BY Zenon, <1>2 DEF OnePlace, Where
<1> QED BY Zenon, <1>1, <1>3 DEF Forwards

\* Messages leave the queue for good (Cleanup, Close).
LEMMA Shrinks ==
    ASSUME HubTypes, NoCopies, OnePlace, queued' \subseteq queued,
           UNCHANGED <<route, batch, received, outcome, sendCh>>
    PROVE  Forwards
<1>1. NoCopies'
  BY DEF NoCopies, RoutesApart, BatchesApart, RefsAreIDs, SlotsApart, ReceivedOnce, Held, Slot
<1>2. \A m \in Msg : /\ Routed(m)' <=> Routed(m)
                     /\ Stored(m)' => Stored(m)
                     /\ Drained(m)' <=> Drained(m)
                     /\ Buffered(m)' <=> Buffered(m)
                     /\ Received(m)' <=> Received(m)
  BY Zenon DEF Routed, Stored, Drained, Buffered, Received, Slot
<1>3. OnePlace'
  BY Zenon, <1>2 DEF OnePlace
<1>4. \A m \in Msg : Where(m)' = Where(m) \/ <<Where(m), Where(m)'>> = <<"queue", "lost">>
  BY Zenon, <1>2 DEF OnePlace, Where
<1> QED BY Zenon, <1>1, <1>3, <1>4 DEF Forwards, SF!Moves

\* A message is taken from its sender.
LEMMA Sent ==
    ASSUME LocalInv, NoCopies, OnePlace, NEW c \in Conn, NEW x \in Msg, HandleSend(c, x)
    PROVE  Forwards
<1> USE DEF LocalInv
<1>1. /\ outcome[x] = "unsent" /\ outcome' = [outcome EXCEPT ![x] = "routing"]
      /\ UNCHANGED <<batch, queued, received, sendCh>>
  BY Zenon DEF HandleSend, queueVars
<1>2. route'[c].msg = x /\ \A k \in Conn \ {c} : route'[k] = route[k]
  BY Zenon DEF HandleSend, HubTypes
<1>3. route[c].msg = None
  BY Zenon DEF HandleSend, HandlersHold
<1>4. ~Routed(x)
  BY Zenon, <1>1 DEF OnePlace
<1>5. NoCopies'
  BY <1>1, <1>2, <1>4 DEF NoCopies, RoutesApart, BatchesApart, RefsAreIDs, SlotsApart, ReceivedOnce, Held, Slot, Routed
<1>6. \A m \in Msg : /\ Routed(m)' <=> Routed(m) \/ m = x
                     /\ Stored(m)' <=> Stored(m)
                     /\ Drained(m)' <=> Drained(m)
                     /\ Buffered(m)' <=> Buffered(m)
                     /\ Received(m)' <=> Received(m)
  BY Zenon, <1>1, <1>2, <1>3, HubAssumption DEF Routed, Stored, Drained, Buffered, Received, Slot
<1>7. outcome'[x] = "routing" /\ \A m \in Msg \ {x} : outcome'[m] = outcome[m]
  BY Zenon, <1>1 DEF HubTypes
<1>8. OnePlace'
  BY Zenon, <1>1, <1>6, <1>7 DEF OnePlace, Failures
<1>9. \A m \in Msg : Where(m)' = Where(m) \/ <<Where(m), Where(m)'>> = <<"sender", "routing">>
  BY Zenon, <1>1, <1>6, <1>7 DEF OnePlace, Where
<1> QED BY Zenon, <1>5, <1>8, <1>9 DEF Forwards, SF!Moves

\* Enqueue adds the message and may remove others.
LEMMA AppendShape ==
    ASSUME NEW e, Q!AppendClone(e)
    PROVE  \E gone \in SUBSET queued : queued' = (queued \ gone) \cup {e}
BY Zenon DEF Q!AppendClone, Q!Evictions, Q!evictOldestLocked, Q!OldestOf

\* The end of Route: its message is lost, queued or buffered.
LEMMA Routes ==
    ASSUME LocalInv, NoCopies, OnePlace, NEW c \in Conn, RouteOffline(c) \/ RouteOnline(c)
    PROVE  Forwards
<1>0. HubTypes
  BY Zenon DEF LocalInv
<1> DEFINE x == route[c].msg
<1>1. /\ x \in Msg /\ Routed(x)
      /\ route' = [route EXCEPT ![c] = NoRoute]
      /\ UNCHANGED <<batch, received>>
      /\ Loses(x) \/ Queues(x) \/ Sends(x)
  BY Zenon, RouteFrame DEF Routed
<1>2. route'[c].msg = None /\ \A k \in Conn \ {c} : route'[k] = route[k] /\ route[k].msg # x
  BY Zenon, <1>0, <1>1, HubAssumption DEF HubTypes, NoRoute, NoCopies, RoutesApart
<1>3. outcome[x] = "routing" /\ ~Stored(x) /\ ~Drained(x) /\ ~Buffered(x) /\ ~Received(x)
  BY Zenon, <1>1 DEF OnePlace
<1>4. \A m \in Msg : /\ Routed(m)' <=> Routed(m) /\ m # x
                     /\ Drained(m)' <=> Drained(m)
                     /\ Received(m)' <=> Received(m)
  BY Zenon, <1>1, <1>2, HubAssumption DEF Routed, Drained, Received
<1>5. \A m \in Msg \ {x} : outcome'[m] = outcome[m]
  BY Zenon, <1>0, <1>1 DEF HubTypes, Loses, Queues, Sends
<1>6. RoutesApart' /\ BatchesApart' /\ ReceivedOnce'
  BY <1>1, <1>2 DEF NoCopies, RoutesApart, BatchesApart, ReceivedOnce
<1>7. CASE Loses(x)
  <2> HIDE DEF x
  <2>1. NoCopies'
    BY <1>1, <1>6, <1>7 DEF NoCopies, RefsAreIDs, SlotsApart, Held, Loses
  <2>2. \A m \in Msg : (Stored(m)' <=> Stored(m)) /\ (Buffered(m)' <=> Buffered(m))
    BY Zenon, <1>7 DEF Stored, Buffered, Loses
  <2>3. OnePlace'
    BY Zenon, <1>3, <1>4, <1>5, <2>2 DEF OnePlace
  <2>4. outcome'[x] # "unsent"
    BY Zenon, <1>0, <1>1, <1>3, <1>7 DEF HubTypes, Loses, Failures
  <2>5. \A m \in Msg : Where(m)' = Where(m) \/ <<Where(m), Where(m)'>> = <<"routing", "lost">>
    BY Zenon, <1>1, <1>3, <1>4, <1>5, <2>2, <2>4 DEF Where
  <2> QED BY Zenon, <2>1, <2>3, <2>5 DEF Forwards, SF!Moves
<1>8. CASE Queues(x)
  <2> HIDE DEF x
  <2> DEFINE added == [ref |-> x, id |-> x, to |-> To[x], queuedAt |-> now, attempts |-> 0]
  <2>1. added.ref = x /\ added.id = x
    OBVIOUS
  <2>2. PICK gone \in SUBSET queued : queued' = (queued \ gone) \cup {added}
    BY Zenon, <1>8, AppendShape DEF Queues
  <2> HIDE DEF added
  <2>3. NoCopies'
    BY <1>1, <1>6, <1>8, <2>1, <2>2 DEF NoCopies, RefsAreIDs, SlotsApart, Held, Queues
  <2>4. \A m \in Msg : /\ Stored(m)' => Stored(m) \/ m = x
                       /\ Buffered(m)' <=> Buffered(m)
    BY Zenon, <1>8, <2>1, <2>2 DEF Stored, Buffered, Queues
  <2>5. \A m \in Msg : m = x => Stored(m)'
    BY Zenon, <2>1, <2>2 DEF Stored
  <2>6. outcome'[x] \notin {"unsent"} \cup Failures
    BY Zenon, <1>0, <1>1, <1>3, <1>8 DEF HubTypes, Queues, Failures
  <2>7. OnePlace'
    BY Zenon, <1>3, <1>4, <1>5, <2>4, <2>6 DEF OnePlace
  <2>8. \A m \in Msg : \/ Where(m)' = Where(m)
                       \/ <<Where(m), Where(m)'>> \in {<<"routing", "queue">>, <<"queue", "lost">>}
    BY Zenon, <1>1, <1>3, <1>4, <1>5, <2>4, <2>5 DEF Where, OnePlace
  <2> QED BY Zenon, <2>3, <2>7, <2>8 DEF Forwards, SF!Moves
<1>9. CASE Sends(x)
  <2> HIDE DEF x
  <2>1. PICK b \in Conn : \A k \in Conn, i \in Nat, m \in Msg :
            Slot(sendCh', k, i, m) <=>
                Slot(sendCh, k, i, m) \/ (k = b /\ i = Len(sendCh[b]) + 1 /\ m = x)
    BY Zenon, <1>9 DEF Sends
  <2>2. Len(sendCh[b]) + 1 \in Nat
    BY <1>0 DEF HubTypes, Buffers
  <2>3. NoCopies'
    <3>1. \A k \in Conn, i \in Nat : ~Slot(sendCh, k, i, x)
      BY Zenon, <1>3 DEF Buffered
    <3>2. ASSUME NEW k \in Conn, NEW l \in Conn, NEW i \in Nat, NEW j \in Nat, NEW m \in Msg,
                 Slot(sendCh', k, i, m), Slot(sendCh', l, j, m)
          PROVE  k = l /\ i = j
      BY <2>1, <3>1, <3>2 DEF NoCopies, SlotsApart
    <3>3. SlotsApart'
      BY Zenon, <3>2 DEF SlotsApart
    <3>4. RefsAreIDs'
      BY Zenon, <1>1, <1>9 DEF NoCopies, RefsAreIDs, Held, Sends
    <3> QED BY Zenon, <1>6, <3>3, <3>4 DEF NoCopies
  <2>4. \A m \in Msg : /\ Stored(m)' <=> Stored(m)
                       /\ Buffered(m)' <=> Buffered(m) \/ m = x
    BY Zenon, <1>1, <1>9, <2>1, <2>2 DEF Stored, Buffered, Sends
  <2>5. outcome'[x] \notin {"unsent"} \cup Failures
    BY Zenon, <1>0, <1>1, <1>3, <1>9 DEF HubTypes, Sends, Failures
  <2>6. OnePlace'
    BY Zenon, <1>3, <1>4, <1>5, <2>4, <2>5 DEF OnePlace
  <2>7. \A m \in Msg : Where(m)' = Where(m) \/ <<Where(m), Where(m)'>> = <<"routing", "buffer">>
    BY Zenon, <1>1, <1>3, <1>4, <1>5, <2>4 DEF Where
  <2> QED BY Zenon, <2>3, <2>6, <2>7 DEF Forwards, SF!Moves
<1> QED BY Zenon, <1>1, <1>7, <1>8, <1>9

\* deliverQueuedMessages takes messages out of the queue.
LEMMA Fetches ==
    ASSUME LocalInv, QueueSound, NoCopies, OnePlace, NEW c \in Conn, FetchBatch(c)
    PROVE  Forwards
<1> USE DEF LocalInv
<1>1. UNCHANGED <<route, received, outcome, sendCh>>
  BY Zenon DEF FetchBatch
<1>2. CASE UNCHANGED <<batch, queued>>
  BY Zenon, <1>1, <1>2, Still DEF Slot
<1>3. CASE \E r \in SUBSET queued : batch' = [batch EXCEPT ![c] = r] /\ queued' = queued \ r
  <2>1. PICK r \in SUBSET queued : batch' = [batch EXCEPT ![c] = r] /\ queued' = queued \ r
    BY Zenon, <1>3
  <2>2. /\ batch[c] = {} /\ batch'[c] = r
        /\ \A k \in Conn \ {c} : batch'[k] = batch[k] /\ batch[k] \subseteq Held
    BY <2>1 DEF FetchBatch, HandlersHold, HubTypes, Held
  <2>3. /\ queued \cap Held = {}
        /\ \A e, f \in queued : e.ref = f.ref => e = f
    BY Zenon DEF QueueSound
  <2>4. Held' = Held \cup r
    BY Zenon, <2>1, <2>2, PickUp
  <2>5. NoCopies'
    <3>1. \A k, l \in Conn : k # l => batch'[k] \cap batch'[l] = {}
      BY Zenon, <2>2, <2>3 DEF NoCopies, BatchesApart
    <3> QED BY Zenon, <1>1, <2>1, <2>4, <3>1 DEF NoCopies, RoutesApart, BatchesApart, RefsAreIDs, SlotsApart, ReceivedOnce, Slot
  <2>6. \A m \in Msg : /\ Routed(m)' <=> Routed(m)
                       /\ Buffered(m)' <=> Buffered(m)
                       /\ Received(m)' <=> Received(m)
    BY Zenon, <1>1 DEF Routed, Buffered, Received, Slot
  <2>7. \A m \in Msg : /\ Stored(m)' <=> Stored(m) /\ \A e \in r : e.ref # m
                       /\ Drained(m)' <=> Drained(m) \/ \E e \in r : e.ref = m
                       /\ (\E e \in r : e.ref = m) => Stored(m)
    BY Zenon, <2>1, <2>2, <2>3 DEF Stored, Drained
  <2>8. OnePlace'
    BY Zenon, <1>1, <2>6, <2>7 DEF OnePlace
  <2>9. \A m \in Msg : Where(m)' = Where(m) \/ <<Where(m), Where(m)'>> = <<"queue", "batch">>
    BY Zenon, <1>1, <2>6, <2>7 DEF Where, OnePlace
  <2> QED BY Zenon, <2>5, <2>8, <2>9 DEF Forwards, SF!Moves
<1> QED BY Zenon, <1>2, <1>3 DEF FetchBatch, Q!DequeueResults, Q!QueueOf, Q!TakeOut

\* deliverQueuedMessages drops entries of its batch: expired, or with its goroutine.
LEMMA Drops ==
    ASSUME LocalInv, NoCopies, OnePlace, NEW c \in Conn, NEW S \in SUBSET batch[c],
           batch' = [batch EXCEPT ![c] = @ \ S],
           UNCHANGED <<route, received, outcome, sendCh, queued>>
    PROVE  Forwards
<1> USE DEF LocalInv
<1>1. batch'[c] = batch[c] \ S /\ \A k \in Conn \ {c} : batch'[k] = batch[k]
  BY Zenon DEF HubTypes
<1>2. Held' = Held \ S
  BY Zenon, LetGo
<1>3. NoCopies'
  <2>1. \A k, l \in Conn : k # l => batch'[k] \cap batch'[l] = {}
    BY Zenon, <1>1 DEF NoCopies, BatchesApart
  <2> QED BY <1>2, <2>1 DEF NoCopies, RoutesApart, BatchesApart, RefsAreIDs, SlotsApart, ReceivedOnce, Slot
<1>4. \A m \in Msg : /\ Routed(m)' <=> Routed(m)
                     /\ Stored(m)' <=> Stored(m)
                     /\ Drained(m)' => Drained(m)
                     /\ Buffered(m)' <=> Buffered(m)
                     /\ Received(m)' <=> Received(m)
  BY Zenon, <1>1 DEF Routed, Stored, Drained, Buffered, Received, Slot
<1>5. OnePlace'
  BY Zenon, <1>4 DEF OnePlace
<1>6. \A m \in Msg : Where(m)' = Where(m) \/ <<Where(m), Where(m)'>> = <<"batch", "lost">>
  BY Zenon, <1>4 DEF Where, OnePlace
<1> QED BY Zenon, <1>3, <1>5, <1>6 DEF Forwards, SF!Moves

\* deliverQueuedMessages hands a message over to the buffer of its client.
LEMMA HandsOver ==
    ASSUME LocalInv, QueueSound, NoCopies, OnePlace, NEW c \in Conn, NEW e \in batch[c],
           batch' = [batch EXCEPT ![c] = @ \ {e}],
           HasRoom(sendCh, c), sendCh' = Offer(sendCh, c, e.id),
           UNCHANGED <<route, received, outcome, queued>>
    PROVE  Forwards
<1> USE DEF LocalInv
<1>1. /\ batch'[c] = batch[c] \ {e} /\ \A k \in Conn \ {c} : batch'[k] = batch[k]
      /\ \A k \in Conn : batch[k] \subseteq Held
  BY Zenon DEF HubTypes, Held
<1>2. /\ e \in Held /\ e.id = e.ref /\ e.ref \in Msg
      /\ \A f \in Held : f.ref = e.ref => f = e
  BY <1>1 DEF QueueSound, NoCopies, RefsAreIDs, Q!Entry
<1>3. Held' = Held \ {e}
  <2>1. {e} \in SUBSET batch[c]
    OBVIOUS
  <2> QED BY Zenon, <2>1, LetGo
<1>4. \A k \in Conn, i \in Nat, m \in Msg :
          Slot(sendCh', k, i, m) <=>
              Slot(sendCh, k, i, m) \/ (k = c /\ i = Len(sendCh[c]) + 1 /\ m = e.ref)
  BY <1>2, OfferMessage DEF HubTypes
<1>5. Drained(e.ref)
  BY Zenon DEF Drained
<1>6. \A k \in Conn, i \in Nat : ~Slot(sendCh, k, i, e.ref)
  BY Zenon, <1>2, <1>5 DEF OnePlace, Buffered
<1>7. NoCopies'
  <2>1. \A k, l \in Conn : k # l => batch'[k] \cap batch'[l] = {}
    BY Zenon, <1>1 DEF NoCopies, BatchesApart
  <2>2. ASSUME NEW k \in Conn, NEW l \in Conn, NEW i \in Nat, NEW j \in Nat, NEW m \in Msg,
               Slot(sendCh', k, i, m), Slot(sendCh', l, j, m)
        PROVE  k = l /\ i = j
    BY <1>4, <1>6, <2>2 DEF NoCopies, SlotsApart
  <2> QED BY Zenon, <1>3, <2>1, <2>2 DEF NoCopies, RoutesApart, BatchesApart, RefsAreIDs, SlotsApart, ReceivedOnce
<1>8. \A m \in Msg : /\ Routed(m)' <=> Routed(m)
                     /\ Stored(m)' <=> Stored(m)
                     /\ Received(m)' <=> Received(m)
  BY Zenon DEF Routed, Stored, Received
<1>9. \A m \in Msg : Drained(m)' <=> Drained(m) /\ m # e.ref
  <2>1. \A k \in Conn \ {c} : e \notin batch[k]
    BY Zenon DEF NoCopies, BatchesApart
  <2> QED BY Zenon, <1>1, <1>2, <2>1 DEF Drained
<1>10. \A m \in Msg : Buffered(m)' <=> Buffered(m) \/ m = e.ref
  <2>1. Len(sendCh[c]) + 1 \in Nat
    BY DEF HubTypes, Buffers
  <2> QED BY Zenon, <1>4, <2>1 DEF Buffered
<1>11. OnePlace'
  BY Zenon, <1>2, <1>5, <1>8, <1>9, <1>10 DEF OnePlace
<1>12. \A m \in Msg : Where(m)' = Where(m) \/ <<Where(m), Where(m)'>> = <<"batch", "buffer">>
  BY Zenon, <1>2, <1>5, <1>8, <1>9, <1>10 DEF Where, OnePlace
<1> QED BY Zenon, <1>7, <1>11, <1>12 DEF Forwards, SF!Moves

\* deliverQueuedMessages puts a message back and gives up on the rest of its batch.
LEMMA PutsBack ==
    ASSUME LocalInv, QueueSound, NoCopies, OnePlace, NEW c \in Conn, NEW e \in batch[c],
           batch' = [batch EXCEPT ![c] = {}], Q!AppendClone(e),
           UNCHANGED <<route, received, outcome, sendCh>>
    PROVE  Forwards
<1> USE DEF LocalInv
<1>1. /\ batch'[c] = {} /\ \A k \in Conn \ {c} : batch'[k] = batch[k]
      /\ \A k \in Conn : batch[k] \subseteq Held
  BY Zenon DEF HubTypes, Held
<1>2. /\ e \in Held /\ e.id = e.ref /\ e.ref \in Msg
      /\ \A f \in Held : f.ref = e.ref => f = e
  BY <1>1 DEF QueueSound, NoCopies, RefsAreIDs, Q!Entry
<1>3. PICK gone \in SUBSET queued : queued' = (queued \ gone) \cup {e}
  BY Zenon, AppendShape
<1>4. NoCopies'
  <2>1. \A k, l \in Conn : k # l => batch'[k] \cap batch'[l] = {}
    BY Zenon, <1>1 DEF NoCopies, BatchesApart
  <2>2. Held' \subseteq Held
    BY Zenon, <1>1 DEF Held
  <2> QED BY <1>2, <1>3, <2>1, <2>2 DEF NoCopies, RoutesApart, BatchesApart, RefsAreIDs, SlotsApart, ReceivedOnce, Slot
<1>5. Drained(e.ref)
  BY Zenon DEF Drained
<1>6. \A m \in Msg : /\ Routed(m)' <=> Routed(m)
                     /\ Buffered(m)' <=> Buffered(m)
                     /\ Received(m)' <=> Received(m)
  BY Zenon DEF Routed, Buffered, Received, Slot
<1>7. \A m \in Msg : /\ Stored(m)' => Stored(m) \/ m = e.ref
                     /\ m = e.ref => Stored(m)'
  BY Zenon, <1>3 DEF Stored
<1>8. \A m \in Msg : Drained(m)' => Drained(m) /\ m # e.ref
  <2>1. \A k \in Conn \ {c} : e \notin batch[k]
    BY Zenon DEF NoCopies, BatchesApart
  <2> QED BY Zenon, <1>1, <1>2, <2>1 DEF Drained
<1>9. OnePlace'
  BY Zenon, <1>2, <1>5, <1>6, <1>7, <1>8 DEF OnePlace
<1>10. \A m \in Msg : \/ Where(m)' = Where(m)
                      \/ <<Where(m), Where(m)'>> \in
                             {<<"batch", "queue">>, <<"batch", "lost">>, <<"queue", "lost">>}
  BY Zenon, <1>2, <1>5, <1>6, <1>7, <1>8 DEF Where, OnePlace
<1> QED BY Zenon, <1>4, <1>9, <1>10 DEF Forwards, SF!Moves

\* The loop body of deliverQueuedMessages.
LEMMA Delivers ==
    ASSUME LocalInv, QueueSound, NoCopies, OnePlace, NEW c \in Conn, NEW e \in batch[c],
           DeliverQueued(c, e)
    PROVE  Forwards
<1>1. UNCHANGED <<route, received, outcome>>
  BY Zenon DEF DeliverQueued
<1>2. CASE batch' = [batch EXCEPT ![c] = batch[c] \ {e}] /\ UNCHANGED <<sendCh, queued>>
  <2>1. {e} \in SUBSET batch[c]
    OBVIOUS
  <2> QED BY Zenon, <1>1, <1>2, <2>1, Drops
<1>3. CASE batch' = [batch EXCEPT ![c] = {}] /\ UNCHANGED <<sendCh, queued>>
  <2>1. batch' = [batch EXCEPT ![c] = batch[c] \ batch[c]]
    BY Zenon, <1>3
  <2> QED BY Zenon, <1>1, <1>3, <2>1, Drops
<1>4. CASE /\ batch' = [batch EXCEPT ![c] = batch[c] \ {e}] /\ UNCHANGED queued
           /\ HasRoom(sendCh, c) /\ sendCh' = Offer(sendCh, c, e.id)
  BY Zenon, <1>1, <1>4, HandsOver
<1>5. CASE batch' = [batch EXCEPT ![c] = {}] /\ UNCHANGED sendCh /\ Q!AppendClone(e)
  BY Zenon, <1>1, <1>5, PutsBack
<1> QED BY Zenon, <1>2, <1>3, <1>4, <1>5 DEF DeliverQueued

\* The writer takes a frame out and writes it, or loses it.
LEMMA Writes ==
    ASSUME LocalInv, NoCopies, OnePlace, NEW c \in Conn, Write(c)
    PROVE  Forwards
<1> USE DEF LocalInv
<1> DEFINE x == Head(sendCh[c])
<1>1. UNCHANGED <<route, batch, outcome, queued>>
  BY Zenon DEF Write, queueVars
<1>2. /\ \A i \in Nat, m \in Msg : Slot(sendCh', c, i, m) <=> i # 0 /\ Slot(sendCh, c, i + 1, m)
      /\ \A k \in Conn \ {c}, i \in Nat, m \in Msg : Slot(sendCh', k, i, m) <=> Slot(sendCh, k, i, m)
      /\ Slot(sendCh, c, 1, x)
  BY Zenon, TakeFirst DEF Write
<1>3. \/ received' = received
      \/ x \in Msg /\ received' = [received EXCEPT ![x] = @ + 1]
  BY Zenon DEF Write
<1> HIDE DEF x
<1>4. x \in Msg => Buffered(x) /\ received[x] = 0
  BY Zenon, <1>2 DEF Buffered, OnePlace, Received
<1>5. \A m \in Msg : /\ Buffered(m)' => Buffered(m) /\ m # x
                     /\ Buffered(m) /\ m # x => Buffered(m)'
  <2>1. ASSUME NEW m \in Msg, Buffered(m)' PROVE Buffered(m) /\ m # x
    <3>1. PICK k \in Conn, i \in Nat : Slot(sendCh', k, i, m)
      BY Zenon, <2>1 DEF Buffered
    <3>2. CASE k = c
      <4>1. i # 0 /\ Slot(sendCh, c, i + 1, m) /\ i + 1 \in Nat /\ i + 1 # 1
        BY <1>2, <3>1, <3>2
      <4> QED BY <1>2, <4>1 DEF Buffered, NoCopies, SlotsApart
    <3>3. CASE k # c
      BY <1>2, <3>1, <3>3 DEF Buffered, NoCopies, SlotsApart
    <3> QED BY Zenon, <3>2, <3>3
  <2>2. ASSUME NEW m \in Msg, Buffered(m), m # x PROVE Buffered(m)'
    <3>1. PICK k \in Conn, i \in Nat : Slot(sendCh, k, i, m)
      BY Zenon, <2>2 DEF Buffered
    <3>2. CASE k = c
      <4>1. i \notin {0, 1}
        BY <1>2, <2>2, <3>1, <3>2 DEF Slot
      <4>2. i - 1 \in Nat /\ i - 1 # 0 /\ (i - 1) + 1 = i
        BY <4>1
      <4> QED BY Zenon, <1>2, <3>1, <3>2, <4>2 DEF Buffered
    <3>3. CASE k # c
      BY Zenon, <1>2, <3>1, <3>3 DEF Buffered
    <3> QED BY Zenon, <3>2, <3>3
  <2> QED BY Zenon, <2>1, <2>2
<1>6. \A m \in Msg : /\ m # x => received'[m] = received[m]
                     /\ m = x => received'[m] \in {0, 1}
  BY <1>3, <1>4 DEF HubTypes
<1>7. NoCopies'
  <2>1. ASSUME NEW k \in Conn, NEW l \in Conn, NEW i \in Nat, NEW j \in Nat, NEW m \in Msg,
               Slot(sendCh', k, i, m), Slot(sendCh', l, j, m)
        PROVE  k = l /\ i = j
    <3>1. CASE k = c /\ l = c
      BY <1>2, <2>1, <3>1 DEF NoCopies, SlotsApart
    <3>2. CASE k = c /\ l # c
      BY <1>2, <2>1, <3>2 DEF NoCopies, SlotsApart
    <3>3. CASE k # c /\ l = c
      BY <1>2, <2>1, <3>3 DEF NoCopies, SlotsApart
    <3>4. CASE k # c /\ l # c
      BY <1>2, <2>1, <3>4 DEF NoCopies, SlotsApart
    <3> QED BY Zenon, <3>1, <3>2, <3>3, <3>4
  <2> QED BY <1>1, <1>6, <2>1 DEF NoCopies, RoutesApart, BatchesApart, RefsAreIDs, SlotsApart, ReceivedOnce, Held
<1>8. \A m \in Msg : /\ Routed(m)' <=> Routed(m)
                     /\ Stored(m)' <=> Stored(m)
                     /\ Drained(m)' <=> Drained(m)
                     /\ Received(m)' => Received(m) \/ m = x
                     /\ m # x => (Received(m)' <=> Received(m))
  BY Zenon, <1>1, <1>6 DEF Routed, Stored, Drained, Received
<1>9. OnePlace'
  BY Zenon, <1>1, <1>4, <1>5, <1>8 DEF OnePlace
<1>10. \A m \in Msg : \/ Where(m)' = Where(m)
                      \/ <<Where(m), Where(m)'>> \in {<<"buffer", "recipient">>, <<"buffer", "lost">>}
  BY Zenon, <1>1, <1>4, <1>5, <1>8 DEF Where, OnePlace
<1> QED BY Zenon, <1>7, <1>9, <1>10 DEF Forwards, SF!Moves

(***************************************************************************)
(* The steps together.                                                     *)
(***************************************************************************)
\* The invariant of the hub, with what it needs to know of its queue.
HubInv == LocalInv /\ QueueSound /\ NoCopies /\ OnePlace

\* The steps that may count a connection.
Connects(c) == CheckLimit(c) \/ Refuse(c) \/ Accept(c) \/ CloseConn(c)

\* What every step does: the queue is used as it allows, messages move as StoreAndForward
\* lets them, and the handlers keep their invariants; the steps that count connections
\* are left to RelayHubProofs.
LEMMA StepFacts ==
    ASSUME HubInv, [Next]_vars
    PROVE  /\ [Q!Next]_(Q!vars)
           /\ Forwards
           /\ LocalInv' \/ \E c \in Conn : Connects(c)
<1> USE DEF HubInv
<1>0. LocalInv /\ HubTypes
  BY Zenon DEF LocalInv
<1>1. ASSUME NEW c \in Conn, Connects(c)
      PROVE  [Q!Next]_(Q!vars) /\ Forwards
  <2>1. UNCHANGED <<route, batch, queued, received, outcome, sendCh, dlq, totalCount, queueClosed, now>>
    BY Zenon, <1>1 DEF Connects, CheckLimit, Refuse, Accept, CloseConn, queueVars
  <2>2. Forwards
    BY Zenon, <1>0, <2>1, Still DEF Slot
  <2>3. UNCHANGED Q!vars
    BY Zenon, <2>1 DEF Q!vars, Held
  <2> QED BY Zenon, <2>2, <2>3
<1>2. ASSUME NEW c \in Conn,
             \/ Register(c) \/ Read(c) \/ Ignore(c) \/ ReadError(c) \/ Unregister(c) \/ WriterExit(c)
             \/ \E d \in DID : HandleRegister(c, d)
      PROVE  LocalInv' /\ [Q!Next]_(Q!vars) /\ Forwards
  <2>1. UNCHANGED <<route, batch, queued, received, outcome, sendCh, dlq, totalCount, queueClosed, now>>
    BY Zenon, <1>2 DEF Register, Read, Ignore, ReadError, Unregister, WriterExit, HandleRegister, queueVars
  <2>2. Forwards
    BY Zenon, <1>0, <2>1, Still DEF Slot
  <2>3. UNCHANGED Q!vars
    BY Zenon, <2>1 DEF Q!vars, Held
  <2> QED BY Zenon, <1>0, <1>2, <2>2, <2>3, PlainStep
<1>3. ASSUME NEW c \in Conn, NEW m \in Msg, HandleSend(c, m)
      PROVE  LocalInv' /\ [Q!Next]_(Q!vars) /\ Forwards
  <2>1. UNCHANGED Q!vars
    BY Zenon, <1>3 DEF HandleSend, queueVars, Q!vars, Held
  <2> QED BY Zenon, <1>0, <1>3, <2>1, SendStep, Sent
<1>4. ASSUME NEW c \in Conn, Answer(c) \/ Announce(c)
      PROVE  LocalInv' /\ [Q!Next]_(Q!vars) /\ Forwards
  <2>1. UNCHANGED <<route, batch, queued, received, outcome, dlq, totalCount, queueClosed, now>>
    BY Zenon, <1>4 DEF Answer, Announce, queueVars
  <2>2. /\ LocalInv'
        /\ \A k \in Conn, i \in Nat, m \in Msg : Slot(sendCh', k, i, m) <=> Slot(sendCh, k, i, m)
    BY Zenon, <1>0, <1>4, ReplyStep
  <2>3. UNCHANGED Q!vars
    BY Zenon, <2>1 DEF Q!vars, Held
  <2> QED BY Zenon, <1>0, <2>1, <2>2, <2>3, Still
<1>5. ASSUME NEW c \in Conn, FetchBatch(c)
      PROVE  LocalInv' /\ [Q!Next]_(Q!vars) /\ Forwards
  BY Zenon, <1>0, <1>5, FetchStep, FetchUse, Fetches DEF QueueSound
<1>6. ASSUME NEW c \in Conn, NEW e \in batch[c], DeliverQueued(c, e)
      PROVE  LocalInv' /\ [Q!Next]_(Q!vars) /\ Forwards
  <2>1. e.id \in Msg
    BY DEF LocalInv, HubTypes, Q!Entry
  <2> QED BY Zenon, <1>0, <1>6, <2>1, DeliverStep, DeliverUse, Delivers
<1>7. ASSUME NEW c \in Conn, RouteOffline(c) \/ RouteOnline(c)
      PROVE  LocalInv' /\ [Q!Next]_(Q!vars) /\ Forwards
  BY Zenon, <1>0, <1>7, RouteStep, RouteUse, Routes
<1>8. ASSUME NEW c \in Conn, Write(c)
      PROVE  LocalInv' /\ [Q!Next]_(Q!vars) /\ Forwards
  <2>1. UNCHANGED Q!vars
    BY Zenon, <1>8 DEF Write, queueVars, Q!vars, Held
  <2> QED BY Zenon, <1>0, <1>8, <2>1, WriteStep, Writes
<1>9. ASSUME Stop \/ CleanupLoop \/ Tick
      PROVE  LocalInv' /\ [Q!Next]_(Q!vars) /\ Forwards
  <2>1. UNCHANGED <<route, batch, received, outcome, sendCh>> /\ queued' \subseteq queued
    BY Zenon, <1>9 DEF Stop, StopCancel, StopClose, StopFinish, CleanupLoop, Tick, connVars, queueVars,
                Q!Close, Q!Cleanup, Q!Tick
  <2>2. UNCHANGED Q!vars \/ Q!Close \/ Q!Cleanup \/ Q!Tick
    BY Zenon, <1>9, <2>1 DEF Stop, StopCancel, StopClose, StopFinish, CleanupLoop, Tick, queueVars, Q!vars, Held
  <2> QED BY Zenon, <1>0, <1>9, <2>1, <2>2, StopStep, Shrinks DEF Q!Next
<1>10. ASSUME UNCHANGED vars
       PROVE  LocalInv' /\ [Q!Next]_(Q!vars) /\ Forwards
  <2>1. UNCHANGED Q!vars
    BY Zenon, <1>10 DEF vars, Q!vars, Held
  <2>2. Forwards
    BY Zenon, <1>0, <1>10, Still DEF vars, Slot
  <2>3. LocalInv'
    BY Zenon, <1>0, <1>10 DEF vars, LocalInv, HubTypes, Buffers, HandlersHold, ConnectionsCounted, Open,
                       PanicOnlyInShutdown
  <2> QED BY Zenon, <2>1, <2>2, <2>3
<1> QED
  BY Zenon, <1>1, <1>2, <1>3, <1>4, <1>5, <1>6, <1>7, <1>8, <1>9, <1>10
     DEF Connects, Next, Handler, Peer, Writer

\* The copies of a message that Copies counts are the places it is in, and no place has two.
LEMMA CopiesAlike ==
    ASSUME HubInv, NEW m \in Msg
    PROVE  /\ InRoute(m) # {} <=> Routed(m)
           /\ InQueue(m) # {} <=> Stored(m)
           /\ InBatch(m) # {} <=> Drained(m)
           /\ InBuffer(m) # {} <=> Buffered(m)
           /\ \A x, y \in InRoute(m) : x = y
           /\ \A x, y \in InQueue(m) : x = y
           /\ \A x, y \in InBatch(m) : x = y
           /\ \A x, y \in InBuffer(m) : x = y
           /\ received[m] = IF Received(m) THEN 1 ELSE 0
<1> USE HubAssumption DEF HubInv
<1>1. /\ InRoute(m) # {} <=> Routed(m)
      /\ \A x, y \in InRoute(m) : x = y
  BY Zenon DEF InRoute, Routed, NoCopies, RoutesApart
<1>2. /\ InQueue(m) # {} <=> Stored(m)
      /\ \A x, y \in InQueue(m) : x = y
  BY Zenon DEF QueueSound, InQueue, Stored
<1>3. /\ InBatch(m) # {} <=> Drained(m)
      /\ \A x, y \in InBatch(m) : x = y
  <2>1. InBatch(m) # {} <=> Drained(m)
    <3>1. ASSUME NEW c \in Conn, NEW e \in batch[c], e.ref = m
          PROVE  <<c, e>> \in InBatch(m)
      <4>1. <<c, e>> \in Conn \X Held
        BY Zenon DEF Held
      <4> QED BY Zenon, <3>1, <4>1 DEF InBatch
    <3>2. ASSUME NEW p \in InBatch(m)
          PROVE  p[1] \in Conn /\ p[2] \in batch[p[1]] /\ p[2].ref = m
      BY Zenon DEF InBatch
    <3> QED BY Zenon, <3>1, <3>2 DEF Drained
  <2>2. ASSUME NEW x \in InBatch(m), NEW y \in InBatch(m) PROVE x = y
    <3>1. /\ x \in Conn \X Held /\ y \in Conn \X Held
          /\ x[2] \in batch[x[1]] /\ y[2] \in batch[y[1]] /\ x[2].ref = m /\ y[2].ref = m
      BY Zenon DEF InBatch
    <3>2. x[2] = y[2]
      BY Zenon, <3>1 DEF QueueSound
    <3>3. x[1] = y[1]
      BY Zenon, <3>1, <3>2 DEF NoCopies, BatchesApart
    <3> QED BY <3>1, <3>2, <3>3
  <2> QED BY Zenon, <2>1, <2>2
<1>4. /\ InBuffer(m) # {} <=> Buffered(m)
      /\ \A x, y \in InBuffer(m) : x = y
  <2>0. \A c \in Conn : /\ DOMAIN sendCh[c] = 1..Len(sendCh[c])
                        /\ Len(sendCh[c]) \in Nat /\ Len(sendCh[c]) <= SendBuffer
    BY DEF LocalInv, HubTypes, Buffers
  <2>1. \A p \in Conn \X (1..SendBuffer) : p \in InBuffer(m) <=> Slot(sendCh, p[1], p[2], m)
    <3>1. ASSUME NEW p \in Conn \X (1..SendBuffer)
          PROVE  p \in InBuffer(m) <=> Slot(sendCh, p[1], p[2], m)
      <4>1. p[1] \in Conn
        OBVIOUS
      <4> QED BY Zenon, <2>0, <4>1 DEF InBuffer, Slot
    <3> QED BY Zenon, <3>1
  <2>2. ASSUME NEW c \in Conn, NEW i \in Nat, Slot(sendCh, c, i, m)
        PROVE  <<c, i>> \in InBuffer(m)
    <3>1. <<c, i>> \in Conn \X (1..SendBuffer)
      BY <2>0, <2>2 DEF Slot
    <3> QED BY Zenon, <2>1, <2>2, <3>1
  <2>3. InBuffer(m) # {} <=> Buffered(m)
    <3>1. ASSUME NEW p \in InBuffer(m)
          PROVE  p[1] \in Conn /\ p[2] \in Nat /\ Slot(sendCh, p[1], p[2], m)
      BY <2>1 DEF InBuffer
    <3> QED BY Zenon, <2>2, <3>1 DEF Buffered
  <2>4. ASSUME NEW x \in InBuffer(m), NEW y \in InBuffer(m) PROVE x = y
    <3>1. /\ x \in Conn \X (1..SendBuffer) /\ y \in Conn \X (1..SendBuffer)
          /\ Slot(sendCh, x[1], x[2], m) /\ Slot(sendCh, y[1], y[2], m)
      BY Zenon, <2>1 DEF InBuffer
    <3>2. x[1] = y[1] /\ x[2] = y[2]
      BY <3>1 DEF NoCopies, SlotsApart
    <3> QED BY <3>1, <3>2
  <2> QED BY Zenon, <2>3, <2>4
<1>5. received[m] = IF Received(m) THEN 1 ELSE 0
  BY Zenon DEF Received, NoCopies, ReceivedOnce
<1> QED BY Zenon, <1>1, <1>2, <1>3, <1>4, <1>5

(***************************************************************************)
(* The steps put together.                                                 *)
(***************************************************************************)
\* The hub's queue, with what is proved about the offline queue.
QP == INSTANCE OfflineQueueProofs WITH
        ID <- Msg, Ref <- Msg, MaxDeliveryAttempts <- 0, EnableDLQ <- FALSE,
        DequeueLimit <- BatchSize, closed <- queueClosed, taken <- Held

\* The inductive invariant.
IInv ==
    /\ LocalInv
    /\ NoCopies
    /\ OnePlace
    /\ QP!IInv

\* The steps that open and close a connection keep the counter exact.
LEMMA ConnectionsStep ==
    ASSUME LocalInv, NEW c \in Conn,
           CheckLimit(c) \/ Refuse(c) \/ Accept(c) \/ CloseConn(c)
    PROVE  LocalInv'
<1>1. HubTypes' /\ HandlersHold' /\ PanicOnlyInShutdown' /\ dlq' = {}
  <2>1. CASE CheckLimit(c)
    BY Zenon, <2>1 DEF LocalInv, CheckLimit, HubTypes, HandlersHold, PanicOnlyInShutdown,
                Goto, hubVars, queueVars, Buffers
  <2>2. CASE Refuse(c)
    BY Zenon, <2>2 DEF LocalInv, Refuse, HubTypes, HandlersHold, PanicOnlyInShutdown,
                Goto, hubVars, queueVars, Buffers
  <2>3. CASE Accept(c)
    BY Zenon, <2>3 DEF LocalInv, Accept, HubTypes, HandlersHold, PanicOnlyInShutdown,
                Goto, hubVars, queueVars, Buffers
  <2>4. CASE CloseConn(c)
    BY Zenon, <2>4 DEF LocalInv, CloseConn, HubTypes, HandlersHold, PanicOnlyInShutdown,
                Goto, hubVars, queueVars, Buffers
  <2> QED BY Zenon, <2>1, <2>2, <2>3, <2>4
<1>2. ConnectionsCounted'
  <2>1. CASE CheckLimit(c) \/ Refuse(c)
    <3>1. Open' = Open /\ connections' = connections
      BY Zenon, <2>1 DEF CheckLimit, Refuse, Goto, Open, LocalInv, HubTypes, hubVars
    <3> QED BY Zenon, <3>1, CounterStays DEF LocalInv
  <2>2. CASE Accept(c)
    <3>1. Open' = Open \cup {c} /\ c \notin Open /\ connections' = connections + 1
      BY Zenon, <2>2 DEF Accept, Goto, Open, LocalInv, HubTypes
    <3> QED BY Zenon, <3>1, FS_AddElement, FS_CardinalityType DEF LocalInv, ConnectionsCounted
  <2>3. CASE CloseConn(c)
    <3>1. Open' = Open \ {c} /\ c \in Open /\ connections' = connections - 1
      BY Zenon, <2>3 DEF CloseConn, Goto, Open, LocalInv, HubTypes
    <3> QED BY Zenon, <3>1, FS_RemoveElement, FS_CardinalityType DEF LocalInv, ConnectionsCounted
  <2> QED BY Zenon, <2>1, <2>2, <2>3
<1> QED BY Zenon, <1>1, <1>2 DEF LocalInv

\* The two instances of the queue are the same.
LEMMA SameQueue == [Q!Next]_(Q!vars) <=> [QP!Next]_(QP!vars)
BY Zenon
   DEF Q!Next, Q!vars, Q!Enqueue, Q!Requeue, Q!Dequeue, Q!Forget, Q!Ack, Q!Nack, Q!Cleanup, Q!Close, Q!Tick,
       Q!EnqueueResult, Q!QueueFull, Q!QueueOf, Q!IsExpired, Q!AppendClone, Q!Evictions,
       Q!evictOldestLocked, Q!OldestOf, Q!FreshRef, Q!DequeueResults, Q!TakeOut, Q!Cardinality,
       QP!Next, QP!vars, QP!Enqueue, QP!Requeue, QP!Dequeue, QP!Forget, QP!Ack, QP!Nack, QP!Cleanup, QP!Close, QP!Tick,
       QP!EnqueueResult, QP!QueueFull, QP!QueueOf, QP!IsExpired, QP!AppendClone, QP!Evictions,
       QP!evictOldestLocked, QP!OldestOf, QP!FreshRef, QP!DequeueResults, QP!TakeOut, QP!Cardinality

\* The configuration of the hub is one the queue allows.
LEMMA QueueConfig == QP!ConfigAssumption
BY Zenon, HubAssumption DEF QP!ConfigAssumption

\* What the queue keeps, its use by the hub keeps.
LEMMA QueueStepKeeps == QP!IInv /\ [Q!Next]_(Q!vars) => QP!IInv'
BY Zenon, QP!StepIInv, QueueConfig, SameQueue

\* The hub's proofs use little of the queue's invariant.
LEMMA HubFacts == IInv => HubInv
<1>1. QP!IInv => QueueSound
  BY Zenon DEF QueueSound, QP!IInv, QP!TypeOK, QP!InOnePlace, QP!Entry, Q!Entry
<1> QED BY Zenon, <1>1 DEF IInv, HubInv

(***************************************************************************)
(* The invariant and the theorems.                                         *)
(***************************************************************************)
\* NewRelayHub establishes the invariant.
LEMMA InitIInv == Init => IInv
<1> SUFFICES ASSUME Init PROVE IInv
  OBVIOUS
<1> USE HubAssumption DEF Init
<1>1. HubTypes
  <2>1. Buffers(sendCh)
    BY DEF Buffers
  <2>2. route \in [Conn -> [msg : Msg \cup {None}, client : Conn \cup {None}, sender : Conn \cup {None}]]
    BY Zenon DEF NoRoute
  <2> QED BY Zenon, <2>1, <2>2 DEF HubTypes
<1>2. HandlersHold /\ PanicOnlyInShutdown
  BY Zenon DEF HandlersHold, PanicOnlyInShutdown, NoRoute
<1>3. ConnectionsCounted
  <2>1. Open = {}
    BY Zenon DEF Open
  <2> QED BY Zenon, <2>1, FS_EmptySet DEF ConnectionsCounted
<1>4. /\ Held = {} /\ queued = {} /\ dlq = {}
      /\ \A k \in Conn, i \in Nat, m \in Msg : ~Slot(sendCh, k, i, m)
  BY DEF Held, Slot, Q!Init
<1>5. NoCopies
  BY Zenon, <1>4 DEF NoCopies, RoutesApart, BatchesApart, RefsAreIDs, SlotsApart, ReceivedOnce, NoRoute
<1>6. OnePlace
  BY Zenon, <1>4 DEF OnePlace, Routed, Stored, Drained, Buffered, Received, NoRoute
<1>7. QP!IInv
  <2>1. QP!Init
    BY Zenon DEF Q!Init, QP!Init
  <2> QED BY Zenon, <2>1, QueueConfig, QP!InitIInv
<1> QED BY Zenon, <1>1, <1>2, <1>3, <1>4, <1>5, <1>6, <1>7 DEF IInv, LocalInv

\* Every step preserves the invariant.
LEMMA StepIInv == IInv /\ [Next]_vars => IInv'
<1> SUFFICES ASSUME IInv, [Next]_vars PROVE IInv'
  OBVIOUS
<1>1. HubInv
  BY Zenon, HubFacts
<1>2. [Q!Next]_(Q!vars) /\ Forwards
  BY Zenon, <1>1, StepFacts
<1>3. LocalInv'
  BY Zenon, <1>1, StepFacts, ConnectionsStep DEF HubInv, Connects
<1>4. QP!IInv'
  BY Zenon, <1>2, QueueStepKeeps DEF IInv
<1> QED BY Zenon, <1>2, <1>3, <1>4 DEF IInv, Forwards

\* The strengthened invariant holds of every behaviour of the hub.
THEOREM Invariance == Spec => []IInv
<1> QED BY InitIInv, StepIInv, PTL DEF Spec

\* The fields of the hub, of its clients and of its queue keep their types; the number
\* of connections never goes below zero, because each is counted once.
THEOREM TypeCorrect == Spec => []TypeOK
<1>1. IInv => TypeOK
  <2> SUFFICES ASSUME IInv PROVE TypeOK
    OBVIOUS
  <2>1. connections \in Nat
    BY Zenon, FS_CardinalityType DEF IInv, LocalInv, ConnectionsCounted
  <2>2. Q!TypeOK
    BY Zenon, HubFacts DEF HubInv, LocalInv, QueueSound, Q!TypeOK
  <2>3. \A c \in Conn : Len(sendCh[c]) <= SendBuffer /\ Range(sendCh[c]) \subseteq Msg \cup {Control}
    BY DEF IInv, LocalInv, HubTypes, Buffers, Range
  <2>4. \A c \in Conn : /\ route[c].msg \in Msg \cup {None}
                        /\ {route[c].client, route[c].sender} \subseteq Conn \cup {None}
    BY DEF IInv, LocalInv, HubTypes
  <2> QED BY Zenon, <2>1, <2>2, <2>3, <2>4 DEF IInv, LocalInv, HubTypes, TypeOK
<1> QED BY <1>1, Invariance, PTL

\* A send on a closed channel can only happen once Stop has closed the channels.
THEOREM PanicsInShutdown == Spec => []PanicOnlyInShutdown
<1>1. IInv => PanicOnlyInShutdown
  BY Zenon DEF IInv, LocalInv
<1> QED BY <1>1, Invariance, PTL

\* The hub uses the queue as the queue's specification allows, so the theorems about
\* the queue hold in the hub.
THEOREM HubUsesQueue == Spec => UsesQueue
<1>1. Init => Q!Init
  BY Zenon DEF Init, Q!Init, Held
<1>2. IInv /\ [Next]_vars => [Q!Next]_(Q!vars)
  BY Zenon, HubFacts, StepFacts
<1> QED BY <1>1, <1>2, Invariance, PTL DEF Spec, UsesQueue, Q!Spec

\* A set whose members are all equal has at most one.
LEMMA AtMostOne ==
    ASSUME NEW S, \A x, y \in S : x = y
    PROVE  Cardinality(S) = IF S = {} THEN 0 ELSE 1
<1>1. CASE S = {}
  BY Zenon, <1>1, FS_EmptySet
<1>2. CASE S # {}
  <2>1. PICK x : S = {x}
    BY <1>2
  <2> QED BY Zenon, <1>2, <2>1, FS_Singleton
<1> QED BY Zenon, <1>1, <1>2

\* The copies of a message that Copies counts are the places it is in.
LEMMA CopiesCounted ==
    ASSUME HubInv, NEW m \in Msg
    PROVE  /\ InRoute(m) # {} <=> Routed(m)
           /\ InQueue(m) # {} <=> Stored(m)
           /\ InBatch(m) # {} <=> Drained(m)
           /\ InBuffer(m) # {} <=> Buffered(m)
           /\ Cardinality(InRoute(m)) = IF Routed(m) THEN 1 ELSE 0
           /\ Cardinality(InQueue(m)) = IF Stored(m) THEN 1 ELSE 0
           /\ Cardinality(InBatch(m)) = IF Drained(m) THEN 1 ELSE 0
           /\ Cardinality(InBuffer(m)) = IF Buffered(m) THEN 1 ELSE 0
           /\ received[m] = IF Received(m) THEN 1 ELSE 0
BY Zenon, CopiesAlike, AtMostOne

\* So a message is where Place says, and there are never two copies of it.
LEMMA PlaceIsWhere ==
    ASSUME HubInv, NEW m \in Msg
    PROVE  Copies(m) <= 1 /\ Place(m) = Where(m)
<1>1. Copies(m) <= 1
  BY CopiesCounted DEF Copies, HubInv, OnePlace
<1>2. ~(Copies(m) > 1)
  <2>1. Copies(m) \in Int
    BY CopiesCounted DEF Copies
  <2> QED BY <1>1, <2>1
<1>3. received[m] = 1 <=> Received(m)
  BY CopiesCounted
<1>4. /\ InRoute(m) # {} <=> Routed(m)
      /\ InQueue(m) # {} <=> Stored(m)
      /\ InBatch(m) # {} <=> Drained(m)
      /\ InBuffer(m) # {} <=> Buffered(m)
  BY Zenon, CopiesCounted
<1>5. Place(m) = Where(m)
  BY Zenon, <1>2, <1>3, <1>4 DEF Place, Where, HubInv, OnePlace
<1> QED BY Zenon, <1>1, <1>5

\* A sender that was told of a failure can send again: nothing of the message is left.
THEOREM FailedAreAbsent == Spec => []FailedMeansAbsent
<1>1. IInv => FailedMeansAbsent
  <2> SUFFICES ASSUME IInv, NEW m \in Msg, outcome[m] \in Failures PROVE Copies(m) = 0
    BY Zenon DEF FailedMeansAbsent
  <2>1. ~Routed(m) /\ ~Stored(m) /\ ~Drained(m) /\ ~Buffered(m) /\ ~Received(m)
    BY Zenon DEF IInv, OnePlace
  <2> QED BY <2>1, HubFacts, CopiesCounted DEF Copies
<1> QED BY <1>1, Invariance, PTL

\* The hub implements StoreAndForward: a message is delivered at most once.
THEOREM HubForwardsOnce == Spec => ForwardsOnce
<1> DEFINE place == [m \in Msg |-> Place(m)]
<1>1. Init => SF!Init
  <2> SUFFICES ASSUME Init PROVE \A m \in Msg : Place(m) = "sender"
    BY Zenon DEF SF!Init
  <2>1. IInv
    BY Zenon, InitIInv
  <2>2. \A m \in Msg : outcome[m] = "unsent"
    BY Zenon DEF Init
  <2> QED BY Zenon, <2>1, <2>2, HubFacts, PlaceIsWhere DEF IInv, OnePlace, Where
<1>2. IInv => \A m \in Msg : Place(m) = Where(m)
  BY Zenon, HubFacts, PlaceIsWhere
<1>3. IInv' => (\A m \in Msg : Place(m) = Where(m))'
  BY <1>2, PTL
<1>4. IInv /\ [Next]_vars => [SF!Next]_place
  <2> SUFFICES ASSUME IInv, [Next]_vars PROVE SF!Next
    BY Zenon DEF SF!Next
  <2>1. IInv' /\ Forwards
    BY Zenon, StepIInv, HubFacts, StepFacts
  <2> QED BY Zenon, <1>2, <1>3, <2>1 DEF SF!Next, Forwards
<1> QED BY <1>1, <1>4, Invariance, PTL DEF Spec, ForwardsOnce, SF!Spec

=============================================================================
