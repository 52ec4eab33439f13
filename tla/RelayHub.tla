------------------------------ MODULE RelayHub ------------------------------
(***************************************************************************)
(* The relay hub (cmd/relay/hub.go, client.go) on top of the offline queue *)
(* (OfflineQueue): connections come, register DIDs, send messages to other *)
(* DIDs and go, while the hub may be stopped.                              *)
(*                                                                         *)
(* A connection c is one Client: the goroutine of handleWebSocket with its *)
(* readPump, which handles one request at a time, and the writePump that   *)
(* empties SendCh.  A handler is cut into steps where it takes or releases *)
(* hub.mu or the queue's mutex: what it read under the lock may be stale   *)
(* in its next step.  Channel sends never block (select with default), so  *)
(* those that follow one another belong to one step.                       *)
(*                                                                         *)
(* Every message of Msg is sent at most once by its sender.                *)
(***************************************************************************)
EXTENDS Integers, Sequences, FiniteSets, Functions

CONSTANTS
    Conn,               \* connections; each is used once
    DID,                \* agent DIDs
    Msg,                \* messages
    To,                 \* To[m]: the recipient DID of m
    RequestAck,         \* the messages sent with request_ack
    None,               \* no client, no DID
    MaxConnections,     \* RelayConfig.MaxConnections
    SendBuffer,         \* wsSendBufferSize
    EnableOfflineQueue, \* RelayConfig.EnableOfflineQueue
    MessageTTL, MaxQueueSize, MaxTotalMessages,   \* RelayConfig.QueueConfig
    BatchSize,          \* batchSize of deliverQueuedMessages
    MaxTime,            \* bound on the clock
    MayStop             \* whether the operator stops the hub

Control == "control"   \* results, errors, acks and announcements

ASSUME HubAssumption ==
    /\ To \in [Msg -> DID]
    /\ RequestAck \subseteq Msg
    /\ None \notin Conn \cup DID \cup Msg
    /\ Control \notin Msg
    /\ MaxConnections \in Nat
    /\ SendBuffer \in Nat \ {0}
    /\ EnableOfflineQueue \in BOOLEAN
    /\ BatchSize \in Nat \ {0}
    /\ {MessageTTL, MaxQueueSize, MaxTotalMessages, MaxTime} \subseteq Nat
    /\ MayStop \in BOOLEAN

VARIABLES
    pc,           \* where the goroutine of each connection is
    did,          \* Client.DID, None before registration
    sendCh,       \* Client.SendCh
    chClosed,     \* connections whose SendCh Stop has closed (and stopped set)
    writer,       \* writePump: "none", "run" or "done"
    byID, byDID,  \* RelayHub.clients: its client IDs and its DIDs
    connections,  \* RelayHub.connections
    route,        \* what Route read under the lock: message, client, sender
    batch,        \* what deliverQueuedMessages has dequeued and not handed on
    outcome,      \* per message: what its sender was told
    received,     \* per message: how often it was written to a WebSocket
    stop,         \* how far Stop has come
    queued, dlq, totalCount, queueClosed, now   \* the offline queue

hubVars == <<byID, byDID, connections>>
connVars == <<pc, did, chClosed, writer, route, batch>>
queueVars == <<queued, dlq, totalCount, queueClosed, now>>
vars == <<pc, did, sendCh, chClosed, writer, byID, byDID, connections, route,
          batch, outcome, received, stop, queued, dlq, totalCount, queueClosed, now>>

Held == UNION {batch[c] : c \in Conn}

\* The relay never calls Nack, so the delivery-attempt limit plays no part.
Q == INSTANCE OfflineQueue WITH
        ID <- Msg, Ref <- Msg, MaxDeliveryAttempts <- 0, EnableDLQ <- FALSE,
        DequeueLimit <- BatchSize, closed <- queueClosed, taken <- Held

NoRoute == [msg |-> None, client |-> None, sender |-> None]
Failures == {"queue failed", "recipient not found", "buffer full"}

TypeOK ==
    /\ pc \in [Conn -> {"off", "checked", "accepted", "idle", "request", "announce",
                        "fetch", "deliver", "deliverLast", "route", "closing",
                        "unregistered", "gone", "panicked"}]
    /\ did \in [Conn -> DID \cup {None}]
    /\ \A c \in Conn : Len(sendCh[c]) <= SendBuffer /\ Range(sendCh[c]) \subseteq Msg \cup {Control}
    /\ chClosed \subseteq Conn
    /\ writer \in [Conn -> {"none", "run", "done"}]
    /\ byID \subseteq Conn
    /\ byDID \in [DID -> Conn \cup {None}]
    /\ connections \in Nat
    /\ \A c \in Conn : /\ route[c].msg \in Msg \cup {None}
                       /\ {route[c].client, route[c].sender} \subseteq Conn \cup {None}
    /\ outcome \in [Msg -> {"unsent", "routing", "delivered", "queued"} \cup Failures]
    /\ received \in [Msg -> Nat]
    /\ stop \in {"no", "cancelled", "closed", "done"}
    /\ Q!TypeOK

Init ==
    /\ pc = [c \in Conn |-> "off"]
    /\ did = [c \in Conn |-> None]
    /\ sendCh = [c \in Conn |-> <<>>]
    /\ chClosed = {}
    /\ writer = [c \in Conn |-> "none"]
    /\ byID = {}
    /\ byDID = [d \in DID |-> None]
    /\ connections = 0
    /\ route = [c \in Conn |-> NoRoute]
    /\ batch = [c \in Conn |-> {}]
    /\ outcome = [m \in Msg |-> "unsent"]
    /\ received = [m \in Msg |-> 0]
    /\ stop = "no"
    /\ Q!Init

(***************************************************************************)
(* Helpers.                                                                *)
(***************************************************************************)
Goto(c, l) == pc' = [pc EXCEPT ![c] = l]

\* The clients of the map, each once.
Clients == byID \cup (Range(byDID) \ {None})

\* Mutant: the client's context is not derived from the hub's.
CancelledByHandler(c) == pc[c] \in {"closing", "unregistered", "gone"}

\* The client's context: its handler or the hub has cancelled it.
Cancelled(c) == stop # "no" \/ pc[c] \in {"closing", "unregistered", "gone"}

\* Mutant: one slot more than the channel has.
HasRoomOffByOne(ch, c) == Len(ch[c]) <= SendBuffer

HasRoom(ch, c) == Len(ch[c]) < SendBuffer

\* A non-blocking send of x to client c: dropped when the buffer is full.
Offer(ch, c, x) ==
    IF HasRoom(ch, c) THEN [ch EXCEPT ![c] = Append(@, x)] ELSE ch

(***************************************************************************)
(* handleWebSocket: from the connection limit to the registered client.    *)
(***************************************************************************)
CheckLimit(c) ==
    /\ pc[c] = "off"
    /\ connections < MaxConnections
    /\ Goto(c, "checked")
    /\ UNCHANGED <<did, sendCh, chClosed, writer, hubVars, route, batch, outcome, received, stop, queueVars>>

\* Authentication, or the WebSocket handshake, fails.
Refuse(c) ==
    /\ pc[c] = "checked"
    /\ Goto(c, "gone")
    /\ UNCHANGED <<did, sendCh, chClosed, writer, hubVars, route, batch, outcome, received, stop, queueVars>>

Accept(c) ==
    /\ pc[c] = "checked"
    /\ Goto(c, "accepted")
    /\ connections' = connections + 1
    /\ UNCHANGED <<did, sendCh, chClosed, writer, byID, byDID, route, batch, outcome, received, stop, queueVars>>

Register(c) ==
    /\ pc[c] = "accepted"
    /\ Goto(c, "idle")
    /\ byID' = byID \cup {c}
    /\ writer' = [writer EXCEPT ![c] = "run"]
    /\ UNCHANGED <<did, sendCh, chClosed, byDID, connections, route, batch, outcome, received, stop, queueVars>>

(***************************************************************************)
(* readPump and its handlers.                                              *)
(***************************************************************************)
\* A read succeeds only while the client's context is alive; what is then
\* done with the request does not look at the context again.
Read(c) ==
    /\ pc[c] = "idle"
    /\ ~Cancelled(c)
    /\ Goto(c, "request")
    /\ UNCHANGED <<did, sendCh, chClosed, writer, hubVars, route, batch, outcome, received, stop, queueVars>>

\* A request that is ignored (a keepalive, a malformed one).
Ignore(c) ==
    /\ pc[c] = "request"
    /\ Goto(c, "idle")
    /\ UNCHANGED <<did, sendCh, chClosed, writer, hubVars, route, batch, outcome, received, stop, queueVars>>

\* Any request that is answered at once: refused registrations and sends,
\* discovery, lookups and the like (sendResult, sendError).
Answer(c) ==
    /\ pc[c] = "request"
    /\ IF c \in chClosed
       THEN Goto(c, "panicked") /\ UNCHANGED sendCh
       ELSE Goto(c, "idle") /\ sendCh' = Offer(sendCh, c, Control)
    /\ UNCHANGED <<did, chClosed, writer, hubVars, route, batch, outcome, received, stop, queueVars>>

\* handleRegister past its checks: the client takes over the DID.
HandleRegister(c, d) ==
    /\ pc[c] = "request"
    /\ Goto(c, "announce")
    /\ did' = [did EXCEPT ![c] = d]
    /\ byDID' = [byDID EXCEPT ![d] = c]
    /\ UNCHANGED <<sendCh, chClosed, writer, byID, connections, route, batch, outcome, received, stop, queueVars>>

\* The buffers after Broadcast, which skips the sender and stopped clients.
Broadcast(c) ==
    [k \in Conn |-> IF k \in Clients \ ({c} \cup chClosed)
                    THEN Offer(sendCh, k, Control)[k] ELSE sendCh[k]]

\* The announcement and the sendResult after it, which looks at no flag.
Announce(c) ==
    /\ pc[c] = "announce"
    /\ IF c \in chClosed
       THEN sendCh' = Broadcast(c) /\ Goto(c, "panicked")
       ELSE sendCh' = Offer(Broadcast(c), c, Control) /\ Goto(c, "fetch")
    /\ UNCHANGED <<did, chClosed, writer, hubVars, route, batch, outcome, received, stop, queueVars>>

\* Mutant: takes the messages out behind the store's back.
FetchBatchUncounted(c) ==
    /\ pc[c] = "fetch"
    /\ \E r \in Q!DequeueResults(did[c]) :
          /\ batch' = [batch EXCEPT ![c] = r]
          /\ queued' = queued \ r
          /\ Goto(c, IF r = {} THEN "idle" ELSE "deliverLast")
    /\ UNCHANGED <<did, sendCh, chClosed, writer, hubVars, route, outcome, received, stop, dlq, totalCount, queueClosed, now>>

\* deliverQueuedMessages asks for a batch: the queue is closed or has none,
\* a full batch (another may follow), or a short one (the last).
FetchBatch(c) ==
    /\ pc[c] = "fetch"
    /\ \/ /\ queueClosed \/ Q!DequeueResults(did[c]) = {{}}
          /\ Goto(c, "idle")
          /\ UNCHANGED <<batch, queued, totalCount>>
       \/ /\ ~queueClosed
          /\ \E r \in Q!DequeueResults(did[c]) \ {{}} :
                /\ batch' = [batch EXCEPT ![c] = r]
                /\ Q!TakeOut(r)
                /\ Goto(c, IF Cardinality(r) < BatchSize THEN "deliverLast" ELSE "deliver")
    /\ UNCHANGED <<did, sendCh, chClosed, writer, hubVars, route, outcome, received, stop, dlq, queueClosed, now>>

\* The loop body of deliverQueuedMessages for m, the oldest message left in
\* the batch.  A full buffer puts m back and gives up on the whole batch.
DeliverQueued(c, m) ==
    /\ pc[c] \in {"deliver", "deliverLast"}
    /\ m \in Q!OldestOf(batch[c])
    /\ LET rest == batch[c] \ {m}
           next == IF rest # {} THEN pc[c]
                   ELSE IF pc[c] = "deliver" THEN "fetch" ELSE "idle"
       IN  \/ /\ Q!IsExpired(m)
              /\ batch' = [batch EXCEPT ![c] = rest]
              /\ Goto(c, next)
              /\ UNCHANGED <<sendCh, queued, totalCount>>
           \/ /\ ~Q!IsExpired(m) /\ c \in chClosed
              /\ batch' = [batch EXCEPT ![c] = {}]
              /\ Goto(c, "panicked")
              /\ UNCHANGED <<sendCh, queued, totalCount>>
           \/ /\ ~Q!IsExpired(m) /\ c \notin chClosed /\ HasRoom(sendCh, c)
              /\ batch' = [batch EXCEPT ![c] = rest]
              /\ sendCh' = Offer(sendCh, c, m.id)
              /\ Goto(c, next)
              /\ UNCHANGED <<queued, totalCount>>
           \/ /\ ~Q!IsExpired(m) /\ c \notin chClosed /\ ~HasRoom(sendCh, c)
              /\ batch' = [batch EXCEPT ![c] = {}]
              /\ Goto(c, "idle")
              /\ IF Q!EnqueueResult(m.to) = "ok"
                 THEN Q!AppendClone(m) ELSE UNCHANGED <<queued, totalCount>>
              /\ UNCHANGED sendCh
    /\ UNCHANGED <<did, chClosed, writer, hubVars, route, outcome, received, stop, dlq, queueClosed, now>>

\* handleMessage up to Route's RUnlock: the sender is registered, and the
\* clients of the recipient and of the sender are looked up.
HandleSend(c, m) ==
    /\ pc[c] = "request"
    /\ did[c] # None
    /\ outcome[m] = "unsent"
    /\ Goto(c, "route")
    /\ route' = [route EXCEPT ![c] =
                    [msg |-> m, client |-> byDID[To[m]], sender |-> byDID[did[c]]]]
    /\ outcome' = [outcome EXCEPT ![m] = "routing"]
    /\ UNCHANGED <<did, sendCh, chClosed, writer, hubVars, batch, received, stop, queueVars>>

\* The end of Route and of handleMessage: the result is res and the buffers
\* are ch.  The sender's client gets an ack if one was asked for, and a
\* failure also sends an error to the client that made the request.
Conclude(c, res, ch) ==
    LET m     == route[c].msg
        ackTo == IF m \in RequestAck THEN {route[c].sender} \ {None} ELSE {}
        errTo == IF res \in Failures THEN {c} ELSE {}
        acked == IF ackTo = {} THEN ch ELSE Offer(ch, route[c].sender, Control)
    IN  IF ackTo \cap chClosed # {}
        THEN sendCh' = ch /\ Goto(c, "panicked") /\ UNCHANGED outcome
        ELSE IF errTo \cap chClosed # {}
        THEN sendCh' = acked /\ Goto(c, "panicked") /\ UNCHANGED outcome
        ELSE /\ sendCh' = IF errTo = {} THEN acked ELSE Offer(acked, c, Control)
             /\ Goto(c, "idle")
             /\ outcome' = [outcome EXCEPT ![m] = res]

RouteDone(c) == pc[c] = "route" /\ route' = [route EXCEPT ![c] = NoRoute]

\* The recipient had no client: queue the message or give up.
RouteOffline(c) ==
    /\ RouteDone(c)
    /\ route[c].client = None
    /\ LET m == route[c].msg IN
       \/ /\ ~EnableOfflineQueue
          /\ Conclude(c, "recipient not found", sendCh)
          /\ UNCHANGED <<queued, totalCount>>
       \/ /\ EnableOfflineQueue /\ Q!EnqueueResult(To[m]) = "ok"
          /\ Q!AppendClone([ref |-> m, id |-> m, to |-> To[m], queuedAt |-> now, attempts |-> 0])
          /\ Conclude(c, "queued", sendCh)
       \/ /\ EnableOfflineQueue /\ Q!EnqueueResult(To[m]) # "ok"
          /\ Conclude(c, "queue failed", sendCh)
          /\ UNCHANGED <<queued, totalCount>>
    /\ UNCHANGED <<did, chClosed, writer, hubVars, batch, received, stop, dlq, queueClosed, now>>

\* Mutant: an overflow is also put in the queue, and still reported.
RouteOnlineKeepsOverflow(c) ==
    /\ RouteDone(c)
    /\ route[c].client # None
    /\ LET m == route[c].msg
           k == route[c].client
       IN  \/ /\ HasRoom(sendCh, k)
              /\ Conclude(c, "delivered", Offer(sendCh, k, m))
              /\ UNCHANGED <<queued, totalCount>>
           \/ /\ ~HasRoom(sendCh, k)
              /\ Q!AppendClone([ref |-> m, id |-> m, to |-> To[m], queuedAt |-> now, attempts |-> 0])
              /\ Conclude(c, "buffer full", sendCh)
    /\ UNCHANGED <<did, chClosed, writer, hubVars, batch, received, stop, dlq, queueClosed, now>>

\* Mutant: waits for room in the recipient's buffer.
RouteOnlineBlocking(c) ==
    /\ RouteDone(c)
    /\ route[c].client # None
    /\ route[c].client \notin chClosed
    /\ HasRoom(sendCh, route[c].client)
    /\ Conclude(c, "delivered", Offer(sendCh, route[c].client, route[c].msg))
    /\ UNCHANGED <<did, chClosed, writer, hubVars, batch, received, stop, queueVars>>

\* The recipient had a client: offer it the message, drop it if there is no
\* room.  Nothing checks whether Stop has closed that client's channel.
RouteOnline(c) ==
    /\ RouteDone(c)
    /\ route[c].client # None
    /\ LET m == route[c].msg
           k == route[c].client
       IN  \/ /\ k \in chClosed
              /\ Goto(c, "panicked")
              /\ UNCHANGED <<sendCh, outcome>>
           \/ /\ k \notin chClosed /\ HasRoom(sendCh, k)
              /\ Conclude(c, "delivered", Offer(sendCh, k, m))
           \/ /\ k \notin chClosed /\ ~HasRoom(sendCh, k)
              /\ Conclude(c, "buffer full", sendCh)
    /\ UNCHANGED <<did, chClosed, writer, hubVars, batch, received, stop, queueVars>>

(***************************************************************************)
(* The end of a connection.                                                *)
(***************************************************************************)
\* readPump returns (the peer left, a timeout, a cancelled context) and
\* handleWebSocket cancels the client's context.
ReadError(c) ==
    /\ pc[c] = "idle"
    /\ Goto(c, "closing")
    /\ UNCHANGED <<did, sendCh, chClosed, writer, hubVars, route, batch, outcome, received, stop, queueVars>>

\* Mutant: closes the channel that other goroutines still send on.
UnregisterCloses(c) ==
    /\ pc[c] = "closing"
    /\ Goto(c, "unregistered")
    /\ byID' = byID \ {c}
    /\ byDID' = IF did[c] = None THEN byDID ELSE [byDID EXCEPT ![did[c]] = None]
    /\ chClosed' = chClosed \cup {c}
    /\ UNCHANGED <<did, sendCh, writer, connections, route, batch, outcome, received, stop, queueVars>>

\* Unregister deletes the entry of the client's DID, whoever it points to.
Unregister(c) ==
    /\ pc[c] = "closing"
    /\ Goto(c, "unregistered")
    /\ byID' = byID \ {c}
    /\ byDID' = IF did[c] = None THEN byDID ELSE [byDID EXCEPT ![did[c]] = None]
    /\ UNCHANGED <<did, sendCh, chClosed, writer, connections, route, batch, outcome, received, stop, queueVars>>

CloseConn(c) ==
    /\ pc[c] = "unregistered"
    /\ Goto(c, "gone")
    /\ connections' = connections - 1
    /\ UNCHANGED <<did, sendCh, chClosed, writer, byID, byDID, route, batch, outcome, received, stop, queueVars>>

(***************************************************************************)
(* writePump.                                                              *)
(***************************************************************************)
\* One buffered item is taken and written, or lost with a failing write.  A
\* write that races with the cancellation of its context may go either way.
Write(c) ==
    /\ writer[c] = "run"
    /\ sendCh[c] # <<>>
    /\ sendCh' = [sendCh EXCEPT ![c] = Tail(@)]
    /\ \/ /\ received' = IF Head(sendCh[c]) \in Msg
                         THEN [received EXCEPT ![Head(sendCh[c])] = @ + 1] ELSE received
          /\ UNCHANGED writer
       \/ /\ writer' = [writer EXCEPT ![c] = "done"]
          /\ UNCHANGED received
    /\ UNCHANGED <<pc, did, chClosed, hubVars, route, batch, outcome, stop, queueVars>>

WriterExit(c) ==
    /\ writer[c] = "run"
    /\ Cancelled(c) \/ (c \in chClosed /\ sendCh[c] = <<>>)
    /\ writer' = [writer EXCEPT ![c] = "done"]
    /\ UNCHANGED <<pc, did, sendCh, chClosed, hubVars, route, batch, outcome, received, stop, queueVars>>

(***************************************************************************)
(* Stop, the cleanup loop and the clock.                                   *)
(***************************************************************************)
StopCancel ==
    /\ MayStop
    /\ stop = "no"
    /\ stop' = "cancelled"
    /\ UNCHANGED <<connVars, sendCh, hubVars, outcome, received, queueVars>>

\* Under hub.mu every client of the map is marked stopped and closed once.
StopClose ==
    /\ stop = "cancelled"
    /\ stop' = "closed"
    /\ chClosed' = chClosed \cup Clients
    /\ UNCHANGED <<pc, did, writer, route, batch, sendCh, hubVars, outcome, received, queueVars>>

\* The writers have ended, or stopGraceTimeout has: the queue is closed.
StopFinish ==
    /\ stop = "closed"
    /\ stop' = "done"
    /\ UNCHANGED <<connVars, sendCh, hubVars, outcome, received>>
    /\ Q!Close

\* queueCleanupLoop, until stopCh is closed.
CleanupLoop ==
    /\ stop = "no"
    /\ UNCHANGED <<connVars, sendCh, hubVars, outcome, received, stop>>
    /\ Q!Cleanup

Tick ==
    /\ UNCHANGED <<connVars, sendCh, hubVars, outcome, received, stop>>
    /\ Q!Tick

\* The steps of a connection's goroutine that it takes on its own.
Handler(c) ==
    \/ Accept(c) \/ Refuse(c) \/ Register(c)
    \/ Ignore(c) \/ Answer(c)
    \/ \E d \in DID : HandleRegister(c, d)
    \/ \E m \in Msg : HandleSend(c, m)
    \/ Announce(c) \/ FetchBatch(c) \/ \E m \in batch[c] : DeliverQueued(c, m)
    \/ RouteOffline(c) \/ RouteOnline(c)
    \/ Unregister(c) \/ CloseConn(c)

\* The steps that wait for the peer.
Peer(c) == CheckLimit(c) \/ Read(c) \/ ReadError(c)

Writer(c) == Write(c) \/ WriterExit(c)

Stop == StopCancel \/ StopClose \/ StopFinish

Next ==
    \/ \E c \in Conn : Handler(c) \/ Peer(c) \/ Writer(c)
    \/ Stop \/ CleanupLoop \/ Tick

Spec == Init /\ [][Next]_vars

\* Goroutines run: a handler that is not waiting for its peer goes on, the
\* writer of a client goes on, and Stop, once called, goes on.  A read on a
\* cancelled context returns.
Fairness ==
    /\ \A c \in Conn : /\ WF_vars(Handler(c))
                       /\ WF_vars(Writer(c))
                       /\ WF_vars(Cancelled(c) /\ ReadError(c))
    /\ WF_vars(StopClose)
    /\ WF_vars(StopFinish)

FairSpec == Spec /\ Fairness

(***************************************************************************)
(* The relay as a store-and-forward system: where each message is.         *)
(***************************************************************************)
InRoute(m) == {c \in Conn : route[c].msg = m}
InQueue(m) == {e \in queued : e.ref = m}
InBatch(m) == {p \in Conn \X Held : p[2] \in batch[p[1]] /\ p[2].ref = m}
InBuffer(m) == {p \in Conn \X (1..SendBuffer) :
                    p[2] \in DOMAIN sendCh[p[1]] /\ sendCh[p[1]][p[2]] = m}

Copies(m) ==
    Cardinality(InRoute(m)) + Cardinality(InQueue(m)) + Cardinality(InBatch(m))
        + Cardinality(InBuffer(m)) + received[m]

Place(m) ==
    CASE Copies(m) > 1      -> "duplicated"
      [] InRoute(m) # {}    -> "routing"
      [] InQueue(m) # {}    -> "queue"
      [] InBatch(m) # {}    -> "batch"
      [] InBuffer(m) # {}   -> "buffer"
      [] received[m] = 1    -> "recipient"
      [] OTHER              -> IF outcome[m] = "unsent" THEN "sender" ELSE "lost"

SF == INSTANCE StoreAndForward WITH place <- [m \in Msg |-> Place(m)]

(***************************************************************************)
(* Properties.                                                             *)
(***************************************************************************)
\* Routing, queueing, draining and re-queueing never copy a message: the hub
\* implements StoreAndForward, so a message is delivered at most once.
ForwardsOnce == SF!Spec

\* Every use the hub makes of the offline queue, from all connections, the
\* cleanup loop and Stop together, is a behaviour of the queue's own
\* specification: what is proved about OfflineQueue holds in the hub.
UsesQueue == Q!Spec

\* A sender that was told its message failed (by a negative ack or by an
\* error) can send it again without risk: no trace of it is in the hub.
FailedMeansAbsent ==
    \A m \in Msg : outcome[m] \in Failures => Copies(m) = 0

\* A goroutine can die from a send on a closed channel only in the shutdown:
\* nothing before Stop closes a channel that another goroutine may use.
PanicOnlyInShutdown ==
    (chClosed # {} \/ \E c \in Conn : pc[c] = "panicked") => stop \in {"closed", "done"}

\* No handler waits for ever for another client: a full buffer, a closed
\* queue or a vanished recipient ends it as well.
HandlersReturn ==
    \A c \in Conn :
        pc[c] \notin {"off", "idle", "gone"} ~> pc[c] \in {"idle", "gone", "panicked"}

\* After Stop every writer ends (what its WaitGroup waits for), every handler
\* returns or has died, and the queue is closed.
StopCompletes ==
    stop = "cancelled" ~>
        /\ stop = "done"
        /\ queueClosed
        /\ \A c \in Conn : writer[c] # "run" /\ pc[c] \in {"off", "checked", "gone", "panicked"}

(***************************************************************************)
(* What the documentation and the comments say, and the code does not do.  *)
(***************************************************************************)
\* "Delivered automatically when the agent reconnects": a message the queue
\* accepted leaves it, or the batch taken from it, only into the recipient's
\* buffer, unless it expired or the store had to make room for another.
\* deliverQueuedMessages drops the rest of a batch when the buffer is full.
DrainKeeps ==
    [][\A e \in queued \cup Held :
          \/ e \in queued' \cup Held'
          \/ \E c \in Conn : e.id \in Range(sendCh'[c])
          \/ Q!IsExpired(e)
          \/ MaxTotalMessages > 0 /\ totalCount >= MaxTotalMessages]_vars

\* "If the recipient is offline [...] the message is queued": a client that
\* is connected and registered is found under its DID, itself or another
\* client of that DID.  Unregister of an older client removes the entry.
ConnectedIsRoutable ==
    \A c \in Conn : pc[c] = "idle" /\ did[c] # None => byDID[did[c]] # None

=============================================================================
