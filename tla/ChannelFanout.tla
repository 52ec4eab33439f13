--------------------------- MODULE ChannelFanout ---------------------------
(***************************************************************************)
(* What members of a channel receive: RouteToChannel and the notifications *)
(* of sender keys and of a deleted channel (cmd/relay/channel.go), while   *)
(* members join and leave, lose their connections and come back.           *)
(*                                                                         *)
(* The handler of a request copies the list of members and goes through    *)
(* the copy: it looks a member's client up under hub.mu and, after the     *)
(* unlock, sends to that client without waiting, or queues the message.    *)
(* Overlapping changes of the channel's record are in Channels, expiry and *)
(* the limits of the whole queue in OfflineQueue, Stop in RelayHub.  What  *)
(* else is in a SendCh (answers, announcements) is left out, and an agent  *)
(* has one connection at a time.                                           *)
(***************************************************************************)
EXTENDS Naturals, Sequences, FiniteSets, SequencesExt

CONSTANTS
    Owner,        \* the agent that created the channel
    Others,       \* the other agents
    Latecomer,    \* those of them that are not members at first
    Poster,       \* bound: the agents that send to the channel
    FanBuffer,    \* wsSendBufferSize
    FanQueue,     \* MaxQueueSize of a recipient
    MaxFanned,    \* bound: messages, keys and notices that are sent, joins and leaves
    MaxReturns    \* bound: connections that are made again

ASSUME FanoutAssumption ==
    /\ {FanBuffer, FanQueue, MaxFanned, MaxReturns} \subseteq Nat
    /\ Owner \notin Others /\ Latecomer \subseteq Others /\ Poster \subseteq {Owner} \cup Others

Agent == {Owner} \cup Others

VARIABLES
    kind,       \* Channel.Type: "group" (a topic is the same) or "broadcast"
    roster,     \* DIDs of Channel.Members in order; empty once it is deleted
    client,     \* hub.clients: agent -> number of its connection, 0 for none
    fresh,      \* agents that are registered and have not yet emptied their queue
    drained,    \* agent -> what deliverQueuedMessages has fetched and not handed on
    channelOf,  \* agent -> SendCh of its connection, a sequence of packet numbers
    offline,    \* agent -> its queue
    fan,        \* agent -> the request its handler works on
    packets,    \* history: what was sent: [what, by, to, under: the sender's last key]
    inbox,      \* history: agent -> what it has received
    passedBy,     \* history: <<n, a>>: packet n went past a
    viaQueue,   \* history: <<n, a>>: packet n was queued for a
    unsteady,   \* history: agents that have lost a connection or had a full SendCh
    returns, moves

fanVars == <<kind, roster, client, fresh, drained, channelOf, offline, fan, packets, inbox, passedBy,
             viaQueue, unsteady, returns, moves>>

\* A handler: the packet it hands out (0: none), the members left, and the client it has
\* looked up for the first of them: a connection, 0 if there was none.
AtRest == [packet |-> 0, left |-> <<>>, looked |-> FALSE, found |-> 0]
Handing(n, left) ==
    IF left = <<>> THEN AtRest ELSE [packet |-> n, left |-> left, looked |-> FALSE, found |-> 0]

FanInit ==
    /\ kind \in {"group", "broadcast"}
    /\ roster = <<Owner>> \o SetToSeq(Others \ Latecomer)
    /\ client = [a \in Agent |-> 1] /\ fresh = {}
    /\ channelOf = [a \in Agent |-> <<>>]
    /\ offline = [a \in Agent |-> <<>>] /\ drained = [a \in Agent |-> <<>>]
    /\ fan = [a \in Agent |-> AtRest]
    /\ packets = <<>> /\ inbox = [a \in Agent |-> <<>>]
    /\ passedBy = {} /\ viaQueue = {} /\ unsteady = {}
    /\ returns = 0 /\ moves = 0

MayAsk == Len(packets) + moves < MaxFanned

\* readPump handles one request at a time, after the registration is complete.
Reads(a) == client[a] # 0 /\ a \notin fresh /\ fan[a] = AtRest

(***************************************************************************)
(* Members.                                                                *)
(***************************************************************************)
JoinRoster(a) ==
    /\ Reads(a) /\ roster # <<>> /\ a \notin Range(roster) /\ MayAsk
    /\ roster' = Append(roster, a) /\ moves' = moves + 1
    /\ UNCHANGED <<kind, client, fresh, drained, channelOf, offline, fan, packets, inbox, passedBy,
                   viaQueue, unsteady, returns>>

LeaveRoster(a) ==
    /\ Reads(a) /\ a \in Range(roster) \ {Owner} /\ MayAsk
    /\ roster' = SelectSeq(roster, LAMBDA m : m # a) /\ moves' = moves + 1
    /\ UNCHANGED <<kind, client, fresh, drained, channelOf, offline, fan, packets, inbox, passedBy,
                   viaQueue, unsteady, returns>>

(***************************************************************************)
(* Requests that go out to the members.                                    *)
(***************************************************************************)
CanSend(a) == a \in Range(roster) /\ (kind = "broadcast" => a = Owner)
IsOwner(a) == roster # <<>> /\ a = Owner

LastKey(a) ==
    LET keys == {n \in DOMAIN packets : packets[n].what = "key" /\ packets[n].by = a}
    IN  IF keys = {} THEN 0 ELSE CHOOSE n \in keys : \A k \in keys : k <= n

\* The handler of a takes its copy of the members and will go through those of left;
\* everybody but the sender is meant, or everybody if the channel is gone.
Begins(a, what, left) ==
    /\ Reads(a) /\ a \in Poster /\ MayAsk
    /\ packets' = Append(packets, [what |-> what, by |-> a, under |-> LastKey(a),
                                   to |-> Range(roster) \ (IF what = "deleted" THEN {} ELSE {a})])
    /\ fan' = [fan EXCEPT ![a] = Handing(Len(packets) + 1, left)]
    /\ UNCHANGED <<kind, client, fresh, drained, channelOf, offline, inbox, passedBy, viaQueue, unsteady,
                   returns, moves>>

ButFor(a) == SelectSeq(roster, LAMBDA m : m # a)

\* Mutant: the sender is not skipped.
RouteToAll(a) == CanSend(a) /\ Begins(a, "post", roster) /\ UNCHANGED roster

RouteToChannel(a) == CanSend(a) /\ Begins(a, "post", ButFor(a)) /\ UNCHANGED roster

SenderKeyDistribute(a) == a \in Range(roster) /\ Begins(a, "key", ButFor(a)) /\ UNCHANGED roster

ChannelDelete(a) == IsOwner(a) /\ Begins(a, "deleted", roster) /\ roster' = <<>>

\* hub.mu is taken for the lookup only.
LookUp(a) ==
    /\ fan[a].left # <<>> /\ ~fan[a].looked
    /\ fan' = [fan EXCEPT ![a].looked = TRUE, ![a].found = client[Head(fan[a].left)]]
    /\ UNCHANGED <<kind, roster, client, fresh, drained, channelOf, offline, packets, inbox, passedBy,
                   viaQueue, unsteady, returns, moves>>

\* What the handler of a does for member m with the client it has found: the send to
\* that client, which may be gone by now; or the queue, for messages only.
SendTo(a, m) ==
    LET n == fan[a].packet
        Skips == passedBy' = passedBy \cup {<<n, m>>} /\ UNCHANGED <<channelOf, offline, viaQueue>>
    IN
    \/ /\ fan[a].found # 0 /\ fan[a].found = client[m] /\ Len(channelOf[m]) < FanBuffer
       /\ channelOf' = [channelOf EXCEPT ![m] = Append(@, n)]
       /\ UNCHANGED <<offline, passedBy, viaQueue, unsteady>>
    \/ /\ fan[a].found # 0 /\ fan[a].found = client[m] /\ Len(channelOf[m]) = FanBuffer
       /\ Skips /\ unsteady' = unsteady \cup {m}
    \/ /\ fan[a].found # 0 /\ fan[a].found # client[m]
       /\ Skips /\ UNCHANGED unsteady
    \/ /\ fan[a].found = 0 /\ packets[n].what = "post" /\ Len(offline[m]) < FanQueue
       /\ offline' = [offline EXCEPT ![m] = Append(@, n)]
       /\ viaQueue' = viaQueue \cup {<<n, m>>}
       /\ UNCHANGED <<channelOf, passedBy, unsteady>>
    \/ /\ fan[a].found = 0 /\ (packets[n].what # "post" \/ Len(offline[m]) = FanQueue)
       /\ Skips /\ UNCHANGED unsteady

\* The turn of the first member left.
HandOut(a) ==
    /\ fan[a].left # <<>> /\ fan[a].looked
    /\ SendTo(a, Head(fan[a].left))
    /\ fan' = [fan EXCEPT ![a] = Handing(@.packet, Tail(@.left))]
    /\ UNCHANGED <<kind, roster, client, fresh, drained, packets, inbox, returns, moves>>

(***************************************************************************)
(* Connections.                                                            *)
(***************************************************************************)
\* writePump writes what is next.
Written(a) ==
    /\ client[a] # 0 /\ channelOf[a] # <<>>
    /\ inbox' = [inbox EXCEPT ![a] = Append(@, Head(channelOf[a]))]
    /\ channelOf' = [channelOf EXCEPT ![a] = Tail(@)]
    /\ UNCHANGED <<kind, roster, client, fresh, drained, offline, fan, packets, passedBy,
                   viaQueue, unsteady, returns, moves>>

\* The connection ends when its handler reads again, with what is in its SendCh.  (A
\* write that fails is the beginning of that end.)
Unregister(a) ==
    /\ Reads(a) /\ returns < MaxReturns
    /\ client' = [client EXCEPT ![a] = 0] /\ returns' = returns + 1
    /\ passedBy' = passedBy \cup {<<n, a>> : n \in Range(channelOf[a])}
    /\ channelOf' = [channelOf EXCEPT ![a] = <<>>]
    /\ unsteady' = unsteady \cup {a}
    /\ UNCHANGED <<kind, roster, fresh, drained, offline, fan, packets, inbox, viaQueue, moves>>

\* handleRegister on a new connection, up to its entry in hub.clients.
Register(a) ==
    /\ client[a] = 0
    /\ client' = [client EXCEPT ![a] = returns + 1] /\ fresh' = fresh \cup {a}
    /\ UNCHANGED <<kind, roster, drained, channelOf, offline, fan, packets, inbox, passedBy, viaQueue,
                   unsteady, returns, moves>>

\* deliverQueuedMessages fetches the queue, which is never longer than a batch.
FetchQueue(a) ==
    /\ a \in fresh /\ drained[a] = <<>>
    /\ drained' = [drained EXCEPT ![a] = offline[a]] /\ offline' = [offline EXCEPT ![a] = <<>>]
    /\ fresh' = IF offline[a] = <<>> THEN fresh \ {a} ELSE fresh
    /\ UNCHANGED <<kind, roster, client, channelOf, fan, packets, inbox, passedBy, viaQueue,
                   unsteady, returns, moves>>

\* Mutant: a message that found no room is queued again and the loop goes on with it.
DeliverAndKeep(a) ==
    /\ drained[a] # <<>>
    /\ channelOf' = [channelOf EXCEPT ![a] = Append(@, Head(drained[a]))]
    /\ offline' = IF Len(channelOf[a]) < FanBuffer THEN offline
                  ELSE [offline EXCEPT ![a] = <<Head(drained[a])>> \o @]
    /\ drained' = [drained EXCEPT ![a] = Tail(@)]
    /\ fresh' = IF Len(drained[a]) = 1 THEN fresh \ {a} ELSE fresh
    /\ UNCHANGED <<kind, roster, client, fan, packets, inbox, passedBy, viaQueue, unsteady,
                   returns, moves>>

\* One message is sent.  If there is no room it is queued again, in its old place if
\* the queue takes it, and the rest of the batch is lost.
DeliverQueued(a) ==
    LET room == Len(channelOf[a]) < FanBuffer
        kept == IF room THEN {} ELSE IF Len(offline[a]) < FanQueue THEN {1} ELSE {}
        lost == IF room THEN {} ELSE DOMAIN drained[a] \ kept
    IN  /\ drained[a] # <<>>
        /\ channelOf' = IF room THEN [channelOf EXCEPT ![a] = Append(@, Head(drained[a]))] ELSE channelOf
        /\ offline' = IF kept = {} THEN offline ELSE [offline EXCEPT ![a] = <<Head(drained[a])>> \o @]
        /\ passedBy' = passedBy \cup {<<drained[a][i], a>> : i \in lost}
        /\ drained' = [drained EXCEPT ![a] = IF room THEN Tail(@) ELSE <<>>]
        /\ fresh' = IF drained'[a] = <<>> THEN fresh \ {a} ELSE fresh
        /\ UNCHANGED <<kind, roster, client, fan, packets, inbox, viaQueue, unsteady, returns, moves>>

FanNext ==
    \E a \in Agent :
        \/ JoinRoster(a) \/ LeaveRoster(a)
        \/ RouteToChannel(a) \/ SenderKeyDistribute(a) \/ ChannelDelete(a)
        \/ LookUp(a) \/ HandOut(a)
        \/ Written(a) \/ Unregister(a) \/ Register(a)
        \/ FetchQueue(a) \/ DeliverQueued(a)

Packet == 1 .. MaxFanned

FanTypeOK ==
    /\ kind \in {"group", "broadcast"} /\ Range(roster) \subseteq Agent
    /\ client \in [Agent -> 0 .. MaxReturns + 1] /\ fresh \subseteq Agent
    /\ \A a \in Agent :
          /\ Len(channelOf[a]) <= FanBuffer /\ Len(offline[a]) <= FanQueue
          /\ Range(channelOf[a]) \cup Range(offline[a]) \cup Range(drained[a])
                \cup Range(inbox[a]) \subseteq Packet
          /\ fan[a].packet \in Packet \cup {0} /\ Range(fan[a].left) \subseteq Agent
    /\ passedBy \cup viaQueue \subseteq Packet \X Agent /\ unsteady \subseteq Agent

-----------------------------------------------------------------------------
Times(n, seq) == Cardinality({i \in DOMAIN seq : seq[i] = n})
Due(n, a) == {b \in Agent : fan[b].packet = n /\ a \in Range(fan[b].left)}

\* A message, key or notice is for the members its handler has read and for nobody
\* else, whoever joins, leaves, goes or returns meanwhile: each of them has it once, or
\* will get it from the handler, its SendCh or its queue, or it has gone past them; and
\* that happens only to a member that has lost a connection or had no room.
FannedOut ==
    \A n \in DOMAIN packets, a \in Agent :
        /\ Cardinality(Due(n, a)) + Times(n, channelOf[a]) + Times(n, offline[a])
              + Times(n, drained[a]) + Times(n, inbox[a]) + Cardinality(passedBy \cap {<<n, a>>})
                = IF a \in packets[n].to THEN 1 ELSE 0
        /\ <<n, a>> \in passedBy => a \in unsteady

\* A member that receives a message has received the sender's key before it, unless the
\* key went past it or it joined after the key was handed out: the relay keeps the
\* key, and hands it to nobody later.
KeyBefore ==
    \A a \in Agent : \A i \in DOMAIN inbox[a] :
        LET sent == packets[inbox[a][i]]
        IN  sent.what = "post" /\ sent.under # 0 =>
                \/ sent.under \in Range(SubSeq(inbox[a], 1, i - 1))
                \/ <<sent.under, a>> \in passedBy \/ a \notin packets[sent.under].to

\* A member receives what one sender sent in the order it was sent, except that what
\* was queued for it may come after what was sent to its new connection.
SenderOrder ==
    \A a \in Agent : \A i, j \in DOMAIN inbox[a] :
        LET m == inbox[a][i]
            n == inbox[a][j]
        IN  i < j /\ n < m /\ packets[m].by = packets[n].by =>
                <<n, a>> \in viaQueue /\ <<m, a>> \notin viaQueue
=============================================================================
