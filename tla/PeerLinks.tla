----------------------------- MODULE PeerLinks ------------------------------
(***************************************************************************)
(* The connections of one agent that has started and listens: those its    *)
(* WebSocketListener accepts (pkg/transport/websocket.go) and those it     *)
(* dials, always the same address; the accept loop, the receive loops, the *)
(* keepalive loops, and Stop (pkg/agent/agent.go).  Start and Listen were  *)
(* given the same context.                                                 *)
(***************************************************************************)
EXTENDS Naturals, Sequences, FiniteSets

CONSTANTS
    MaxInbound,   \* bound: connections that others make
    MaxOutbound,  \* bound: connections the agent makes
    MaxLinks,     \* bound: connections in all
    ConnBuffer    \* capacity of connCh (16 in the code)

ASSUME LinksAssumption ==
    {MaxInbound, MaxOutbound, MaxLinks} \subseteq Nat /\ ConnBuffer \in Nat \ {0}

\* Connections are numbered in the order they are made, on either side.
Inbound == 1 .. MaxInbound
Outbound == MaxInbound + 1 .. MaxInbound + MaxOutbound
Link == Inbound \cup Outbound

VARIABLES
    link,       \* Link -> "none" | "open" | "closed"
    place,      \* Link -> who has it: "handler" (of the listener), "channel",
                \*   "loop" (accept), "caller" (of Connect), "peer", "lost"
    connCh,     \* accepted connections
    listening,  \* the listener is open; connCh is closed with it
    acceptLoop, \* "top" | "accept" | "select" | "add" | "ended"
    peers,      \* transports in the peers map
    reading,    \* Link -> its receive loop: "no" | "check" | "read"
    pinging,    \* dialled connections with a keepalive loop
    ended,      \* the caller's context has ended
    stop        \* Stop: "no" | "cancelled" | "unlistened" | "waiting"

linkVars == <<link, place, connCh, listening, acceptLoop, peers, reading, pinging,
              ended, stop>>

LinkInit ==
    /\ link = [l \in Link |-> "none"] /\ place = [l \in Link |-> "none"]
    /\ connCh = <<>> /\ listening = TRUE /\ acceptLoop = "top"
    /\ peers = {} /\ reading = [l \in Link |-> "no"] /\ pinging = {}
    /\ ended = FALSE /\ stop = "no"

\* Stop holds the agent's lock until it has closed the peers.
MuFree == stop \notin {"cancelled", "unlistened"}
CtxDone == ended \/ stop # "no"

\* l is the next connection of its side.
Fresh(l, side) ==
    /\ l \in side /\ link[l] = "none" /\ \A k \in side : k < l => link[k] # "none"
    /\ Cardinality({k \in Link : link[k] # "none"}) < MaxLinks

(***************************************************************************)
(* The listener                                                            *)
(***************************************************************************)

\* The HTTP handler upgrades a connection and comes to its select.  The request
\* may have come before the listener closed.
Upgrade(l) ==
    /\ Fresh(l, Inbound)
    /\ link' = [link EXCEPT ![l] = "open"] /\ place' = [place EXCEPT ![l] = "handler"]
    /\ UNCHANGED <<connCh, listening, acceptLoop, peers, reading, pinging, ended, stop>>

\* Mutant of HandOver: a connection that does not fit is dropped.
HandOverOrDrop(l) ==
    /\ place[l] = "handler"
    /\ \/ /\ listening /\ Len(connCh) < ConnBuffer
          /\ connCh' = Append(connCh, l) /\ place' = [place EXCEPT ![l] = "channel"]
          /\ UNCHANGED link
       \/ /\ ~listening \/ Len(connCh) = ConnBuffer
          /\ place' = [place EXCEPT ![l] = "lost"] /\ UNCHANGED <<connCh, link>>
       \/ /\ ended
          /\ link' = [link EXCEPT ![l] = "closed"] /\ place' = [place EXCEPT ![l] = "lost"]
          /\ UNCHANGED connCh
    /\ UNCHANGED <<listening, acceptLoop, peers, reading, pinging, ended, stop>>

\* The select: there is room, or the context ends.  When the channel is closed the
\* handler panics, which net/http recovers, and the connection stays open.
HandOver(l) ==
    /\ place[l] = "handler"
    /\ \/ /\ listening /\ Len(connCh) < ConnBuffer
          /\ connCh' = Append(connCh, l) /\ place' = [place EXCEPT ![l] = "channel"]
          /\ UNCHANGED link
       \/ /\ ~listening
          /\ place' = [place EXCEPT ![l] = "lost"] /\ UNCHANGED <<connCh, link>>
       \/ /\ ended
          /\ link' = [link EXCEPT ![l] = "closed"] /\ place' = [place EXCEPT ![l] = "lost"]
          /\ UNCHANGED connCh
    /\ UNCHANGED <<listening, acceptLoop, peers, reading, pinging, ended, stop>>

(***************************************************************************)
(* acceptLoop                                                              *)
(***************************************************************************)

LoopTop ==
    /\ acceptLoop = "top" /\ (ended \/ MuFree)
    /\ acceptLoop' = IF ended \/ stop = "waiting" THEN "ended" ELSE "accept"
    /\ UNCHANGED <<link, place, connCh, listening, peers, reading, pinging, ended, stop>>

\* Accept checks the flag, unlocks, and waits.
Accept ==
    /\ acceptLoop = "accept"
    /\ acceptLoop' = IF listening THEN "select" ELSE "ended"
    /\ UNCHANGED <<link, place, connCh, listening, peers, reading, pinging, ended, stop>>

\* A closed channel still gives what is in it.
AcceptReturns ==
    /\ acceptLoop = "select"
    /\ \/ /\ connCh # <<>>
          /\ place' = [place EXCEPT ![Head(connCh)] = "loop"] /\ connCh' = Tail(connCh)
          /\ acceptLoop' = "add"
       \/ /\ ended \/ (connCh = <<>> /\ ~listening)
          /\ acceptLoop' = "ended" /\ UNCHANGED <<place, connCh>>
    /\ UNCHANGED <<link, listening, peers, reading, pinging, ended, stop>>

StartPeer(l) ==
    /\ place' = [place EXCEPT ![l] = "peer"]
    /\ reading' = [reading EXCEPT ![l] = "check"]

AddAccepted ==
    /\ acceptLoop = "add" /\ MuFree
    /\ \E l \in Link : place[l] = "loop" /\ StartPeer(l) /\ peers' = peers \cup {l}
    /\ acceptLoop' = "top"
    /\ UNCHANGED <<link, connCh, listening, pinging, ended, stop>>

(***************************************************************************)
(* Connect, receiveLoop, pingLoop                                          *)
(***************************************************************************)

\* WebSocketTransport.Connect dials and starts the keepalive loop.
Dial(l) ==
    /\ Fresh(l, Outbound)
    /\ link' = [link EXCEPT ![l] = "open"] /\ place' = [place EXCEPT ![l] = "caller"]
    /\ pinging' = pinging \cup {l}
    /\ UNCHANGED <<connCh, listening, acceptLoop, peers, reading, ended, stop>>

\* The new transport replaces an older one of the same address in the map.
AddDialed(l) ==
    /\ place[l] = "caller" /\ MuFree
    /\ StartPeer(l) /\ peers' = (peers \ Outbound) \cup {l}
    /\ UNCHANGED <<link, connCh, listening, acceptLoop, pinging, ended, stop>>

\* Inbound transports leave the map with their receive loop.
ReceiveEnds(l) ==
    /\ l \in Inbound => MuFree
    /\ reading' = [reading EXCEPT ![l] = "no"]
    /\ peers' = peers \ ({l} \cap Inbound)

ReceiveLoop(l) ==
    /\ \/ /\ reading[l] = "check"
          /\ \/ CtxDone /\ ReceiveEnds(l)
             \/ ~CtxDone /\ reading' = [reading EXCEPT ![l] = "read"] /\ UNCHANGED peers
          /\ UNCHANGED link
       \/ /\ reading[l] = "read" /\ (link[l] = "closed" \/ CtxDone)
          /\ link' = [link EXCEPT ![l] = "closed"] /\ ReceiveEnds(l)
    /\ UNCHANGED <<place, connCh, listening, acceptLoop, pinging, ended, stop>>

MessageArrives(l) ==
    /\ reading[l] = "read" /\ link[l] = "open"
    /\ reading' = [reading EXCEPT ![l] = "check"]
    /\ UNCHANGED <<link, place, connCh, listening, acceptLoop, peers, pinging, ended, stop>>

\* stopPing is closed, or a keepalive cannot be written.
PingEnds(l) ==
    /\ l \in pinging /\ link[l] = "closed" /\ pinging' = pinging \ {l}
    /\ UNCHANGED <<link, place, connCh, listening, acceptLoop, peers, reading, ended, stop>>

PeerLeaves(l) ==
    /\ link[l] = "open" /\ link' = [link EXCEPT ![l] = "closed"]
    /\ UNCHANGED <<place, connCh, listening, acceptLoop, peers, reading, pinging, ended, stop>>

ContextEnds ==
    /\ ~ended /\ ended' = TRUE
    /\ UNCHANGED <<link, place, connCh, listening, acceptLoop, peers, reading, pinging, stop>>

(***************************************************************************)
(* Stop                                                                    *)
(***************************************************************************)

StopCancels ==
    /\ stop = "no" /\ stop' = "cancelled"
    /\ UNCHANGED <<link, place, connCh, listening, acceptLoop, peers, reading, pinging, ended>>

\* Mutant of CloseListener: the channel stays open.
CloseListenerOnly ==
    /\ stop = "cancelled" /\ stop' = "unlistened"
    /\ UNCHANGED <<link, place, connCh, listening, acceptLoop, peers, reading, pinging, ended>>

\* WebSocketListener.Close: what waits in the channel is not closed.
CloseListener ==
    /\ stop = "cancelled" /\ stop' = "unlistened" /\ listening' = FALSE
    /\ UNCHANGED <<link, place, connCh, acceptLoop, peers, reading, pinging, ended>>

\* Stop closes the transports in the map, unlocks and waits for the goroutines.
ClosePeers ==
    /\ stop = "unlistened" /\ stop' = "waiting"
    /\ link' = [l \in Link |-> IF l \in peers THEN "closed" ELSE link[l]]
    /\ peers' = {}
    /\ UNCHANGED <<place, connCh, listening, acceptLoop, reading, pinging, ended>>

LinkNext ==
    \/ \E l \in Link :
          \/ Upgrade(l) \/ HandOver(l) \/ Dial(l) \/ AddDialed(l)
          \/ ReceiveLoop(l) \/ MessageArrives(l) \/ PingEnds(l) \/ PeerLeaves(l)
    \/ LoopTop \/ Accept \/ AcceptReturns \/ AddAccepted
    \/ ContextEnds \/ StopCancels \/ CloseListener \/ ClosePeers

(***************************************************************************)
(* Properties                                                              *)
(***************************************************************************)

LinkTypeOK ==
    /\ link \in [Link -> {"none", "open", "closed"}]
    /\ place \in [Link -> {"none", "handler", "channel", "loop", "caller", "peer", "lost"}]
    /\ connCh \in Seq(Link) /\ Len(connCh) <= ConnBuffer
    /\ acceptLoop \in {"top", "accept", "select", "add", "ended"}
    /\ peers \subseteq Link /\ reading \in [Link -> {"no", "check", "read"}]
    /\ pinging \subseteq Outbound /\ {listening, ended} \subseteq BOOLEAN
    /\ stop \in {"no", "cancelled", "unlistened", "waiting"}

\* Until the agent stops or its context ends it loses sight of no connection: one
\* that is open waits for the accept loop, once, or is in the hands of one
\* goroutine, or has a receive loop and, if nothing replaced it, a place in the
\* peers map, from which Stop will close it.
LinksHeld ==
    ~CtxDone =>
        \A l \in Link :
            /\ link[l] = "open" => place[l] # "lost"
            /\ place[l] = "channel" <=> \E i \in DOMAIN connCh : connCh[i] = l
            /\ \A i, j \in DOMAIN connCh : connCh[i] = connCh[j] => i = j
            /\ link[l] = "open" /\ place[l] = "peer" =>
                  reading[l] # "no" /\ (l \in peers \/ (l \in Outbound /\ peers \cap Outbound # {}))
            /\ link[l] = "open" /\ l \in Outbound => l \in pinging

\* Once Stop has closed the listener and the peers, the accept loop and every
\* receive loop end, also those of connections that came in at the last moment, and
\* so do the keepalive loops of the connections that are closed: Stop need not run
\* into its timeout.
LoopsEnd ==
    /\ stop = "waiting" ~> acceptLoop = "ended" /\ \A l \in Link : reading[l] = "no"
    /\ []<>(\A l \in pinging : link[l] = "open")
=============================================================================
