----------------------------- MODULE MCServices -----------------------------
(***************************************************************************)
(* Services around the hub for TLC: an agent's requests, its connections,  *)
(* the other transports, channels, what their members receive, presence,   *)
(* typing.                                                                 *)
(* They share nothing here, so a behaviour exercises one of them, `part'.  *)
(***************************************************************************)
EXTENDS AgentRequests, PeerLinks, Streams, Channels, ChannelFanout,
    Presence, TLC

CONSTANTS ann, bob, cat, c1, c2, k1, k2, l1, l2, l3

VARIABLE part

\* A request to an agent, and one to the relay; two channels with one name; two
\* connections with one DID.
SomeCallers == c1 :> ann @@ c2 :> ann
SomeCallees == c1 :> bob @@ c2 :> Relay
SomeNames == k1 :> "news" @@ k2 :> "news"
SomeLines == l1 :> ann @@ l2 :> ann @@ l3 :> bob

\* Events with empty lines around the data, without an ID, and without data.
SomeEvents == {[id |-> "1", data |-> <<"", "x", "">>], [id |-> "", data |-> <<"x">>],
               [id |-> "2", data |-> <<"">>]}

\* JSON with and without white space, and text with a line end in it.
SomeJson == {<<"x">>, <<"x", " ", "newline", "x">>}
SomeTexts == SomeJson \cup {<<"newline", "x">>}

vars == <<agentVars, linkVars, streamVars, stdioVars, chanVars, fanVars, presVars, typingVars, part>>

Init ==
    /\ AgentInit /\ LinkInit /\ StreamInit /\ StdioInit /\ ChanInit /\ FanInit
    /\ PresInit /\ TypingInit
    /\ part \in {"agent", "links", "stream", "stdio", "channels", "fanout", "presence", "typing"}
    /\ part # "stdio" => framing = "length"
    /\ part # "fanout" => kind = "group"
    /\ part # "agent" => \A c \in Call : at[c] = "returned" /\ known[CallerOf[c]] = {}

InAgent ==
    part = "agent" /\ UNCHANGED <<linkVars, streamVars, stdioVars, chanVars, fanVars, presVars, typingVars, part>>
InLinks ==
    part = "links" /\ UNCHANGED <<agentVars, streamVars, stdioVars, chanVars, fanVars, presVars, typingVars, part>>
InStream ==
    part = "stream" /\ UNCHANGED <<agentVars, linkVars, stdioVars, chanVars, fanVars, presVars, typingVars, part>>
InStdio ==
    part = "stdio" /\ UNCHANGED <<agentVars, linkVars, streamVars, chanVars, fanVars, presVars, typingVars, part>>
InChannels ==
    part = "channels" /\ UNCHANGED <<agentVars, linkVars, streamVars, stdioVars, fanVars, presVars, typingVars, part>>
InFanout ==
    part = "fanout" /\ UNCHANGED <<agentVars, linkVars, streamVars, stdioVars, chanVars, presVars, typingVars, part>>
InPresence ==
    part = "presence" /\ UNCHANGED <<agentVars, linkVars, streamVars, stdioVars, chanVars, fanVars, typingVars, part>>
InTyping ==
    part = "typing" /\ UNCHANGED <<agentVars, linkVars, streamVars, stdioVars, chanVars, fanVars, presVars, part>>

Next ==
    \/ InAgent /\ AgentNext
    \/ InLinks /\ LinkNext
    \/ InStream /\ StreamNext
    \/ InStdio /\ StdioNext
    \/ InChannels /\ ChanNext
    \/ InFanout /\ FanNext
    \/ InPresence /\ PresNext
    \/ InTyping /\ TypingNext

\* The maps, channels and goroutines of the services keep their types.
TypesOK ==
    /\ AgentTypeOK /\ LinkTypeOK /\ StreamTypeOK /\ StdioTypeOK
    /\ ChanTypeOK /\ FanTypeOK /\ PresTypeOK

Proceed(c) ==
    Transmit(c) \/ Wake(c) \/ EndPause(c) \/ (try[c] > 1 /\ RegisterCall(c))

\* While a goroutine of an agent can go on, one of them does; a pause ends, and Stop
\* goes on after it has unlocked; a keepalive is due some time.  Nothing is asked of
\* the network or of a caller's deadline.  (A behaviour has one part, so fairness to
\* an action of two parts is fairness to each, and only variables of a part change.)
Spec ==
    /\ Init /\ [][Next]_vars
    /\ WF_<<agentVars, linkVars>>(
           \/ /\ part = "agent" /\ UNCHANGED linkVars
              /\ \/ \E c \in Call : Proceed(c)
                 \/ \E a \in Peer : DrainPendingChannels(a)
                 \/ \E t \in tasks : Handle(t)
           \/ /\ part = "links" /\ UNCHANGED agentVars
              /\ \/ LoopTop \/ Accept \/ AcceptReturns \/ AddAccepted
                 \/ CloseListener \/ ClosePeers)
    /\ WF_linkVars(part = "links" /\ \E l \in Link : ReceiveLoop(l))
    /\ WF_linkVars(part = "links" /\ \E l \in Link : PingEnds(l))

\* Stop of an agent leaves no caller waiting and no loop running (StopReleases,
\* LoopsEnd).
StopsClean == StopReleases /\ LoopsEnd

\* The channel store is consistent (ChannelsSound), and its members are those whose
\* requests were answered (MembersAsTold), up to requests that overlap.  They receive
\* what is sent to the channel once and in order, keys before messages, except where
\* connections or room were missing (FannedOut, KeyBefore, SenderOrder).
ChannelsAsTold == ChannelsSound /\ MembersAsTold /\ FannedOut /\ KeyBefore /\ SenderOrder
=============================================================================
