------------------------------ MODULE Channels ------------------------------
(***************************************************************************)
(* Channels of the relay: cmd/relay/channel.go over the MemoryChannelStore *)
(* of pkg/registry.  Every client has a goroutine that runs its requests   *)
(* one by one.  A request reads a copy of the channel, changes the copy    *)
(* and stores it; the store has no lock.  Deliveries to members are those  *)
(* of RelayHub and are left out.                                           *)
(***************************************************************************)
EXTENDS Naturals, FiniteSets, Functions

CONSTANTS
    DID,            \* registered clients
    ChanId,         \* UUIDs of the channels that may be created
    NameOf,         \* their names
    NoChannel,
    MaxRequests     \* bound on the requests of a client

ASSUME ChannelAssumption == NoChannel \notin ChanId

VARIABLES
    chans,      \* channels: ID -> owner and members; a member has a key or not
    byName,     \* name -> ID
    step,       \* what a client's goroutine does next
    copy,       \* the copy of a channel it works on
    requests,   \* how many requests it made
    used,       \* IDs drawn
    told,       \* history: the members as clients were told
    overlapped  \* history: channels with a copy that was out of date

chanVars == <<chans, byName, step, copy, requests, used, told, overlapped>>

Idle == [at |-> "idle", op |-> "none", id |-> NoChannel]
Nothing == [x \in {} |-> x]
NoCopy == [owner |-> NoChannel, members |-> Nothing]

ChanInit ==
    /\ chans = Nothing /\ byName = Nothing
    /\ step = [d \in DID |-> Idle]
    /\ copy = [d \in DID |-> NoCopy]
    /\ requests = [d \in DID |-> 0]
    /\ used = {} /\ told = Nothing /\ overlapped = {}

Without(f, x) == Restrict(f, DOMAIN f \ {x})
With(f, x, v) == [y \in DOMAIN f \cup {x} |-> IF y = x THEN v ELSE f[y]]

Begin(d, op, id) ==
    /\ step[d] = Idle /\ requests[d] < MaxRequests
    /\ op = "create" => id \notin used
    /\ step' = [step EXCEPT ![d] = [at |-> IF op = "create" THEN "create" ELSE "get",
                                    op |-> op, id |-> id]]
    /\ requests' = [requests EXCEPT ![d] = @ + 1]
    /\ used' = IF op = "create" THEN used \cup {id} ELSE used
    /\ UNCHANGED <<chans, byName, copy, told, overlapped>>

End(d) ==
    /\ step' = [step EXCEPT ![d] = Idle]
    /\ copy' = [copy EXCEPT ![d] = NoCopy]

CreateChannel(d) ==
    LET id == step[d].id
        new == With(Nothing, d, FALSE)
    IN  /\ step[d].at = "create"
        /\ IF NameOf[id] \in DOMAIN byName
           THEN UNCHANGED <<chans, byName, told>>
           ELSE /\ chans' = With(chans, id, [owner |-> d, members |-> new])
                /\ byName' = With(byName, NameOf[id], id)
                /\ told' = With(told, id, new)
        /\ End(d)
        /\ UNCHANGED <<requests, used, overlapped>>

AddMember(members, d) == With(members, d, FALSE)
RemoveMember(members, d) == Without(members, d)
SetSenderKey(members, d) == With(members, d, TRUE)

\* What a handler makes of the channel it has read: the copy it will store, or
\* nothing if it answers at once.
Join(d, ch) ==
    IF d \in DOMAIN ch.members THEN {} ELSE {[ch EXCEPT !.members = AddMember(@, d)]}

Leave(d, ch) ==
    IF ch.owner = d \/ d \notin DOMAIN ch.members THEN {}
    ELSE {[ch EXCEPT !.members = RemoveMember(@, d)]}

DistributeSenderKey(d, ch) ==
    IF d \notin DOMAIN ch.members THEN {} ELSE {[ch EXCEPT !.members = SetSenderKey(@, d)]}

Delete(d, ch) == IF ch.owner # d THEN {} ELSE {ch}

Outcome(d, op, ch) ==
    CASE op = "join"   -> Join(d, ch)
      [] op = "leave"  -> Leave(d, ch)
      [] op = "key"    -> DistributeSenderKey(d, ch)
      [] op = "delete" -> Delete(d, ch)

\* What the client has been told, if its request is answered with success.
Announce(d, id) ==
    LET ch == [owner |-> chans[id].owner, members |-> told[id]]
    IN  told' = [told EXCEPT ![id] =
            IF Outcome(d, step[d].op, ch) = {} THEN @
            ELSE (CHOOSE c \in Outcome(d, step[d].op, ch) : TRUE).members]

GetChannel(d) ==
    LET id == step[d].id
        op == step[d].op
        outcome == IF id \in DOMAIN chans THEN Outcome(d, op, chans[id]) ELSE {}
    IN  /\ step[d].at = "get"
        /\ \/ outcome = {} /\ End(d)
           \/ \E ch \in outcome :
                 /\ copy' = [copy EXCEPT ![d] = ch]
                 /\ step' = [step EXCEPT ![d].at = IF op = "delete" THEN "delete" ELSE "update"]
        /\ UNCHANGED <<chans, byName, requests, used, told, overlapped>>

\* Mutant: a deleted channel is stored again.
UpdateAnyway(d) ==
    /\ step[d].at = "update"
    /\ chans' = With(chans, step[d].id, copy[d])
    /\ End(d)
    /\ UNCHANGED <<byName, requests, used, told, overlapped>>

\* Mutant: the members are copied without their sender keys.
UpdateWithoutKeys(d) ==
    LET id == step[d].id
        others == {e \in DID \ {d} : step[e].at = "update" /\ step[e].id = id}
    IN  /\ step[d].at = "update"
        /\ IF id \in DOMAIN chans
           THEN /\ chans' = [chans EXCEPT ![id] =
                       [copy[d] EXCEPT !.members = [m \in DOMAIN @ |-> FALSE]]]
                /\ Announce(d, id)
                /\ overlapped' = IF others = {} THEN overlapped ELSE overlapped \cup {id}
           ELSE UNCHANGED <<chans, told, overlapped>>
        /\ End(d)
        /\ UNCHANGED <<byName, requests, used>>

UpdateChannel(d) ==
    LET id == step[d].id
        others == {e \in DID \ {d} : step[e].at = "update" /\ step[e].id = id}
    IN  /\ step[d].at = "update"
        /\ IF id \in DOMAIN chans
           THEN /\ chans' = [chans EXCEPT ![id] = copy[d]]
                /\ Announce(d, id)
                /\ overlapped' = IF others = {} THEN overlapped ELSE overlapped \cup {id}
           ELSE UNCHANGED <<chans, told, overlapped>>
        /\ End(d)
        /\ UNCHANGED <<byName, requests, used>>

DeleteChannel(d) ==
    LET id == step[d].id
    IN  /\ step[d].at = "delete"
        /\ IF id \in DOMAIN chans
           THEN chans' = Without(chans, id) /\ byName' = Without(byName, NameOf[id])
           ELSE UNCHANGED <<chans, byName>>
        /\ End(d)
        /\ UNCHANGED <<requests, used, told, overlapped>>

\* A map that is written while another goroutine reads or writes it may end the
\* process.  The channels were in memory only.
Race ==
    /\ \E d, e \in DID :
          /\ d # e
          /\ step[d].at \in {"create", "update", "delete"}
          /\ step[e].at \in {"create", "update", "delete", "get"}
    /\ chans' = Nothing /\ byName' = Nothing
    /\ step' = [d \in DID |-> Idle] /\ copy' = [d \in DID |-> NoCopy]
    /\ UNCHANGED <<requests, used, told, overlapped>>

ChanNext ==
    \/ \E d \in DID :
          \/ \E op \in {"create", "join", "leave", "key", "delete"}, id \in ChanId : Begin(d, op, id)
          \/ CreateChannel(d) \/ GetChannel(d) \/ UpdateChannel(d) \/ DeleteChannel(d)
    \/ Race

\* What relay.channel.list and relay.channel.members answer.
ListChannels(d) == {id \in DOMAIN chans : d \in DOMAIN chans[id].members}
ListMembers(id) == chans[id].members

Members == UNION {[S -> BOOLEAN] : S \in SUBSET DID}

ChanTypeOK ==
    /\ DOMAIN chans \subseteq used /\ used \subseteq ChanId
    /\ \A id \in DOMAIN chans : chans[id].owner \in DID /\ chans[id].members \in Members
    /\ \A d \in DID : step[d].id \in ChanId \cup {NoChannel} /\ copy[d].members \in Members

-----------------------------------------------------------------------------
\* The two maps of MemoryChannelStore name the same channels, and a channel's
\* owner is one of its members: an update that arrives after a delete, or a
\* leave and a join at once, brings no half of a channel back.
ChannelsSound ==
    /\ \A id \in DOMAIN chans :
          /\ NameOf[id] \in DOMAIN byName /\ byName[NameOf[id]] = id
          /\ id \in ListChannels(chans[id].owner)
    /\ \A n \in DOMAIN byName : byName[n] \in DOMAIN chans

\* A member of a channel, with or without a sender key, is who was told so:
\* joins, leaves and keys are lost only where two requests overlapped between
\* GetChannel and UpdateChannel.
MembersAsTold ==
    \A id \in DOMAIN chans \ overlapped : ListMembers(id) = told[id]
=============================================================================
