------------------------------ MODULE PeerKeys ------------------------------
(***************************************************************************)
(* How two agents come to know each other's keys, and what becomes of the  *)
(* messages one sends the other: registration with the relay, the          *)
(* announcement it broadcasts, discovery at the start and on demand        *)
(* (cmd/relay/client.go, pkg/agent/agent.go, pkg/agent/peer_resolve.go).   *)
(*                                                                         *)
(* An agent that ends is started anew, with an empty store of its own, a   *)
(* new record, and the identity of its file or else a new one.  A key      *)
(* stands for the pair of a signing and an encryption key.  Every frame an *)
(* agent receives is handled in a goroutine of its own, so frames that are *)
(* on the way are a set.                                                   *)
(***************************************************************************)
EXTENDS Naturals, Sequences

CONSTANTS
    Setup,       \* configurations: [keeps, the agents whose identity file can be read back
                 \*   (it is there, and its one write was not cut short); pins, PinDIDKeys;
                 \*   inMemory, the relay has a MemoryStore; discovers, the agents that
                 \*   look for their peers when they start]
    OwnStarts,   \* bound: launches of an agent
    AllStarts,   \* bound: launches of both
    MaxSent      \* bound: messages sent

ASSUME PeerKeysAssumption == {OwnStarts, AllStarts, MaxSent} \subseteq Nat

VARIABLES
    setup,       \* the member of Setup in force
    launches,    \* agent -> launches so far
    phase,       \* agent -> "down" | "joining" | "joined" | "listing" | "ready"
    knows,       \* agent -> the key of the other in its own store, or 0
    joining,     \* registrations between checkPinnedKey and Put
    listed,      \* the relay's records: [of, start, key]
    newest,      \* agent -> the record GetByDID finds, or NoRecord
    toward,      \* agent -> frames on the way to it
    waiting,     \* messages the relay keeps for the receiver
    work,        \* messages the receiver is handling: [msg, at, list]
    signed,      \* messages sent
    fate,        \* message -> "open" | "handled" | "unknown" | "refused"
    behind,      \* agents that have missed, or misordered, what the relay said
    doubled      \* two registrations of one agent were under way

relaySide == <<joining, listed, newest>>
agentSide == <<launches, phase, knows>>
messageSide == <<toward, waiting, work, signed, fate>>
peerKeyVars == <<setup, relaySide, agentSide, messageSide, behind, doubled>>

Peers == {"sender", "receiver"}
Other(a) == CHOOSE b \in Peers : b # a
NoRecord == [of |-> "none", start |-> 0, key |-> 0]

\* The identity of an agent: that of its first start, or one as new as its start.
OwnKey(a) == IF a \in setup.keeps THEN 1 ELSE launches[a]
RecordOf(a) == [of |-> a, start |-> launches[a], key |-> OwnKey(a)]
Joined(a) == phase[a] \in {"joined", "listing", "ready"}

Announcements(a) == {f \in toward[a] : f.kind = "announce"}
Lists(a) == {f \in toward[a] : f.kind = "list"}

PeerKeyInit ==
    /\ setup \in Setup
    /\ launches = [a \in Peers |-> 0] /\ phase = [a \in Peers |-> "down"]
    /\ knows = [a \in Peers |-> 0]
    /\ joining = {} /\ listed = {} /\ newest = [a \in Peers |-> NoRecord]
    /\ toward = [a \in Peers |-> {}] /\ waiting = {} /\ work = {}
    /\ signed = <<>> /\ fate = [m \in 1 .. MaxSent |-> "open"]
    /\ behind = {} /\ doubled = FALSE

(***************************************************************************)
(* The agents' lives                                                       *)
(***************************************************************************)

\* LoadFromFile, or NewIdentity and SaveToFile; then New, Start and Connect.
StartAnew(a) ==
    /\ phase[a] = "down" /\ launches[a] < OwnStarts
    /\ launches["sender"] + launches["receiver"] < AllStarts
    /\ launches' = [launches EXCEPT ![a] = @ + 1]
    /\ phase' = [phase EXCEPT ![a] = "joining"]
    /\ behind' = behind \ {a}
    /\ UNCHANGED <<setup, relaySide, knows, messageSide, doubled>>

\* What it knew, and what was on the way to it, or in its hands, is gone.
Gone(a) ==
    /\ phase' = [phase EXCEPT ![a] = "down"]
    /\ toward' = [toward EXCEPT ![a] = {}] /\ knows' = [knows EXCEPT ![a] = 0]
    /\ work' = IF a = "receiver" THEN {} ELSE work

EndAgent(a) ==
    /\ phase[a] # "down" /\ Gone(a)
    /\ UNCHANGED <<setup, relaySide, launches, waiting, signed, fate, behind, doubled>>

(***************************************************************************)
(* handleRegister                                                          *)
(***************************************************************************)

\* Mutant of checkPinnedKey: every key will do.
AcceptAnyKey(r) == TRUE

checkPinnedKey(r) == newest[r.of] # NoRecord => newest[r.of].key = r.key

\* The registration up to Put; one that is refused ends the program.
CheckRegistration(a) ==
    /\ phase[a] = "joining" /\ RecordOf(a) \notin joining
    /\ \/ /\ setup.pins => checkPinnedKey(RecordOf(a))
          /\ joining' = joining \cup {RecordOf(a)}
          /\ doubled' = (doubled \/ \E r \in joining : r.of = a)
          /\ UNCHANGED <<phase, toward, knows, work>>
       \/ /\ setup.pins /\ ~checkPinnedKey(RecordOf(a)) /\ Gone(a)
          /\ UNCHANGED <<joining, doubled>>
    /\ UNCHANGED <<setup, listed, newest, launches, waiting, signed, fate, behind>>

\* Put, the announcement to the other agent, the result, and the messages that
\* waited.  The handler goes on when its agent has ended meanwhile.
StoreRegistration(r) ==
    LET a == r.of  b == Other(a)  alive == phase[a] = "joining" /\ r = RecordOf(a)
        told == IF phase[b] # "down" THEN {[kind |-> "announce", key |-> r.key, start |-> r.start]}
                ELSE {}
    IN  /\ r \in joining
        /\ joining' = joining \ {r}
        /\ listed' = {s \in listed : setup.inMemory \/ s.of # a} \cup {r}
        /\ newest' = [newest EXCEPT ![a] = r]
        /\ phase' = [phase EXCEPT ![a] = CASE ~alive -> @
                                           [] alive /\ a \in setup.discovers -> "joined"
                                           [] OTHER -> "ready"]
        /\ behind' = behind \cup {c \in {b} : r.start < newest[a].start}
        /\ IF alive /\ a = "receiver"
           THEN /\ waiting' = {}
                /\ toward' = [toward EXCEPT ![a] = @ \cup waiting, ![b] = @ \cup told]
           ELSE toward' = [toward EXCEPT ![b] = @ \cup told] /\ UNCHANGED waiting
        /\ UNCHANGED <<setup, launches, knows, work, signed, fate, doubled>>

(***************************************************************************)
(* What the agents learn                                                   *)
(***************************************************************************)

\* handleNotification: an announced record is put, whatever was there.
HandleAnnounce(a) ==
    \E f \in Announcements(a) :
        /\ toward' = [toward EXCEPT ![a] = @ \ {f}]
        /\ knows' = [knows EXCEPT ![a] = f.key]
        /\ behind' = IF f.start < newest[Other(a)].start THEN behind \cup {a} ELSE behind
        /\ UNCHANGED <<setup, relaySide, launches, phase, waiting, work, signed, fate, doubled>>

\* Broadcast passes over a client whose buffer is full.
AnnounceDropped(a) ==
    \E f \in Announcements(a) :
        /\ toward' = [toward EXCEPT ![a] = @ \ {f}]
        /\ behind' = behind \cup {a}
        /\ UNCHANGED <<setup, relaySide, agentSide, waiting, work, signed, fate, doubled>>

\* handleDiscover for an agent that starts; one that is refused goes on without.
Discover(a) ==
    /\ phase[a] = "joined"
    /\ \/ /\ phase' = [phase EXCEPT ![a] = "listing"]
          /\ toward' = [toward EXCEPT ![a] = @ \cup {[kind |-> "list", records |-> listed]}]
       \/ phase' = [phase EXCEPT ![a] = "ready"] /\ UNCHANGED toward
    /\ UNCHANGED <<setup, relaySide, launches, knows, waiting, work, signed, fate, behind, doubled>>

\* AddPeer with a record of the list, which a MemoryStore gives in any order and
\* with the records of earlier starts.
AddPeer(a, list) ==
    LET own == {r \in list : r.of = Other(a)}
    IN  /\ \E r \in own : knows' = [knows EXCEPT ![a] = r.key]
        /\ behind' = IF own = {newest[Other(a)]} THEN behind ELSE behind \cup {a}

\* The program adds every peer of the list; the last one of a DID stays.
DiscoverReturns(a) ==
    \E f \in Lists(a) :
        /\ toward' = [toward EXCEPT ![a] = @ \ {f}]
        /\ phase' = [phase EXCEPT ![a] = "ready"]
        /\ IF \E r \in f.records : r.of = Other(a) THEN AddPeer(a, f.records)
           ELSE UNCHANGED <<knows, behind>>
        /\ UNCHANGED <<setup, relaySide, launches, waiting, work, signed, fate, doubled>>

(***************************************************************************)
(* Messages                                                                *)
(***************************************************************************)

\* encryptMessageBody with the key the sender has, if it has one (an agent that
\* requires encryption sends nothing otherwise).
encryptMessageBody == knows["sender"]

\* A message is encrypted, then signed.
SignedMessage ==
    [kind |-> "message", n |-> Len(signed) + 1, by |-> launches["sender"], key |-> OwnKey("sender"),
     sealed |-> encryptMessageBody, was |-> newest["receiver"].start]

\* Send, Notify, SendAsync, SendChat and SendChatReply; the relay forwards the message or
\* keeps it.
SendSigned ==
    LET m == SignedMessage
    IN  /\ phase["sender"] = "ready" /\ Len(signed) < MaxSent /\ newest["receiver"] # NoRecord
        /\ signed' = Append(signed, m)
        /\ IF Joined("receiver")
           THEN toward' = [toward EXCEPT !["receiver"] = @ \cup {m}] /\ UNCHANGED waiting
           ELSE waiting' = waiting \cup {m} /\ UNCHANGED toward
        /\ behind' = IF Announcements("sender") # {} THEN behind \cup {"sender"} ELSE behind
        /\ UNCHANGED <<setup, relaySide, agentSide, work, fate, doubled>>

\* handleRequest up to the signature.
TakeMessage ==
    \E m \in toward["receiver"] :
        /\ m.kind = "message"
        /\ toward' = [toward EXCEPT !["receiver"] = @ \ {m}]
        /\ work' = work \cup {[msg |-> m, at |-> "verify", list |-> {}]}
        /\ UNCHANGED <<setup, relaySide, agentSide, waiting, signed, fate, behind, doubled>>

NextStage(w, s, l) == work' = (work \ {w}) \cup {[w EXCEPT !.at = s, !.list = l]} /\ UNCHANGED fate
Answered(w, f) == work' = work \ {w} /\ fate' = [fate EXCEPT ![w.msg.n] = f]

\* Mutant of verifyMessageSignature: an unknown sender is not looked up.
VerifyKnown(w) ==
    \/ knows["receiver"] = 0 /\ Answered(w, "refused") /\ UNCHANGED behind
    \/ knows["receiver"] = w.msg.key /\ NextStage(w, "decrypt", {}) /\ UNCHANGED behind
    \/ /\ knows["receiver"] \notin {0, w.msg.key} /\ Answered(w, "refused")
       /\ behind' = IF Announcements("receiver") # {} THEN behind \cup {"receiver"} ELSE behind

\* With the key in the store at this moment.  An announcement on the way is overtaken.
verifyMessageSignature(w) ==
    \/ knows["receiver"] = 0 /\ NextStage(w, "resolve", {}) /\ UNCHANGED behind
    \/ knows["receiver"] = w.msg.key /\ NextStage(w, "decrypt", {}) /\ UNCHANGED behind
    \/ /\ knows["receiver"] \notin {0, w.msg.key} /\ Answered(w, "refused")
       /\ behind' = IF Announcements("receiver") # {} THEN behind \cup {"receiver"} ELSE behind

\* The store is read again; what was encrypted for another key does not open.
decryptMessageBody(w) ==
    /\ Answered(w, IF w.msg.sealed = 0 \/ (w.msg.sealed = OwnKey("receiver")
                                           /\ w.msg.key = knows["receiver"])
                   THEN "handled" ELSE "refused")
    /\ UNCHANGED behind

\* resolvePeer: the relay reads its list, or refuses to.
ResolveAsks(w) ==
    /\ \/ NextStage(w, "listed", listed)
       \/ Answered(w, "unknown")
    /\ UNCHANGED <<knows, behind>>

\* Its first record of the sender is added, and the signature is checked after all.
ResolveReturns(w) == NextStage(w, "verify", {}) /\ AddPeer("receiver", w.list)

HandleMessage ==
    /\ \E w \in work :
          \/ w.at = "verify" /\ verifyMessageSignature(w) /\ UNCHANGED knows
          \/ w.at = "decrypt" /\ decryptMessageBody(w) /\ UNCHANGED knows
          \/ w.at = "resolve" /\ ResolveAsks(w)
          \/ w.at = "listed" /\ ResolveReturns(w)
    /\ UNCHANGED <<setup, relaySide, launches, phase, toward, waiting, signed, doubled>>

PeerKeyNext ==
    \/ \E a \in Peers :
          \/ StartAnew(a) \/ EndAgent(a) \/ CheckRegistration(a) \/ HandleAnnounce(a)
          \/ AnnounceDropped(a) \/ Discover(a) \/ DiscoverReturns(a)
    \/ \E r \in joining : StoreRegistration(r)
    \/ SendSigned \/ TakeMessage \/ HandleMessage

PeerKeySpec == PeerKeyInit /\ [][PeerKeyNext]_peerKeyVars

(***************************************************************************)
(* Properties                                                              *)
(***************************************************************************)

PeerKeyTypeOK ==
    /\ \A a \in Peers :
          /\ launches[a] \in 0 .. OwnStarts /\ knows[a] \in 0 .. OwnStarts
          /\ phase[a] \in {"down", "joining", "joined", "listing", "ready"}
          /\ newest[a] # NoRecord => newest[a] \in listed
    /\ \A w \in work : w.at \in {"verify", "resolve", "listed", "decrypt"}
    /\ Len(signed) <= MaxSent /\ behind \subseteq Peers /\ doubled \in BOOLEAN

\* Agents that keep the identity of their first start understand each other
\* whenever they start and end and whatever the relay's announcements and lists do:
\* no message is refused.  With new identities, a message is refused only if an agent
\* has been started since it was sent, or one has missed an announcement, had it
\* overtaken, or was given an older record (as when two registrations of it crossed);
\* and an agent to which none of that has happened knows the other's newest key, or
\* none.
KeysFollow ==
    /\ \A n \in DOMAIN signed : fate[n] = "refused" =>
          /\ Peers \ setup.keeps # {}
          /\ \/ signed[n].by # launches["sender"] \/ signed[n].was # launches["receiver"]
             \/ behind # {} \/ doubled
    /\ \A a \in Peers \ behind :
          phase[a] # "down" /\ Announcements(a) = {} /\ knows[a] # 0 =>
              knows[a] = newest[Other(a)].key

\* With PinDIDKeys a DID keeps the key it first registered with, unless two
\* registrations of it were checked before either was stored.
PinnedOnce ==
    setup.pins /\ ~doubled => \A r, s \in listed \cup joining : r.of = s.of => r.key = s.key
=============================================================================
