--------------------------- MODULE AgentRequests ---------------------------
(***************************************************************************)
(* pkg/agent: requests that wait for answers.  Agents are started and      *)
(* connected to one relay (both programs connect once and never again).    *)
(* A call is a Send to another agent, or a CallRelayWithRetry to the relay *)
(* itself.  The relay and the network between are the set `wire', which    *)
(* may lose, reorder and repeat.                                           *)
(***************************************************************************)
EXTENDS Clock, Sequences, FiniteSets

CONSTANTS
    Peer,           \* agents
    Relay,
    Call,           \* calls that may be made
    CallerOf, CalleeOf,   \* who makes a call, and to whom
    MaxAttempts,    \* attempts of CallRelayWithRetry (5 in the code)
    DedupTTL,
    MaxRepeats,     \* bound on repeated deliveries
    MaxCalls        \* bound on the calls made in one behaviour

ASSUME CallAssumption ==
    /\ Relay \notin Peer
    /\ CallerOf \in [Call -> Peer]
    /\ CalleeOf \in [Call -> Peer \cup {Relay}]
    /\ MaxAttempts \in Nat \ {0}
    /\ DedupTTL \in Nat

VARIABLES
    life,       \* "up", "stopping" (peers closed, channels not drained), "down"
    linked,     \* the agent's receive loop reads from the relay
    known,      \* agents in the local store
    at,         \* where a call is
    try,        \* its attempt: each has an ID and a channel of its own
    pending,    \* pending and pendingRPC: <<call, attempt>>
    chan,       \* the channel (of one slot) of the current attempt
    found,      \* answers whose channel a goroutine has looked up
    wire,       \* messages under way
    seen,       \* seenMsgs: message -> time
    tasks,      \* goroutines that handle a request
    taken,      \* when a request was taken on, each time: a history
    repeats

agentVars == <<now, life, linked, known, at, try, pending, chan, found,
               wire, seen, tasks, taken, repeats>>

Id(c) == <<c, try[c]>>
IsSend(c) == CalleeOf[c] \in Peer
Running(c) == at[c] \in {"registered", "waiting"}

\* Messages: a request to an agent or to the relay; an answer to attempt n (of
\* a call to the relay) or of the n-th handling (of a call to an agent).
Request == [kind : {"request"}, call : Call, n : Nat]
Answer == [kind : {"answer"}, call : Call, n : Nat, what : {"result", "error", "limited"}]
Task == [call : Call, n : Nat, at : {"verify", "resolve", "decrypt", "execute", "reply"},
         what : {"result", "error"}]
Goal(m) == IF m.kind = "request" THEN CalleeOf[m.call] ELSE CallerOf[m.call]

AgentInit ==
    /\ now = 0
    /\ life = [a \in Peer |-> "up"]
    /\ linked = [a \in Peer |-> TRUE]
    /\ \E k \in {{}, Peer} : known = [a \in Peer |-> k]   \* before or after discovery
    /\ at \in [Call -> {"idle", "returned"}]   \* calls that will be made, or not
    /\ Cardinality({c \in Call : at[c] = "idle"}) <= MaxCalls
    /\ try = [c \in Call |-> 1]
    /\ pending = {}
    /\ chan = [c \in Call |-> "empty"]
    /\ found = {}
    /\ wire = {}
    /\ seen = [a \in Peer |-> [m \in {} |-> 0]]
    /\ tasks = {}
    /\ taken = [c \in Call |-> <<>>]
    /\ repeats = 0

\* A call returns, and its deferred delete takes its channel from the map.
Finish(c) ==
    /\ at' = [at EXCEPT ![c] = "returned"]
    /\ pending' = pending \ {Id(c)}

\* The body cannot be encrypted for an unknown agent; with RequireEncryption
\* the call ends there.
Refuse(c) ==
    /\ at[c] = "idle" /\ IsSend(c) /\ CalleeOf[c] \notin known[CallerOf[c]]
    /\ Finish(c)
    /\ UNCHANGED <<now, life, linked, known, try, chan, found, wire, seen, tasks, taken, repeats>>

\* The channel is made and registered under the agent's lock.  CallRelay picks
\* the transport under the same lock.
RegisterCall(c) ==
    /\ at[c] = "idle"
    /\ IF ~IsSend(c) /\ life[CallerOf[c]] # "up"
       THEN Finish(c)
       ELSE /\ at' = [at EXCEPT ![c] = "registered"]
            /\ pending' = pending \cup {Id(c)}
    /\ chan' = [chan EXCEPT ![c] = "empty"]
    /\ UNCHANGED <<now, life, linked, known, try, found, wire, seen, tasks, taken, repeats>>

\* A closed transport, a lost connection or an empty peers map refuses.
Online(a) == life[a] = "up" /\ linked[a]

Transmit(c) ==
    /\ at[c] = "registered"
    /\ IF Online(CallerOf[c])
       THEN /\ at' = [at EXCEPT ![c] = "waiting"]
            /\ wire' = wire \cup {[kind |-> "request", call |-> c,
                                   n |-> IF IsSend(c) THEN 0 ELSE try[c]]}
            /\ UNCHANGED pending
       ELSE Finish(c) /\ UNCHANGED wire
    /\ UNCHANGED <<now, life, linked, known, try, chan, found, seen, tasks, taken, repeats>>

\* nil is shutdown; a rate-limited attempt is followed by a pause.
Wake(c) ==
    /\ at[c] = "waiting" /\ chan[c] # "empty"
    /\ IF chan[c] = "limited" /\ ~IsSend(c)
       THEN /\ at' = [at EXCEPT ![c] = "pausing"]
            /\ pending' = pending \ {Id(c)}
       ELSE Finish(c)
    /\ UNCHANGED <<now, life, linked, known, try, chan, found, wire, seen, tasks, taken, repeats>>

\* Mutant: one attempt too many.
EndPauseLate(c) ==
    /\ at[c] = "pausing"
    /\ IF try[c] > MaxAttempts
       THEN Finish(c) /\ UNCHANGED try
       ELSE /\ at' = [at EXCEPT ![c] = "idle"]
            /\ try' = [try EXCEPT ![c] = @ + 1]
            /\ UNCHANGED pending
    /\ UNCHANGED <<now, life, linked, known, chan, found, wire, seen, tasks, taken, repeats>>

\* The code pauses after the last attempt, too.
EndPause(c) ==
    /\ at[c] = "pausing"
    /\ IF try[c] = MaxAttempts
       THEN Finish(c) /\ UNCHANGED try
       ELSE /\ at' = [at EXCEPT ![c] = "idle"]
            /\ try' = [try EXCEPT ![c] = @ + 1]
            /\ UNCHANGED pending
    /\ UNCHANGED <<now, life, linked, known, chan, found, wire, seen, tasks, taken, repeats>>

\* The caller's context ends.
Expire(c) ==
    /\ at[c] \in {"waiting", "pausing"}
    /\ Finish(c)
    /\ UNCHANGED <<now, life, linked, known, try, chan, found, wire, seen, tasks, taken, repeats>>

-----------------------------------------------------------------------------
(* The receive loop starts a goroutine for every message.                  *)

\* Messages have IDs; the relay's own JSON-RPC responses do not.
HasID(m) == m.kind = "request" \/ (IsSend(m.call) /\ m.n > 0)
IdOf(m) == <<m.call, IF IsSend(m.call) THEN 1 ELSE m.n>>

Receive(m) ==
    /\ \/ wire' = wire \ {m} /\ UNCHANGED repeats
       \/ repeats < MaxRepeats /\ repeats' = repeats + 1 /\ UNCHANGED wire
    /\ UNCHANGED <<now, life, linked, known, at, try, pending, chan>>

Remember(a, m) ==
    seen' = [seen EXCEPT ![a] = [x \in DOMAIN @ \cup {m} |-> IF x = m THEN now ELSE @[x]]]

Duplicate(m) ==
    /\ HasID(m) /\ m \in DOMAIN seen[Goal(m)]
    /\ UNCHANGED <<found, seen, tasks, taken>>

TakeRequest(m) ==
    /\ m.kind = "request" /\ m \notin DOMAIN seen[Goal(m)]
    /\ Remember(Goal(m), m)
    /\ taken' = [taken EXCEPT ![m.call] = Append(@, now)]
    /\ tasks' = tasks \cup {[call |-> m.call, n |-> Len(taken[m.call]) + 1,
                             at |-> "verify", what |-> "result"]}
    /\ UNCHANGED found

\* The channel is looked up under the lock and used after it.
TakeAnswer(m) ==
    /\ m.kind = "answer" /\ ~(HasID(m) /\ m \in DOMAIN seen[Goal(m)])
    /\ IF HasID(m) THEN Remember(Goal(m), m) ELSE UNCHANGED seen
    /\ found' = IF IdOf(m) \in pending THEN found \cup {m} ELSE found
    /\ UNCHANGED <<tasks, taken>>

Deliver(m) ==
    /\ m \in wire /\ Goal(m) \in Peer
    /\ Online(Goal(m))
    /\ Receive(m)
    /\ Duplicate(m) \/ TakeRequest(m) \/ TakeAnswer(m)

\* A send that does not block: a full channel drops the answer.
Post(m) ==
    /\ m \in found
    /\ found' = found \ {m}
    /\ chan' = IF IdOf(m) = Id(m.call) /\ Running(m.call) /\ chan[m.call] = "empty"
               THEN [chan EXCEPT ![m.call] = m.what]
               ELSE chan
    /\ UNCHANGED <<now, life, linked, known, at, try, pending, wire, seen, tasks, taken, repeats>>

-----------------------------------------------------------------------------
(* The handling of a request: verify, execute, reply.                      *)

GoTo(t, step, r) == tasks' = (tasks \ {t}) \cup {[t EXCEPT !.at = step, !.what = r]}

\* An unknown sender is looked up at the relay, with the agent's own context.
Verify(t) ==
    /\ t.at = "verify"
    /\ IF CallerOf[t.call] \in known[CalleeOf[t.call]]
       THEN GoTo(t, "decrypt", "result") \/ GoTo(t, "reply", "error")
       ELSE IF Online(CalleeOf[t.call])
            THEN GoTo(t, "resolve", "result")
            ELSE GoTo(t, "reply", "error")
    /\ UNCHANGED <<known, wire>>

ResolvePeer(t) ==
    /\ t.at = "resolve" /\ Online(CalleeOf[t.call])
    /\ \/ /\ GoTo(t, "verify", "result")
          /\ known' = [known EXCEPT ![CalleeOf[t.call]] = @ \cup {CallerOf[t.call]}]
       \/ GoTo(t, "reply", "error") /\ UNCHANGED known
    /\ UNCHANGED wire

\* Mutant: the lookup does not use the agent's context.
ResolveWaits(t) ==
    /\ t.at = "resolve" /\ Online(CalleeOf[t.call])
    /\ GoTo(t, "reply", "error")
    /\ UNCHANGED <<known, wire>>

ResolveCanceled(t) ==
    /\ t.at = "resolve" /\ life[CalleeOf[t.call]] # "up"
    /\ GoTo(t, "reply", "error")
    /\ UNCHANGED <<known, wire>>

\* The sender is in the store by now.
Decrypt(t) ==
    /\ t.at = "decrypt"
    /\ GoTo(t, "execute", "result") \/ GoTo(t, "reply", "error")
    /\ UNCHANGED <<known, wire>>

\* Access control, the lookup of the method and its handler.
Execute(t) ==
    /\ t.at = "execute"
    /\ GoTo(t, "reply", "result") \/ GoTo(t, "reply", "error")
    /\ UNCHANGED <<known, wire>>

\* Best effort: the answer of an agent that cannot write is lost.
Reply(t) ==
    /\ t.at = "reply"
    /\ tasks' = tasks \ {t}
    /\ wire' = IF Online(CalleeOf[t.call])
               THEN wire \cup {[kind |-> "answer", call |-> t.call, n |-> t.n, what |-> t.what]}
               ELSE wire
    /\ UNCHANGED known

Handle(t) ==
    /\ t \in tasks
    /\ Verify(t) \/ ResolvePeer(t) \/ ResolveCanceled(t) \/ Decrypt(t) \/ Execute(t) \/ Reply(t)
    /\ UNCHANGED <<now, life, linked, at, try, pending, chan, found, seen, taken, repeats>>

-----------------------------------------------------------------------------
(* The relay, the network and the agent's life.                            *)

\* The relay answers its own methods, and routed requests only to refuse them.
RelayAnswers(m) ==
    /\ m \in wire /\ m.kind = "request"
    /\ \E r \in {"result", "error", "limited"} :
          /\ Goal(m) = Relay \/ r # "result"
          /\ wire' = (wire \ {m}) \cup {[kind |-> "answer", call |-> m.call, n |-> m.n, what |-> r]}
    /\ UNCHANGED <<now, life, linked, known, at, try, pending, chan, found, seen, tasks, taken, repeats>>

Lose(m) ==
    /\ m \in wire
    /\ wire' = wire \ {m}
    /\ UNCHANGED <<now, life, linked, known, at, try, pending, chan, found, seen, tasks, taken, repeats>>

\* The receive loop ends; the transport stays in the peers map.
LinkLost(a) ==
    /\ linked[a]
    /\ linked' = [linked EXCEPT ![a] = FALSE]
    /\ UNCHANGED <<now, life, known, at, try, pending, chan, found, wire, seen, tasks, taken, repeats>>

\* Stop, up to the unlock: context cancelled, transports closed, peers emptied.
StopAgent(a) ==
    /\ life[a] = "up"
    /\ life' = [life EXCEPT ![a] = "stopping"]
    /\ UNCHANGED <<now, linked, known, at, try, pending, chan, found, wire, seen, tasks, taken, repeats>>

\* Mutant: the channels are dropped without a nil.
DrainSilently(a) ==
    /\ life[a] = "stopping"
    /\ life' = [life EXCEPT ![a] = "down"]
    /\ pending' = {id \in pending : CallerOf[id[1]] # a}
    /\ UNCHANGED <<now, linked, known, at, try, chan, found, wire, seen, tasks, taken, repeats>>

DrainPendingChannels(a) ==
    /\ life[a] = "stopping"
    /\ life' = [life EXCEPT ![a] = "down"]
    /\ chan' = [c \in Call |-> IF CallerOf[c] = a /\ Id(c) \in pending /\ chan[c] = "empty"
                               THEN "nil" ELSE chan[c]]
    /\ pending' = {id \in pending : CallerOf[id[1]] # a}
    /\ UNCHANGED <<now, linked, known, at, try, found, wire, seen, tasks, taken, repeats>>

\* Mutant: an entry goes when it is exactly DedupTTL old.
CleanupEarly(a) ==
    /\ life[a] = "up"
    /\ \E m \in DOMAIN seen[a] : now - seen[a][m] >= DedupTTL
    /\ seen' = [seen EXCEPT ![a] = [m \in {x \in DOMAIN @ : now - @[x] < DedupTTL} |-> @[m]]]
    /\ UNCHANGED <<now, life, linked, known, at, try, pending, chan, found, wire, tasks, taken, repeats>>

CleanupDedup(a) ==
    /\ life[a] = "up"
    /\ \E m \in DOMAIN seen[a] : now - seen[a][m] > DedupTTL
    /\ seen' = [seen EXCEPT ![a] = [m \in {x \in DOMAIN @ : now - @[x] <= DedupTTL} |-> @[m]]]
    /\ UNCHANGED <<now, life, linked, known, at, try, pending, chan, found, wire, tasks, taken, repeats>>

AgentTick ==
    /\ Advance
    /\ UNCHANGED <<life, linked, known, at, try, pending, chan, found, wire, seen, tasks, taken, repeats>>

AgentNext ==
    \/ \E c \in Call :
          Refuse(c) \/ RegisterCall(c) \/ Transmit(c) \/ Wake(c) \/ EndPause(c) \/ Expire(c)
    \/ \E m \in wire : Deliver(m) \/ RelayAnswers(m) \/ Lose(m)
    \/ \E m \in found : Post(m)
    \/ \E t \in tasks : Handle(t)
    \/ \E a \in Peer :
          LinkLost(a) \/ StopAgent(a) \/ DrainPendingChannels(a) \/ CleanupDedup(a)
    \/ AgentTick

AgentTypeOK ==
    /\ life \in [Peer -> {"up", "stopping", "down"}]
    /\ linked \in [Peer -> BOOLEAN]
    /\ known \in [Peer -> SUBSET Peer]
    /\ at \in [Call -> {"idle", "registered", "waiting", "pausing", "returned"}]
    /\ try \in [Call -> 1..MaxAttempts]
    /\ pending \subseteq Call \X (1..MaxAttempts)
    /\ chan \in [Call -> {"empty", "nil", "result", "error", "limited"}]
    /\ found \subseteq Answer /\ wire \subseteq Request \cup Answer
    /\ tasks \subseteq Task
    /\ \A c \in Call : taken[c] \in Seq(0..MaxTime)

-----------------------------------------------------------------------------
\* A registered channel has a call that waits on it, under the ID of its
\* current attempt; and a waiting call is still registered, with the drain of
\* Stop ahead of it, or has something to read.  No interleaving of Send,
\* answers, expiry and Stop leaves a caller that nothing can wake, or a channel
\* that nobody reads.
WaitersServed ==
    /\ \A id \in pending : id = Id(id[1]) /\ Running(id[1])
    /\ \A c \in Call : at[c] = "waiting" =>
          \/ chan[c] # "empty"
          \/ Id(c) \in pending /\ life[CallerOf[c]] # "down"

\* However often the network repeats a request, an agent takes it on again only
\* after the time for which isDuplicateMessage promises to remember it.
TakenApart ==
    \A c \in Call : \A i, j \in DOMAIN taken[c] :
        i < j => taken[c][j] - taken[c][i] > DedupTTL

\* Once Stop has begun, every call under way returns and every handler ends,
\* without the help of a deadline, whatever the network has lost.
StopReleases ==
    \A a \in Peer :
        life[a] # "up" ~> /\ \A c \in Call : CallerOf[c] = a =>
                                at[c] = "returned" \/ (at[c] = "idle" /\ try[c] = 1)
                          /\ \A t \in tasks : CalleeOf[t.call] # a
=============================================================================
