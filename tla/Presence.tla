------------------------------ MODULE Presence ------------------------------
(***************************************************************************)
(* cmd/relay/presence.go: presence and who is told of it.  UpdatePresence  *)
(* changes the shared PresenceInfo under one lock, and notifies under the  *)
(* read lock of the subscriptions, reading the PresenceInfo with no lock.  *)
(* Two connections may be registered with one DID.                         *)
(*                                                                         *)
(* Beside it, with a lock of its own: who is typing in which thread.       *)
(* Indicators set and clear it, time takes it back, and a ticker cleans up *)
(* behind them.                                                            *)
(***************************************************************************)
EXTENDS Naturals, FiniteSets, Functions

CONSTANTS
    Line,           \* connections that update presence
    LineOf,         \* the DID a connection is registered with
    Watcher,        \* DIDs that subscribe
    Status,
    Unset,          \* not a Status: never set, or never told
    MaxUpdates      \* bound on the updates of a connection

ASSUME PresenceAssumption == Unset \notin Status

Target == {LineOf[l] : l \in Line}

VARIABLES
    presence,       \* DID -> status
    subscriptions,  \* <<watcher, target>>
    update,         \* a connection's UpdatePresence: where it is, whom it has to tell
    updates,
    heard,          \* the status last sent to a watcher about a target
    missed,         \* history: <<watcher, target>> without the latest notification
    collided           \* history: targets with two updates at once

presVars == <<presence, subscriptions, update, updates, heard, missed, collided>>

Resting == [at |-> "idle", left |-> {}, to |-> Unset, read |-> Unset]

PresInit ==
    /\ presence = [t \in Target |-> Unset]
    /\ subscriptions = {}
    /\ update = [l \in Line |-> Resting]
    /\ updates = [l \in Line |-> 0]
    /\ heard = [w \in Watcher |-> [t \in Target |-> Unset]]
    /\ missed = Watcher \X Target
    /\ collided = {}

Busy(t) == {l \in Line : LineOf[l] = t /\ update[l] # Resting}

\* Mutant: subscribers are not notified.
UpdateQuietly(l, s) ==
    /\ update[l] = Resting /\ updates[l] < MaxUpdates
    /\ presence' = [presence EXCEPT ![LineOf[l]] = s]
    /\ \/ update' = update
       \/ update' = [update EXCEPT ![l].at = "notify"]
    /\ updates' = [updates EXCEPT ![l] = @ + 1]
    /\ UNCHANGED <<subscriptions, heard, missed, collided>>

UpdatePresence(l, s) ==
    /\ update[l] = Resting /\ updates[l] < MaxUpdates
    /\ collided' = IF Busy(LineOf[l]) # {} THEN collided \cup {LineOf[l]} ELSE collided
    /\ presence' = [presence EXCEPT ![LineOf[l]] = s]
    /\ update' = [update EXCEPT ![l].at = "notify"]
    /\ updates' = [updates EXCEPT ![l] = @ + 1]
    /\ UNCHANGED <<subscriptions, heard, missed>>

\* subMu is read-locked until the last notification has gone.
NotifyPresenceChange(l) ==
    /\ update[l].at = "notify"
    /\ update' = [update EXCEPT ![l].at = "loop",
           ![l].left = {w \in Watcher : <<w, LineOf[l]>> \in subscriptions}]
    /\ UNCHANGED <<presence, subscriptions, updates, heard, missed, collided>>

\* The watcher's client is looked up, and the status read as it is now.
ReadInfo(l, w) ==
    /\ update[l].at = "loop" /\ w \in update[l].left
    /\ update' = [update EXCEPT ![l].at = "send", ![l].to = w, ![l].read = presence[LineOf[l]]]
    /\ UNCHANGED <<presence, subscriptions, updates, heard, missed, collided>>

\* Sent, or skipped: the watcher is offline or its buffer is full.
SendPresenceNotification(l) ==
    LET w == update[l].to
        t == LineOf[l]
    IN  /\ update[l].at = "send"
        /\ \/ /\ heard' = [heard EXCEPT ![w][t] = update[l].read]
              /\ missed' = missed \ {<<w, t>>}
           \/ missed' = missed \cup {<<w, t>>} /\ UNCHANGED heard
        /\ update' = [update EXCEPT ![l] = [Resting EXCEPT !.at = "loop", !.left = update[l].left \ {w}]]
        /\ UNCHANGED <<presence, subscriptions, updates, collided>>

UpdateDone(l) ==
    /\ update[l].at = "loop" /\ update[l].left = {}
    /\ update' = [update EXCEPT ![l] = Resting]
    /\ UNCHANGED <<presence, subscriptions, updates, heard, missed, collided>>

SubsLocked == \E l \in Line : update[l].at \in {"loop", "send"}

Subscribe(w, t) ==
    /\ ~SubsLocked
    /\ subscriptions' = subscriptions \cup {<<w, t>>}
    /\ UNCHANGED <<presence, update, updates, heard, missed, collided>>

Unsubscribe(w, t) ==
    /\ ~SubsLocked
    /\ subscriptions' = subscriptions \ {<<w, t>>}
    /\ missed' = missed \cup {<<w, t>>}
    /\ UNCHANGED <<presence, update, updates, heard, collided>>

PresNext ==
    \/ \E l \in Line :
          \/ \E s \in Status : UpdatePresence(l, s)
          \/ NotifyPresenceChange(l) \/ SendPresenceNotification(l) \/ UpdateDone(l)
          \/ \E w \in Watcher : ReadInfo(l, w)
    \/ \E w \in Watcher, t \in Target : Subscribe(w, t) \/ Unsubscribe(w, t)

QueryPresence(t) == presence[t]

PresTypeOK ==
    /\ presence \in [Target -> Status \cup {Unset}]
    /\ subscriptions \subseteq Watcher \X Target
    /\ heard \in [Watcher -> [Target -> Status \cup {Unset}]]
    /\ \A l \in Line : update[l].left \subseteq Watcher

-----------------------------------------------------------------------------
\* A watcher that has missed no notification since it subscribed knows the
\* target's status as relay.presence.query would give it, whenever no update is
\* under way: later updates are never announced before earlier ones, unless two
\* connections of one DID update at once.
WatchersCurrent ==
    \A w \in Watcher, t \in Target :
        <<w, t>> \in subscriptions \ missed /\ Busy(t) = {} /\ t \notin collided
            => heard[w][t] = QueryPresence(t)

-----------------------------------------------------------------------------
(* Typing.                                                                 *)

CONSTANTS
    Typist,
    Topic,             \* threads, the one without an ID included
    TypingTime,        \* how long an indicator is good for
    MaxTypingNow       \* bound on the clock

ASSUME TypingAssumption == TypingTime \in Nat

VARIABLES
    typingState,       \* sender -> thread -> expiry, for those that have one
    typingNow,
    lastSaid           \* history: sender, thread -> when it last said so, 0 if it took it back

typingVars == <<typingState, typingNow, lastSaid>>

TypingInit ==
    /\ typingState = <<>>
    /\ typingNow = 1
    /\ lastSaid = [p \in Typist \X Topic |-> 0]

ThreadsOf(s) == IF s \in DOMAIN typingState THEN typingState[s] ELSE <<>>

WithTyping(s, t, expiry) ==
    [x \in DOMAIN ThreadsOf(s) \cup {t} |-> IF x = t THEN expiry ELSE ThreadsOf(s)[x]]

SetTyping(s, t) ==
    /\ typingState' = [x \in DOMAIN typingState \cup {s} |->
                          IF x = s THEN WithTyping(s, t, typingNow + TypingTime) ELSE typingState[x]]
    /\ lastSaid' = [lastSaid EXCEPT ![<<s, t>>] = typingNow]
    /\ UNCHANGED typingNow

\* The sender's map stays, though it may be empty.
ClearTyping(s, t) ==
    /\ typingState' = [x \in DOMAIN typingState |->
                          Restrict(typingState[x], DOMAIN typingState[x] \ (IF x = s THEN {t} ELSE {}))]
    /\ lastSaid' = [lastSaid EXCEPT ![<<s, t>>] = 0]
    /\ UNCHANGED typingNow

\* The indicator is then routed like any message.
handleTypingIndicator(s, t) == SetTyping(s, t) \/ ClearTyping(s, t)

IsTyping(s, t) ==
    s \in DOMAIN typingState /\ t \in DOMAIN typingState[s] /\ typingNow < typingState[s][t]

\* Mutant: a sender leaves with the first of its threads.
CleanupSenders ==
    /\ typingState' = Restrict(typingState,
           {s \in DOMAIN typingState :
               \A t \in DOMAIN typingState[s] : typingNow <= typingState[s][t]})
    /\ UNCHANGED <<typingNow, lastSaid>>

cleanupExpiredTyping ==
    LET Kept(s) == Restrict(typingState[s],
                      {t \in DOMAIN typingState[s] : typingNow <= typingState[s][t]})
    IN  /\ typingState' = [s \in {x \in DOMAIN typingState : Kept(x) # <<>>} |-> Kept(s)]
        /\ UNCHANGED <<typingNow, lastSaid>>

TypingTick ==
    /\ typingNow < MaxTypingNow
    /\ typingNow' = typingNow + 1
    /\ UNCHANGED <<typingState, lastSaid>>

TypingNext ==
    \/ \E s \in Typist, t \in Topic : handleTypingIndicator(s, t)
    \/ cleanupExpiredTyping \/ TypingTick

-----------------------------------------------------------------------------
\* A sender counts as typing in a thread from its indicator until it takes it back or
\* the time is up, whatever it says of other threads and whenever the cleanup comes.
TypingAsSaid ==
    \A s \in Typist, t \in Topic :
        IsTyping(s, t) <=> lastSaid[<<s, t>>] > 0 /\ typingNow < lastSaid[<<s, t>>] + TypingTime

\* Watchers know what relay.presence.query would tell them (WatchersCurrent), and who
\* types is known as long as it is so (TypingAsSaid).
PresenceCurrent == WatchersCurrent /\ TypingAsSaid
=============================================================================
