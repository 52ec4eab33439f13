----------------------------- MODULE LoginProofs -----------------------------
(***************************************************************************)
(* Theorems about who is who and who is there, for every number of         *)
(* watchers, logins, lists of keys, starts and messages: the presence and  *)
(* the typing of agents, the keys agents know each other by, and tokens of *)
(* outside providers with the tenants they lead to.                        *)
(***************************************************************************)
EXTENDS Logins, Presence, TLAPS

-----------------------------------------------------------------------------
(* Presence: a watcher whose notification is neither given up nor received *)
(* is still on the way of the one update of the target that is under way.  *)

PresSpec == PresInit /\ [][PresNext]_presVars
TypingSpec == TypingInit /\ [][TypingNext]_typingVars

UpdateRecord ==
    [at : {"idle", "notify", "loop", "send"}, left : SUBSET Watcher,
     to : Watcher \cup {Unset}, read : Status \cup {Unset}]

\* An update that holds the read lock has only subscribers left to tell.
UpdatesInv ==
    /\ update \in [Line -> UpdateRecord]
    /\ \A l \in Line :
          /\ update[l].at = "idle" => update[l] = Resting
          /\ update[l].at \in {"loop", "send"} =>
                \A w \in update[l].left : <<w, LineOf[l]>> \in subscriptions
          /\ update[l].at = "send" => update[l].to \in update[l].left

Active(t) == {l \in Line : LineOf[l] = t /\ update[l].at # "idle"}

\* Updates of a target come one by one, and what is about to be sent is current.
OneByOne ==
    \A t \in Target \ collided :
        /\ \A l, k \in Active(t) : l = k
        /\ \A l \in Active(t) : update[l].at = "send" => update[l].read = presence[t]

\* Whom an update has not told yet.
Untold(l) == IF update[l].at = "notify" THEN Watcher ELSE update[l].left

Informed ==
    \A w \in Watcher, t \in Target \ collided :
        <<w, t>> \notin missed =>
            /\ <<w, t>> \in subscriptions
            /\ heard[w][t] = presence[t] \/ \E l \in Active(t) : w \in Untold(l)

PresInv == PresTypeOK /\ UpdatesInv /\ OneByOne /\ Informed

\* An update is under way exactly when it is not idle.
LEMMA ActiveIsBusy ==
    ASSUME UpdatesInv, NEW t
    PROVE  Busy(t) = Active(t)
BY DEF UpdatesInv, Busy, Active, Resting

\* A new status makes the update the only one of its target, or the target collided.
LEMMA UpdatePresenceStep ==
    ASSUME PresInv, NEW l \in Line, NEW s \in Status, UpdatePresence(l, s)
    PROVE  PresInv'
<1> DEFINE t == LineOf[l]
<1>1. t \in Target
  BY Zenon DEF Target
<1>2. /\ update \in [Line -> UpdateRecord] /\ update[l] = Resting
      /\ update' = [update EXCEPT ![l].at = "notify"]
      /\ UNCHANGED <<subscriptions, heard, missed>>
      /\ presence' = [presence EXCEPT ![t] = s]
  BY Zenon DEF UpdatePresence, PresInv, UpdatesInv
<1>3. /\ update'[l] = [at |-> "notify", left |-> {}, to |-> Unset, read |-> Unset]
      /\ \A k \in Line \ {l} : update'[k] = update[k]
      /\ update' \in [Line -> UpdateRecord]
  <2>1. [Resting EXCEPT !.at = "notify"] = [at |-> "notify", left |-> {}, to |-> Unset, read |-> Unset]
    BY DEF Resting
  <2>2. [at |-> "notify", left |-> {}, to |-> Unset, read |-> Unset] \in UpdateRecord
    BY Zenon DEF UpdateRecord
  <2>3. update' = [update EXCEPT ![l] = [Resting EXCEPT !.at = "notify"]]
    BY Zenon, <1>2
  <2> QED BY <1>2, <2>1, <2>2, <2>3
<1>4. PresTypeOK'
  BY Zenon, <1>1, <1>2, <1>3 DEF PresInv, PresTypeOK, UpdateRecord
<1>5. UpdatesInv'
  BY <1>2, <1>3 DEF PresInv, UpdatesInv
<1>6. /\ \A u \in Target \ collided' : u \notin collided /\ (u = t => Active(u) = {} /\ Active(u)' = {l})
      /\ \A u \in Target \ {t} : Active(u)' = Active(u)
  <2>1. \A u \in Target \ collided' : u \notin collided /\ (u = t => Busy(u) = {})
    BY Zenon DEF UpdatePresence
  <2>2. \A u : Active(u)' = (IF u = t THEN Active(u) \cup {l} ELSE Active(u))
    BY Zenon, <1>2, <1>3 DEF Active, Resting
  <2> QED BY Zenon, <2>1, <2>2, ActiveIsBusy DEF PresInv
<1>7. \A u \in Target \ {t} : presence'[u] = presence[u]
  BY Zenon, <1>2 DEF PresInv, PresTypeOK
<1>8. \A u \in Target \ {t} : l \notin Active(u)
  BY Zenon DEF Active
<1>9. OneByOne'
  BY <1>2, <1>3, <1>6, <1>7, <1>8 DEF PresInv, OneByOne, Active
<1>10. Informed'
  <2> SUFFICES ASSUME NEW w \in Watcher, NEW u \in Target \ collided', <<w, u>> \notin missed
               PROVE  /\ <<w, u>> \in subscriptions
                      /\ heard[w][u] = presence'[u] \/ \E k \in Active(u)' : w \in Untold(k)'
    BY Zenon, <1>2 DEF Informed
  <2>1. <<w, u>> \in subscriptions /\ (heard[w][u] = presence[u] \/ \E k \in Active(u) : w \in Untold(k))
    BY Zenon, <1>6 DEF PresInv, Informed
  <2>2. CASE u = t
    BY <1>3, <1>6, <2>1, <2>2 DEF Untold
  <2>3. CASE u # t
    BY Zenon, <1>3, <1>6, <1>7, <1>8, <2>1, <2>3 DEF Untold, Active
  <2> QED BY Zenon, <2>2, <2>3
<1> QED BY Zenon, <1>4, <1>5, <1>9, <1>10 DEF PresInv

\* The steps of an update that leave the status, the subscriptions and what was heard.
LEMMA PassStep ==
    ASSUME PresInv, NEW l \in Line,
           NotifyPresenceChange(l) \/ UpdateDone(l) \/ \E w \in Watcher : ReadInfo(l, w)
    PROVE  PresInv'
<1> DEFINE t == LineOf[l]
<1>1. t \in Target /\ update \in [Line -> UpdateRecord] /\ update[l] \in UpdateRecord
  BY Zenon DEF Target, PresInv, UpdatesInv
<1>2. UNCHANGED <<presence, subscriptions, updates, heard, missed, collided>>
  BY Zenon DEF NotifyPresenceChange, UpdateDone, ReadInfo
<1>3. /\ \A k \in Line \ {l} : update'[k] = update[k]
      /\ update' \in [Line -> UpdateRecord]
      /\ update[l].at # "idle"
      /\ \/ /\ update[l].at = "notify" /\ update'[l].at = "loop"
            /\ update'[l].left = {w \in Watcher : <<w, t>> \in subscriptions}
         \/ /\ update[l].at = "loop" /\ update'[l].at = "send" /\ update'[l].left = update[l].left
            /\ update'[l].to \in update[l].left /\ update'[l].read = presence[t]
         \/ update[l].at = "loop" /\ update[l].left = {} /\ update'[l] = Resting
  <2>1. CASE NotifyPresenceChange(l)
    BY Zenon, <1>1, <2>1 DEF NotifyPresenceChange, UpdateRecord
  <2>2. CASE UpdateDone(l)
    BY Zenon, <1>1, <2>2 DEF UpdateDone, UpdateRecord, Resting
  <2>3. ASSUME NEW w \in Watcher, ReadInfo(l, w)
        PROVE  /\ \A k \in Line \ {l} : update'[k] = update[k]
               /\ update' \in [Line -> UpdateRecord]
               /\ update[l].at = "loop" /\ update'[l].at = "send" /\ update'[l].left = update[l].left
               /\ update'[l].to \in update[l].left /\ update'[l].read = presence[t]
    <3>1. presence[t] \in Status \cup {Unset}
      BY Zenon, <1>1 DEF PresInv, PresTypeOK
    <3> QED BY Zenon, <1>1, <2>3, <3>1 DEF ReadInfo, UpdateRecord
  <2> QED BY Zenon, <2>1, <2>2, <2>3
<1>4. PresTypeOK'
  BY Zenon, <1>2, <1>3 DEF PresInv, PresTypeOK, UpdateRecord
<1>5. UpdatesInv'
  <2>1. ASSUME NEW k \in Line
        PROVE  /\ update'[k].at = "idle" => update'[k] = Resting
               /\ update'[k].at \in {"loop", "send"} =>
                     \A w \in update'[k].left : <<w, LineOf[k]>> \in subscriptions'
               /\ update'[k].at = "send" => update'[k].to \in update'[k].left
    <3>1. CASE k = l
      <4>1. update[l].at = "loop" => \A w \in update[l].left : <<w, t>> \in subscriptions
        BY Zenon DEF PresInv, UpdatesInv
      <4> QED BY <1>2, <1>3, <3>1, <4>1 DEF Resting
    <3>2. CASE k # l
      BY Zenon, <1>2, <1>3, <3>2 DEF PresInv, UpdatesInv
    <3> QED BY Zenon, <3>1, <3>2
  <2> QED BY Zenon, <1>3, <2>1 DEF UpdatesInv
<1>6. \A u : Active(u)' \subseteq Active(u)
  BY Zenon, <1>3 DEF Active
<1>7. OneByOne'
  <2>1. ASSUME NEW u \in Target \ collided, NEW k \in Active(u)', update'[k].at = "send"
        PROVE  update'[k].read = presence[u]
    <3>1. k \in Line /\ LineOf[k] = u /\ k \in Active(u)
      BY Zenon, <1>6 DEF Active
    <3>2. CASE k = l
      BY <1>3, <2>1, <3>1, <3>2 DEF Resting
    <3>3. CASE k # l
      <4>1. update'[k] = update[k]
        BY Zenon, <1>3, <3>1, <3>3
      <4>2. update[k].at = "send"
        BY Zenon, <2>1, <4>1
      <4>3. update[k].read = presence[u]
        BY Zenon, <2>1, <3>1, <4>2 DEF PresInv, OneByOne
      <4> QED BY Zenon, <4>1, <4>3
    <3> QED BY Zenon, <3>2, <3>3
  <2> QED BY Zenon, <1>2, <1>6, <2>1 DEF PresInv, OneByOne
<1>8. Informed'
  <2> SUFFICES ASSUME NEW w \in Watcher, NEW u \in Target \ collided, <<w, u>> \notin missed
               PROVE  /\ <<w, u>> \in subscriptions
                      /\ heard[w][u] = presence[u] \/ \E k \in Active(u)' : w \in Untold(k)'
    BY Zenon, <1>2 DEF Informed
  <2>1. <<w, u>> \in subscriptions /\ (heard[w][u] = presence[u] \/ \E k \in Active(u) : w \in Untold(k))
    BY Zenon DEF PresInv, Informed
  <2>2. ASSUME NEW k \in Active(u), w \in Untold(k) PROVE k \in Active(u)' /\ w \in Untold(k)'
    <3>1. CASE k = l
      BY Zenon, <1>3, <2>1, <2>2, <3>1 DEF Active, Untold, Resting
    <3>2. CASE k # l
      BY Zenon, <1>3, <2>2, <3>2 DEF Active, Untold
    <3> QED BY Zenon, <3>1, <3>2
  <2> QED BY Zenon, <2>1, <2>2
<1> QED BY Zenon, <1>4, <1>5, <1>7, <1>8 DEF PresInv

\* A notification that is sent carries the present status of a target that is not collided.
LEMMA SendStep ==
    ASSUME PresInv, NEW l \in Line, SendPresenceNotification(l)
    PROVE  PresInv'
<1> DEFINE t == LineOf[l]
           w == update[l].to
<1>1. /\ t \in Target /\ update \in [Line -> UpdateRecord] /\ update[l] \in UpdateRecord
      /\ update[l].at = "send" /\ w \in update[l].left /\ w \in Watcher
      /\ \A k \in update[l].left : <<k, t>> \in subscriptions
  BY Zenon DEF Target, PresInv, UpdatesInv, SendPresenceNotification, UpdateRecord
<1>2. UNCHANGED <<presence, subscriptions, updates, collided>>
  BY Zenon DEF SendPresenceNotification
<1>3. /\ \A k \in Line \ {l} : update'[k] = update[k]
      /\ update'[l] = [at |-> "loop", left |-> update[l].left \ {w}, to |-> Unset, read |-> Unset]
      /\ update' \in [Line -> UpdateRecord]
  BY Zenon, <1>1 DEF SendPresenceNotification, Resting, UpdateRecord
<1>4. /\ heard \in [Watcher -> [Target -> Status \cup {Unset}]]
      /\ \/ heard' = [heard EXCEPT ![w][t] = update[l].read] /\ missed' = missed \ {<<w, t>>}
         \/ heard' = heard /\ missed' = missed \cup {<<w, t>>}
  BY Zenon DEF SendPresenceNotification, PresInv, PresTypeOK
<1>5. PresTypeOK'
  <2>1. heard' \in [Watcher -> [Target -> Status \cup {Unset}]]
    BY <1>1, <1>4 DEF UpdateRecord
  <2> QED BY Zenon, <1>2, <1>3, <2>1 DEF PresInv, PresTypeOK, UpdateRecord
<1>6. UpdatesInv'
  BY <1>1, <1>2, <1>3 DEF PresInv, UpdatesInv
<1>7. \A u : Active(u)' = Active(u)
  BY <1>1, <1>3 DEF Active
<1>8. OneByOne'
  <2>1. ASSUME NEW u \in Target \ collided, NEW k \in Active(u), update'[k].at = "send"
        PROVE  update'[k].read = presence[u]
    <3>1. k # l
      BY <1>3, <2>1
    <3>2. update'[k] = update[k]
      BY Zenon, <1>3, <3>1 DEF Active
    <3> QED BY Zenon, <2>1, <3>2 DEF PresInv, OneByOne
  <2> QED BY Zenon, <1>2, <1>7, <2>1 DEF PresInv, OneByOne
<1>9. Informed'
  <2> SUFFICES ASSUME NEW x \in Watcher, NEW u \in Target \ collided, <<x, u>> \notin missed'
               PROVE  /\ <<x, u>> \in subscriptions
                      /\ heard'[x][u] = presence[u] \/ \E k \in Active(u) : x \in Untold(k)'
    BY Zenon, <1>2, <1>7 DEF Informed
  <2>1. CASE x = w /\ u = t
    <3>1. l \in Active(t) /\ update[l].read = presence[t]
      BY Zenon, <1>1, <2>1 DEF Active, PresInv, OneByOne
    <3>2. heard' = [heard EXCEPT ![w][t] = update[l].read]
      BY Zenon, <1>4, <2>1
    <3>3. heard'[w][t] = presence[t]
      BY Zenon, <1>1, <1>4, <3>1, <3>2
    <3> QED BY Zenon, <1>1, <2>1, <3>3
  <2>2. CASE ~(x = w /\ u = t)
    <3>1. <<x, u>> \notin missed /\ heard'[x][u] = heard[x][u]
      BY <1>1, <1>4, <2>2
    <3>2. <<x, u>> \in subscriptions /\ (heard[x][u] = presence[u] \/ \E k \in Active(u) : x \in Untold(k))
      BY Zenon, <3>1 DEF PresInv, Informed
    <3>3. ASSUME NEW k \in Active(u), x \in Untold(k) PROVE x \in Untold(k)'
      <4>1. CASE k = l
        BY <1>1, <1>3, <2>2, <3>3, <4>1 DEF Active, Untold
      <4>2. CASE k # l
        BY Zenon, <1>3, <3>3, <4>2 DEF Active, Untold
      <4> QED BY Zenon, <4>1, <4>2
    <3> QED BY Zenon, <3>1, <3>2, <3>3
  <2> QED BY Zenon, <2>1, <2>2
<1> QED BY Zenon, <1>5, <1>6, <1>8, <1>9 DEF PresInv

\* Nobody subscribes or unsubscribes while notifications go out.
LEMMA SubscriptionStep ==
    ASSUME PresInv, NEW w \in Watcher, NEW t \in Target, Subscribe(w, t) \/ Unsubscribe(w, t)
    PROVE  PresInv'
<1>1. /\ UNCHANGED <<presence, update, updates, heard, collided>>
      /\ \A l \in Line : update[l].at \notin {"loop", "send"}
      /\ \/ subscriptions' = subscriptions \cup {<<w, t>>} /\ missed' = missed
         \/ subscriptions' = subscriptions \ {<<w, t>>} /\ missed' = missed \cup {<<w, t>>}
  BY Zenon DEF Subscribe, Unsubscribe, SubsLocked
<1>2. PresTypeOK'
  BY <1>1 DEF PresInv, PresTypeOK
<1>3. UpdatesInv'
  BY Zenon, <1>1 DEF PresInv, UpdatesInv
<1>4. OneByOne'
  BY <1>1 DEF PresInv, OneByOne, Active
<1>5. Informed'
  <2>1. \A x \in Watcher, u \in Target \ collided :
            <<x, u>> \notin missed' => <<x, u>> \notin missed /\ (<<x, u>> \in subscriptions => <<x, u>> \in subscriptions')
    BY Zenon, <1>1
  <2>2. \A l, u : /\ Active(u)' = Active(u)
                  /\ Untold(l)' = Untold(l)
    BY Zenon, <1>1 DEF Active, Untold
  <2> QED BY <1>1, <2>1, <2>2 DEF PresInv, Informed
<1> QED BY Zenon, <1>2, <1>3, <1>4, <1>5 DEF PresInv

\* A watcher that has missed nothing knows the status that relay.presence.query gives
\* once no update is under way (UpdatePresence, notifyPresenceChange), for any number of
\* connections, watchers and updates, unless two connections of a DID update at once.
THEOREM WatchersAreCurrent == PresSpec => []WatchersCurrent
<1>1. PresInit => PresInv
  BY DEF PresInit, PresInv, PresTypeOK, UpdatesInv, UpdateRecord, Resting, OneByOne, Active, Informed
<1>2. PresInv /\ [PresNext]_presVars => PresInv'
  <2>1. ASSUME PresInv, UNCHANGED presVars PROVE PresInv'
    BY <2>1 DEF presVars, PresInv, PresTypeOK, UpdatesInv, OneByOne, Active, Informed, Untold
  <2> QED BY Zenon, <2>1, UpdatePresenceStep, PassStep, SendStep, SubscriptionStep DEF PresNext
<1>3. PresInv => WatchersCurrent
  BY Zenon, ActiveIsBusy DEF PresInv, Informed, WatchersCurrent, QueryPresence
<1> QED BY <1>1, <1>2, <1>3, PTL DEF PresSpec

-----------------------------------------------------------------------------
(* Typing: an entry is as old as the indicator that made it, and one that  *)
(* is gone was taken back or is expired.                                   *)

Noted(s, t) == s \in DOMAIN typingState /\ t \in DOMAIN typingState[s]

TypingTypes ==
    /\ typingNow \in Nat \ {0}
    /\ lastSaid \in [Typist \X Topic -> Nat]

AsNoted(s, t) ==
    /\ Noted(s, t) => lastSaid[<<s, t>>] > 0 /\ typingState[s][t] = lastSaid[<<s, t>>] + TypingTime
    /\ ~Noted(s, t) => lastSaid[<<s, t>>] = 0 \/ lastSaid[<<s, t>>] + TypingTime < typingNow

TypingInv == TypingTypes /\ \A s \in Typist, t \in Topic : AsNoted(s, t)

\* An indicator changes what is noted of its own thread only.
LEMMA IndicatorStep ==
    ASSUME TypingInv, NEW s \in Typist, NEW t \in Topic, handleTypingIndicator(s, t)
    PROVE  TypingInv'
<1> USE TypingAssumption
<1>1. CASE SetTyping(s, t)
  <2>1. /\ lastSaid' = [lastSaid EXCEPT ![<<s, t>>] = typingNow] /\ typingNow' = typingNow
        /\ DOMAIN typingState' = DOMAIN typingState \cup {s}
        /\ \A x \in DOMAIN typingState \ {s} : typingState'[x] = typingState[x]
        /\ typingState'[s] = WithTyping(s, t, typingNow + TypingTime)
    BY Zenon, <1>1 DEF SetTyping
  <2>2. TypingTypes'
    BY Zenon, <2>1 DEF TypingInv, TypingTypes
  <2>3. /\ DOMAIN typingState'[s] = DOMAIN ThreadsOf(s) \cup {t}
        /\ typingState'[s][t] = typingNow + TypingTime
        /\ \A u \in DOMAIN ThreadsOf(s) \ {t} : typingState'[s][u] = ThreadsOf(s)[u]
    BY Zenon, <2>1 DEF WithTyping
  <2>4. DOMAIN <<>> = {}
    OBVIOUS
  <2>5. \A x \in Typist, u \in Topic : <<x, u>> # <<s, t>> =>
            /\ lastSaid'[<<x, u>>] = lastSaid[<<x, u>>]
            /\ Noted(x, u)' <=> Noted(x, u)
            /\ Noted(x, u) => typingState'[x][u] = typingState[x][u]
    BY <2>1, <2>3, <2>4 DEF TypingInv, TypingTypes, Noted, ThreadsOf
  <2>6. Noted(s, t)' /\ lastSaid'[<<s, t>>] = typingNow
    BY Zenon, <2>1, <2>3 DEF TypingInv, TypingTypes, Noted
  <2>7. ASSUME NEW x \in Typist, NEW u \in Topic PROVE AsNoted(x, u)'
    <3>1. AsNoted(x, u)
      BY Zenon DEF TypingInv
    <3>2. CASE <<x, u>> = <<s, t>>
      <4>1. x = s /\ u = t /\ typingNow > 0
        BY <3>2 DEF TypingInv, TypingTypes
      <4> QED BY Zenon, <2>3, <2>6, <4>1 DEF AsNoted
    <3>3. CASE <<x, u>> # <<s, t>>
      BY Zenon, <2>1, <2>5, <3>1, <3>3 DEF AsNoted
    <3> QED BY Zenon, <3>2, <3>3
  <2> QED BY Zenon, <2>2, <2>7 DEF TypingInv
<1>2. CASE ClearTyping(s, t)
  <2>1. /\ lastSaid' = [lastSaid EXCEPT ![<<s, t>>] = 0] /\ typingNow' = typingNow
        /\ DOMAIN typingState' = DOMAIN typingState
        /\ \A x \in DOMAIN typingState :
              typingState'[x] = Restrict(typingState[x], DOMAIN typingState[x] \ (IF x = s THEN {t} ELSE {}))
    BY Zenon, <1>2 DEF ClearTyping
  <2>2. TypingTypes'
    BY Zenon, <2>1 DEF TypingInv, TypingTypes
  <2>3. \A x \in DOMAIN typingState :
            /\ DOMAIN typingState'[x] = DOMAIN typingState[x] \ (IF x = s THEN {t} ELSE {})
            /\ \A u \in DOMAIN typingState'[x] : typingState'[x][u] = typingState[x][u]
    BY ZenonT(40), <2>1 DEF Restrict
  <2>4. \A x \in Typist, u \in Topic : <<x, u>> # <<s, t>> =>
            /\ lastSaid'[<<x, u>>] = lastSaid[<<x, u>>]
            /\ Noted(x, u)' <=> Noted(x, u)
            /\ Noted(x, u) => typingState'[x][u] = typingState[x][u]
    BY Zenon, <2>1, <2>3 DEF TypingInv, TypingTypes, Noted
  <2>5. ~Noted(s, t)' /\ lastSaid'[<<s, t>>] = 0
    BY Zenon, <2>1, <2>3 DEF TypingInv, TypingTypes, Noted
  <2>6. ASSUME NEW x \in Typist, NEW u \in Topic PROVE AsNoted(x, u)'
    <3>1. AsNoted(x, u)
      BY Zenon DEF TypingInv
    <3>2. CASE <<x, u>> = <<s, t>>
      BY Zenon, <2>5, <3>2 DEF AsNoted
    <3>3. CASE <<x, u>> # <<s, t>>
      BY Zenon, <2>1, <2>4, <3>1, <3>3 DEF AsNoted
    <3> QED BY Zenon, <3>2, <3>3
  <2> QED BY Zenon, <2>2, <2>6 DEF TypingInv
<1> QED BY Zenon, <1>1, <1>2 DEF handleTypingIndicator

\* The cleanup takes away what has expired and nothing else.
LEMMA CleanupStep ==
    ASSUME TypingInv, cleanupExpiredTyping
    PROVE  TypingInv'
<1> USE TypingAssumption
<1> DEFINE Good(s) == {t \in DOMAIN typingState[s] : typingNow <= typingState[s][t]}
           Left(s) == Restrict(typingState[s], Good(s))
<1>1. /\ typingNow' = typingNow /\ lastSaid' = lastSaid
      /\ typingState' = [s \in {x \in DOMAIN typingState : Left(x) # <<>>} |-> Left(s)]
  BY Zenon DEF cleanupExpiredTyping
<1>2. \A s : DOMAIN Left(s) = Good(s) /\ \A t \in Good(s) : Left(s)[t] = typingState[s][t]
  BY Zenon DEF Restrict
<1>3. \A s : Left(s) = <<>> => Good(s) = {}
  <2>1. DOMAIN <<>> = {}
    OBVIOUS
  <2> HIDE DEF Left, Good
  <2> QED BY Zenon, <1>2, <2>1
<1> HIDE DEF Left
<1>4. \A s \in DOMAIN typingState' : s \in DOMAIN typingState /\ typingState'[s] = Left(s)
  BY Zenon, <1>1
<1>5. \A s \in DOMAIN typingState : Left(s) # <<>> => s \in DOMAIN typingState'
  BY Zenon, <1>1
<1>6. \A s, t : Noted(s, t)' <=> Noted(s, t) /\ t \in Good(s)
  <2> SUFFICES ASSUME NEW s, NEW t PROVE Noted(s, t)' <=> Noted(s, t) /\ t \in Good(s)
    OBVIOUS
  <2>1. ASSUME Noted(s, t)' PROVE Noted(s, t) /\ t \in Good(s)
    <3>1. s \in DOMAIN typingState /\ t \in DOMAIN Left(s)
      BY Zenon, <1>4, <2>1 DEF Noted
    <3> QED BY Zenon, <1>2, <3>1 DEF Noted
  <2>2. ASSUME Noted(s, t), t \in Good(s) PROVE Noted(s, t)'
    <3>1. s \in DOMAIN typingState'
      BY Zenon, <1>3, <1>5, <2>2 DEF Noted
    <3> QED BY Zenon, <1>2, <1>4, <2>2, <3>1 DEF Noted
  <2> QED BY Zenon, <2>1, <2>2
<1>7. \A s, t : Noted(s, t)' => typingState'[s][t] = typingState[s][t]
  BY Zenon, <1>2, <1>4, <1>6 DEF Noted
<1>8. ASSUME NEW s \in Typist, NEW t \in Topic, Noted(s, t), ~Noted(s, t)'
      PROVE  lastSaid[<<s, t>>] + TypingTime < typingNow
  <2>1. typingState[s][t] = lastSaid[<<s, t>>] + TypingTime /\ lastSaid[<<s, t>>] \in Nat /\ typingNow \in Nat
    BY Zenon, <1>8 DEF TypingInv, AsNoted, TypingTypes
  <2>2. ~(typingNow <= typingState[s][t])
    BY Zenon, <1>6, <1>8 DEF Noted
  <2> QED BY <2>1, <2>2
<1> HIDE DEF Good
<1>9. ASSUME NEW s \in Typist, NEW t \in Topic PROVE AsNoted(s, t)'
  BY Zenon, <1>1, <1>6, <1>7, <1>8 DEF TypingInv, AsNoted
<1> QED BY Zenon, <1>1, <1>9 DEF TypingInv, TypingTypes

\* Time, and steps of others.
LEMMA TypingOther ==
    ASSUME TypingInv, TypingTick \/ UNCHANGED typingVars
    PROVE  TypingInv'
<1>1. /\ typingState' = typingState /\ lastSaid' = lastSaid
      /\ typingNow' = typingNow \/ typingNow' = typingNow + 1
  BY Zenon DEF TypingTick, typingVars
<1>2. TypingTypes'
  BY <1>1 DEF TypingInv, TypingTypes
<1>3. \A s, t : Noted(s, t)' <=> Noted(s, t)
  BY Zenon, <1>1 DEF Noted
<1>4. ASSUME NEW s \in Typist, NEW t \in Topic PROVE AsNoted(s, t)'
  <2>1. AsNoted(s, t) /\ lastSaid[<<s, t>>] \in Nat /\ typingNow \in Nat
    BY Zenon DEF TypingInv, TypingTypes
  <2> QED BY <1>1, <1>3, <2>1, TypingAssumption DEF AsNoted
<1> QED BY Zenon, <1>2, <1>4 DEF TypingInv

\* IsTyping answers yes from an indicator until it is taken back or its time is up,
\* whatever the sender says of other threads and whenever cleanupExpiredTyping runs.
THEOREM TypingIsAsSaid == TypingSpec => []TypingAsSaid
<1>1. TypingInit => TypingInv
  BY TypingAssumption DEF TypingInit, TypingInv, TypingTypes, AsNoted, Noted
<1>2. TypingInv /\ [TypingNext]_typingVars => TypingInv'
  BY Zenon, IndicatorStep, CleanupStep, TypingOther DEF TypingNext
<1>3. TypingInv => TypingAsSaid
  <2> SUFFICES ASSUME TypingInv, NEW s \in Typist, NEW t \in Topic
               PROVE  IsTyping(s, t) <=> lastSaid[<<s, t>>] > 0 /\ typingNow < lastSaid[<<s, t>>] + TypingTime
    BY Zenon DEF TypingAsSaid
  <2>1. AsNoted(s, t) /\ lastSaid[<<s, t>>] \in Nat /\ typingNow \in Nat
    BY Zenon DEF TypingInv, TypingTypes
  <2>2. IsTyping(s, t) <=> Noted(s, t) /\ typingNow < typingState[s][t]
    BY Zenon DEF IsTyping, Noted
  <2> QED BY <2>1, <2>2, TypingAssumption DEF AsNoted
<1> QED BY <1>1, <1>2, <1>3, PTL DEF TypingSpec

\* Both parts of presence.go: watchers know what a query would tell them, and who types
\* is known as long as it is so.
THEOREM PresenceIsCurrent == PresSpec /\ TypingSpec => []PresenceCurrent
BY WatchersAreCurrent, TypingIsAsSaid, PTL DEF PresenceCurrent

-----------------------------------------------------------------------------
(***************************************************************************)
(* Keys of agents.  Every record, announcement and message carries the key *)
(* of the start it names; an agent that has missed nothing knows the key   *)
(* of the newest record; and without two registrations at once the newest  *)
(* record of an agent is that of its latest registered start.              *)
(***************************************************************************)
KeyAt(a, start) == IF a \in setup.keeps THEN 1 ELSE start

PeerRecord == [of : Peers, start : Nat, key : Nat]
PeerMessage == [kind : {"message"}, n : Nat, by : Nat, key : Nat, sealed : Nat, was : Nat]
PeerJob == [msg : PeerMessage, at : {"verify", "resolve", "listed", "decrypt"}, list : SUBSET PeerRecord]
Announcement == [kind : {"announce"}, key : Nat, start : Nat]
RecordList == [kind : {"list"}, records : SUBSET PeerRecord]
PeerPhase == {"down", "joining", "joined", "listing", "ready"}

PeerTypes ==
    /\ launches \in [Peers -> 0 .. OwnStarts] /\ phase \in [Peers -> PeerPhase] /\ knows \in [Peers -> Nat]
    /\ joining \subseteq PeerRecord /\ listed \subseteq PeerRecord
    /\ newest \in [Peers -> PeerRecord \cup {NoRecord}]
    /\ toward \in [Peers -> SUBSET (Announcement \cup RecordList \cup PeerMessage)]
    /\ waiting \subseteq PeerMessage /\ work \subseteq PeerJob
    /\ signed \in Seq(PeerMessage) /\ Len(signed) <= MaxSent
    /\ fate \in [1 .. MaxSent -> {"open", "handled", "unknown", "refused"}]
    /\ behind \subseteq Peers /\ doubled \in BOOLEAN

\* A record is of a start that has been, with the key of that start.
RecordTrue(r) == r.start > 0 /\ r.start <= launches[r.of] /\ r.key = KeyAt(r.of, r.start)

\* A start of an agent that was, with this key.
KeyUsed(a, key) == \E start \in 1 .. launches[a] : key = KeyAt(a, start)

OneAtATime ==
    /\ \A r, s \in joining : r.of = s.of => r = s
    /\ \A r \in joining : newest[r.of].start < r.start
    /\ \A a \in Peers : Joined(a) => newest[a].start = launches[a]

Registered ==
    /\ \A a \in Peers :
          /\ phase[a] # "down" => launches[a] > 0
          /\ phase[a] = "joining" => newest[a].start < launches[a]
          /\ newest[a] = NoRecord \/ (newest[a] \in listed /\ newest[a].of = a)
    /\ \A r \in listed \cup joining : RecordTrue(r)
    /\ \A r \in listed : newest[r.of] # NoRecord
    /\ ~doubled => OneAtATime
    /\ PinnedOnce

\* What a frame on the way to an agent says.
FrameTrue(a, f) ==
    /\ f.kind = "announce" => f.start > 0 /\ f.start <= launches[Other(a)] /\ f.key = KeyAt(Other(a), f.start)
    /\ f.kind = "list" => \A r \in f.records : RecordTrue(r)
    /\ f.kind = "message" => f.n \in DOMAIN signed /\ f = signed[f.n]

Learned(a) ==
    /\ phase[a] = "down" => toward[a] = {} /\ knows[a] = 0
    /\ \A f \in toward[a] : FrameTrue(a, f) /\ (f.kind = "list" => Joined(a))
    /\ knows[a] # 0 => KeyUsed(Other(a), knows[a])
    /\ a \notin behind =>
          /\ \A f \in Announcements(a) : f.start <= newest[Other(a)].start
          /\ phase[a] # "down" /\ Announcements(a) = {} /\ knows[a] # 0 => knows[a] = newest[Other(a)].key

\* A message of the sender's latest start is signed with the key of its newest record, and
\* sealed, if at all, with the key the receiver had.
SentTrue(m) ==
    /\ m.by > 0 /\ m.by <= launches["sender"] /\ m.was <= launches["receiver"]
    /\ m.key = KeyAt("sender", m.by) /\ (m.sealed # 0 => KeyUsed("receiver", m.sealed))
    /\ m.by = launches["sender"] =>
          /\ ~doubled => newest["sender"].start = launches["sender"]
          /\ "sender" \notin behind /\ m.sealed # 0 => m.sealed = KeyAt("receiver", m.was)

\* One that is being handled was verified with the key that is still known.
JobTrue(w) ==
    /\ w.msg.n \in DOMAIN signed /\ w.msg = signed[w.msg.n]
    /\ \A r \in w.list : RecordTrue(r)
    /\ w.at = "decrypt" =>
          /\ knows["receiver"] # 0
          /\ w.msg.by = launches["sender"] /\ ~doubled /\ "receiver" \notin behind =>
                knows["receiver"] = w.msg.key

\* What may have kept a message from being understood.
Excused(m) ==
    /\ Peers \ setup.keeps # {}
    /\ \/ m.by # launches["sender"] \/ m.was # launches["receiver"]
       \/ behind # {} \/ doubled

Mailed ==
    /\ \A n \in DOMAIN signed : SentTrue(signed[n]) /\ (fate[n] = "refused" => Excused(signed[n]))
    /\ \A m \in waiting : m.n \in DOMAIN signed /\ m = signed[m.n]
    /\ \A w \in work : JobTrue(w)
    /\ work # {} => phase["receiver"] # "down"
    /\ \A n \in 1 .. MaxSent : n \in DOMAIN signed \/ fate[n] = "open"

PeerInv == PeerTypes /\ Registered /\ (\A a \in Peers : Learned(a)) /\ Mailed

LEMMA PeerConstants == OwnStarts \in Nat /\ AllStarts \in Nat /\ MaxSent \in Nat
BY PeerKeysAssumption

LEMMA OtherAgent ==
    ASSUME NEW a \in Peers
    PROVE  Other(a) \in Peers /\ Other(a) # a /\ Other(Other(a)) = a /\ \A c \in Peers : c = a \/ c = Other(a)
<1>1. \A c \in Peers : \E b \in Peers : b # c
  BY DEF Peers
<1>2. \A c \in Peers : Other(c) \in Peers /\ Other(c) # c
  BY Zenon, <1>1 DEF Other
<1> QED BY <1>2 DEF Peers

LEMMA TheTwo == Other("sender") = "receiver" /\ Other("receiver") = "sender" /\ "sender" \in Peers /\ "receiver" \in Peers
<1>1. "sender" \in Peers /\ "receiver" \in Peers
  BY DEF Peers
<1>2. Other("sender") \in Peers /\ Other("sender") # "sender" /\ Other("receiver") \in Peers /\ Other("receiver") # "receiver"
  BY Zenon, <1>1, OtherAgent
<1> QED BY <1>1, <1>2 DEF Peers

LEMMA AgentTypes ==
    ASSUME PeerTypes, NEW a \in Peers
    PROVE  /\ launches[a] \in Nat /\ launches[a] <= OwnStarts /\ phase[a] \in PeerPhase /\ knows[a] \in Nat
           /\ newest[a] \in PeerRecord \cup {NoRecord} /\ newest[a].start \in Nat
           /\ OwnKey(a) = KeyAt(a, launches[a]) /\ OwnKey(a) \in Nat
<1>1. launches[a] \in 0 .. OwnStarts /\ phase[a] \in PeerPhase /\ knows[a] \in Nat /\ newest[a] \in PeerRecord \cup {NoRecord}
  BY Zenon DEF PeerTypes
<1>2. newest[a].start \in Nat
  BY <1>1 DEF PeerRecord, NoRecord
<1>3. launches[a] \in Nat /\ launches[a] <= OwnStarts
  BY <1>1, PeerConstants
<1>4. 1 \in Nat
  OBVIOUS
<1> QED BY Zenon, <1>1, <1>2, <1>3, <1>4 DEF OwnKey, KeyAt

LEMMA RecordTypes ==
    ASSUME NEW r \in PeerRecord
    PROVE  r.of \in Peers /\ r.start \in Nat /\ r.key \in Nat /\ r # NoRecord
<1>1. r.of \in Peers /\ r.start \in Nat /\ r.key \in Nat
  BY DEF PeerRecord
<1>2. NoRecord.of \notin Peers
  BY DEF NoRecord, Peers
<1> QED BY Zenon, <1>1, <1>2

\* The registration of an agent that has been started.
LEMMA OwnRecord ==
    ASSUME PeerTypes, NEW a \in Peers, launches[a] > 0
    PROVE  /\ RecordOf(a) \in PeerRecord /\ RecordTrue(RecordOf(a))
           /\ RecordOf(a).of = a /\ RecordOf(a).start = launches[a] /\ RecordOf(a).key = OwnKey(a)
<1>1. launches[a] \in Nat /\ OwnKey(a) = KeyAt(a, launches[a]) /\ OwnKey(a) \in Nat
  BY Zenon, AgentTypes
<1>2. /\ RecordOf(a) \in PeerRecord
      /\ RecordOf(a).of = a /\ RecordOf(a).start = launches[a] /\ RecordOf(a).key = OwnKey(a)
  BY <1>1 DEF RecordOf, PeerRecord
<1>3. launches[a] <= launches[a]
  BY <1>1
<1> QED BY Zenon, <1>1, <1>2, <1>3 DEF RecordTrue

\* Records, announcements and keys stay true as agents are started.
Onward == setup' = setup /\ \A a \in Peers : launches'[a] \in Nat /\ launches[a] \in Nat /\ launches[a] <= launches'[a]

LEMMA RecordStays ==
    ASSUME Onward, NEW r \in PeerRecord, RecordTrue(r)
    PROVE  RecordTrue(r)'
<1>1. r.of \in Peers /\ r.start \in Nat
  BY Zenon, RecordTypes
<1>2. launches'[r.of] \in Nat /\ launches[r.of] \in Nat /\ launches[r.of] <= launches'[r.of]
  BY Zenon, <1>1 DEF Onward
<1>3. r.start <= launches'[r.of]
  BY <1>1, <1>2 DEF RecordTrue
<1> QED BY Zenon, <1>3 DEF RecordTrue, KeyAt, Onward

LEMMA KeyStays ==
    ASSUME Onward, NEW a \in Peers, NEW key, KeyUsed(a, key)
    PROVE  KeyUsed(a, key)'
<1>1. \A start \in 1 .. launches[a] : start \in 1 .. launches'[a]
  BY DEF Onward
<1> QED BY Zenon, <1>1 DEF KeyUsed, KeyAt, Onward

LEMMA OnwardAlways ==
    ASSUME PeerTypes, setup' = setup, launches' = launches
    PROVE  Onward
<1>1. \A a \in Peers : launches[a] \in Nat
  BY Zenon, AgentTypes
<1>2. \A a \in Peers : launches[a] <= launches[a]
  BY <1>1
<1> QED BY Zenon, <1>1, <1>2 DEF Onward

\* A true record's key is one the agent has used.
LEMMA RecordKey ==
    ASSUME PeerTypes, NEW r \in PeerRecord, RecordTrue(r)
    PROVE  KeyUsed(r.of, r.key) /\ r.key > 0
<1>1. r.of \in Peers /\ r.start \in Nat /\ launches[r.of] \in Nat
  BY Zenon, RecordTypes, AgentTypes
<1>2. r.start \in 1 .. launches[r.of]
  BY <1>1 DEF RecordTrue
<1>3. r.key > 0
  BY <1>1 DEF RecordTrue, KeyAt
<1> QED BY Zenon, <1>2, <1>3 DEF KeyUsed, RecordTrue

LEMMA NewestStart ==
    ASSUME PeerTypes, Registered, NEW a \in Peers
    PROVE  /\ newest[a].start <= launches[a]
           /\ newest[a] # NoRecord =>
                 /\ newest[a] \in PeerRecord /\ newest[a].of = a /\ RecordTrue(newest[a])
                 /\ newest[a].key = KeyAt(a, newest[a].start)
<1>1. launches[a] \in Nat
  BY Zenon, AgentTypes
<1>2. CASE newest[a] = NoRecord
  <2>1. newest[a].start = 0
    BY <1>2 DEF NoRecord
  <2> QED BY <1>1, <1>2, <2>1
<1>3. CASE newest[a] \in listed /\ newest[a].of = a
  <2>1. newest[a] \in PeerRecord /\ RecordTrue(newest[a])
    BY Zenon, <1>3 DEF Registered, PeerTypes
  <2> QED BY Zenon, <1>3, <2>1 DEF RecordTrue
<1> QED BY Zenon, <1>2, <1>3 DEF Registered

LEMMA FrameStays ==
    ASSUME Onward, NEW a \in Peers, NEW f \in Announcement \cup RecordList \cup PeerMessage, FrameTrue(a, f),
           \A n \in DOMAIN signed : n \in DOMAIN signed' /\ signed'[n] = signed[n]
    PROVE  FrameTrue(a, f)'
<1>1. Other(a) \in Peers
  BY Zenon, OtherAgent
<1>2. ASSUME f.kind = "announce"
      PROVE  f.start > 0 /\ f.start <= launches'[Other(a)] /\ f.key = KeyAt(Other(a), f.start)'
  <2>1. f \in Announcement
    BY <1>2 DEF RecordList, PeerMessage
  <2>2. f.start \in Nat
    BY <2>1 DEF Announcement
  <2>3. launches'[Other(a)] \in Nat /\ launches[Other(a)] \in Nat /\ launches[Other(a)] <= launches'[Other(a)]
    BY Zenon, <1>1 DEF Onward
  <2>4. f.start > 0 /\ f.start <= launches[Other(a)] /\ f.key = KeyAt(Other(a), f.start)
    BY Zenon, <1>2 DEF FrameTrue
  <2>5. f.start <= launches'[Other(a)]
    BY <2>2, <2>3, <2>4
  <2> QED BY Zenon, <2>4, <2>5 DEF KeyAt, Onward
<1>3. ASSUME f.kind = "list", NEW r \in f.records
      PROVE  RecordTrue(r)'
  <2>1. f \in RecordList
    BY <1>3 DEF Announcement, PeerMessage
  <2>2. r \in PeerRecord
    BY <1>3, <2>1 DEF RecordList
  <2> QED BY Zenon, <1>3, <2>2, RecordStays DEF FrameTrue
<1>4. ASSUME f.kind = "message"
      PROVE  f.n \in DOMAIN signed' /\ f = signed'[f.n]
  BY Zenon, <1>4 DEF FrameTrue
<1> QED BY Zenon, <1>2, <1>3, <1>4 DEF FrameTrue

\* An agent to which, and about which, nothing happens.
LEMMA LearnedStays ==
    ASSUME PeerTypes, Onward, NEW a \in Peers, Learned(a), toward'[a] = toward[a], knows'[a] = knows[a],
           phase'[a] = phase[a],
           newest'[Other(a)] = newest[Other(a)], a \in behind => a \in behind',
           \A n \in DOMAIN signed : n \in DOMAIN signed' /\ signed'[n] = signed[n]
    PROVE  Learned(a)'
<1>1. Other(a) \in Peers
  BY Zenon, OtherAgent
<1>2. toward[a] \subseteq Announcement \cup RecordList \cup PeerMessage
  BY Zenon DEF PeerTypes
<1>3. \A f \in toward'[a] : FrameTrue(a, f)'
  BY Zenon, <1>2, FrameStays DEF Learned
<1>6. Joined(a)' = Joined(a)
  BY Zenon DEF Joined
<1>4. (knows[a] # 0 => KeyUsed(Other(a), knows[a]))'
  <2>1. PICK key : key = knows[a]
    BY Zenon
  <2>2. key # 0 => KeyUsed(Other(a), key)'
    BY Zenon, <1>1, <2>1, KeyStays DEF Learned
  <2> QED BY Zenon, <2>1, <2>2 DEF KeyUsed, KeyAt
<1>5. Announcements(a)' = Announcements(a)
  BY Zenon DEF Announcements
<1> QED BY Zenon, <1>3, <1>4, <1>5, <1>6 DEF Learned

\* A message when its sender is not started, and the sender's record stays.
LEMMA SentStays ==
    ASSUME Onward, NEW m \in PeerMessage, SentTrue(m), launches'["sender"] = launches["sender"],
           ~doubled' => ~doubled /\ newest'["sender"].start = newest["sender"].start,
           "sender" \in behind => "sender" \in behind'
    PROVE  SentTrue(m)'
<1>1. m.was \in Nat
  BY DEF PeerMessage
<1>2. launches'["receiver"] \in Nat /\ launches["receiver"] \in Nat /\ launches["receiver"] <= launches'["receiver"]
  BY Zenon, TheTwo DEF Onward
<1>3. m.was <= launches'["receiver"]
  BY <1>1, <1>2 DEF SentTrue
<1>4. m.sealed # 0 => KeyUsed("receiver", m.sealed)'
  BY Zenon, TheTwo, KeyStays DEF SentTrue
<1> QED BY Zenon, <1>3, <1>4 DEF SentTrue, KeyAt, Onward

LEMMA JobStays ==
    ASSUME Onward, NEW w \in PeerJob, JobTrue(w), launches'["sender"] = launches["sender"],
           knows'["receiver"] = knows["receiver"], ~doubled' => ~doubled,
           "receiver" \in behind => "receiver" \in behind',
           \A n \in DOMAIN signed : n \in DOMAIN signed' /\ signed'[n] = signed[n]
    PROVE  JobTrue(w)'
<1>1. w.list \subseteq PeerRecord
  BY DEF PeerJob
<1>2. \A r \in w.list : RecordTrue(r)'
  BY Zenon, <1>1, RecordStays DEF JobTrue
<1> QED BY Zenon, <1>2 DEF JobTrue

\* Excuses last while no agent is started.
LEMMA ExcusedStays ==
    ASSUME setup' = setup, launches' = launches, NEW m, Excused(m), behind # {} => behind' # {}, doubled => doubled'
    PROVE  Excused(m)'
BY Zenon DEF Excused

\* What was sent, when no agent is started.
LEMMA SentAllStay ==
    ASSUME PeerTypes, Mailed, setup' = setup, launches' = launches, signed' = signed,
           behind \subseteq behind', doubled => doubled',
           ~doubled' => newest'["sender"].start = newest["sender"].start
                        \/ \A n \in DOMAIN signed : signed[n].by # launches["sender"],
           NEW n \in DOMAIN signed
    PROVE  SentTrue(signed[n])' /\ (Excused(signed[n]) => Excused(signed[n])')
<1>1. Onward
  BY Zenon, OnwardAlways
<1>2. signed[n] \in PeerMessage
  BY DEF PeerTypes
<1>3. PICK m : m = signed[n]
  BY Zenon
<1>4. SentTrue(m)
  BY Zenon, <1>3 DEF Mailed
<1>5. SentTrue(m)'
  <2>1. CASE ~doubled' => newest'["sender"].start = newest["sender"].start
    BY Zenon, <1>1, <1>2, <1>3, <1>4, <2>1, SentStays
  <2>2. CASE m.by # launches["sender"]
    <3>1. m.sealed # 0 => KeyUsed("receiver", m.sealed)'
      BY Zenon, <1>1, <1>4, TheTwo, KeyStays DEF SentTrue
    <3> QED BY Zenon, <1>4, <2>2, <3>1 DEF SentTrue, KeyAt
  <2> QED BY Zenon, <1>3, <2>1, <2>2
<1>6. Excused(m) => Excused(m)'
  BY Zenon, ExcusedStays
<1> QED BY Zenon, <1>3, <1>5, <1>6 DEF SentTrue, Excused, KeyUsed, KeyAt

\* Messages when no agent is started and none is sent, taken or handled.
LEMMA MailStays ==
    ASSUME PeerTypes, Mailed, setup' = setup, launches' = launches, signed' = signed, fate' = fate,
           work' = work \/ work' = {}, knows'["receiver"] = knows["receiver"] \/ work' = {},
           work' # {} => phase'["receiver"] # "down", waiting' \subseteq waiting,
           behind \subseteq behind', doubled => doubled',
           ~doubled' => newest'["sender"].start = newest["sender"].start
                        \/ \A n \in DOMAIN signed : signed[n].by # launches["sender"]
    PROVE  Mailed'
<1>1. Onward
  BY Zenon, OnwardAlways
<1>2. \A w \in work' : JobTrue(w)'
  <2>1. CASE work' = {}
    BY Zenon, <2>1
  <2>2. CASE work' = work /\ knows'["receiver"] = knows["receiver"]
    BY Zenon, <1>1, <2>2, JobStays DEF Mailed, PeerTypes
  <2> QED BY Zenon, <2>1, <2>2
<1>3. \A n \in DOMAIN signed' : SentTrue(signed[n])' /\ (fate'[n] = "refused" => Excused(signed[n])')
  BY Zenon, SentAllStay DEF Mailed
<1> QED BY Zenon, <1>2, <1>3 DEF Mailed

LEMMA PeersStart ==
    ASSUME PeerKeyInit
    PROVE  PeerInv
<1> USE DEF PeerKeyInit
<1>1. PeerTypes
  <2>1. launches \in [Peers -> 0 .. OwnStarts]
    <3>1. 0 \in 0 .. OwnStarts
      BY PeerConstants
    <3> QED BY Zenon, <3>1
  <2>2. phase \in [Peers -> PeerPhase] /\ newest \in [Peers -> PeerRecord \cup {NoRecord}]
    BY Zenon DEF PeerPhase
  <2>3. knows \in [Peers -> Nat]
    BY DEF Peers
  <2>4. signed \in Seq(PeerMessage) /\ Len(signed) <= MaxSent
    BY PeerConstants
  <2> QED BY Zenon, <2>1, <2>2, <2>3, <2>4 DEF PeerTypes
<1>2. \A a \in Peers : phase[a] = "down" /\ newest[a] = NoRecord /\ toward[a] = {} /\ knows[a] = 0 /\ Announcements(a) = {}
  BY Zenon DEF Announcements
<1>3. \A a \in Peers : ~Joined(a)
  BY <1>2 DEF Joined
<1>4. Registered
  <2>1. OneAtATime
    BY Zenon, <1>3 DEF OneAtATime
  <2>2. \A a \in Peers : phase[a] # "joining"
    BY <1>2
  <2> QED BY Zenon, <1>2, <2>1, <2>2 DEF Registered, PinnedOnce
<1>5. \A a \in Peers : Learned(a)
  BY Zenon, <1>2 DEF Learned
<1>6. Mailed
  <2>1. DOMAIN signed = {}
    BY SMT
  <2> QED BY Zenon, <2>1 DEF Mailed
<1> QED BY Zenon, <1>1, <1>4, <1>5, <1>6 DEF PeerInv

LEMMA StartStep ==
    ASSUME PeerInv, NEW a \in Peers, StartAnew(a)
    PROVE  PeerInv'
<1> USE DEF PeerInv
<1>1. /\ phase[a] = "down" /\ launches[a] < OwnStarts
      /\ launches' = [launches EXCEPT ![a] = launches[a] + 1] /\ phase' = [phase EXCEPT ![a] = "joining"]
      /\ behind' = behind \ {a}
      /\ setup' = setup /\ joining' = joining /\ listed' = listed /\ newest' = newest /\ knows' = knows
      /\ toward' = toward /\ waiting' = waiting /\ work' = work /\ signed' = signed /\ fate' = fate
      /\ doubled' = doubled
  BY Zenon DEF StartAnew, relaySide, messageSide
<1>2. launches \in [Peers -> 0 .. OwnStarts] /\ phase \in [Peers -> PeerPhase] /\ launches[a] \in Nat
  BY Zenon, AgentTypes DEF PeerTypes
<1>3. launches[a] + 1 \in 0 .. OwnStarts /\ launches[a] + 1 > 0
  BY <1>1, <1>2, PeerConstants
<1>4. /\ launches' \in [Peers -> 0 .. OwnStarts] /\ phase' \in [Peers -> PeerPhase]
      /\ launches'[a] = launches[a] + 1 /\ phase'[a] = "joining"
      /\ \A c \in Peers \ {a} : launches'[c] = launches[c] /\ phase'[c] = phase[c]
  BY Zenon, <1>1, <1>2, <1>3 DEF PeerPhase
<1>5. PeerTypes'
  BY Zenon, <1>1, <1>4 DEF PeerTypes
<1>6. Onward
  <2>1. \A c \in Peers : launches[c] \in Nat
    BY Zenon, AgentTypes
  <2>2. \A c \in Peers : launches'[c] \in Nat /\ launches[c] <= launches'[c]
    BY <1>4, <2>1
  <2> QED BY Zenon, <1>1, <2>1, <2>2 DEF Onward
<1>7. Registered'
  <2>1. newest'[a].start < launches'[a] /\ launches'[a] > 0
    BY <1>1, <1>2, <1>3, <1>4, NewestStart, AgentTypes
  <2>2. ASSUME NEW c \in Peers
        PROVE  /\ phase'[c] # "down" => launches'[c] > 0
               /\ phase'[c] = "joining" => newest'[c].start < launches'[c]
               /\ newest'[c] = NoRecord \/ (newest'[c] \in listed' /\ newest'[c].of = c)
               /\ Joined(c)' => Joined(c) /\ c # a
    <3>1. ~Joined(a)'
      BY <1>4 DEF Joined
    <3>2. Registered
      BY Zenon
    <3> QED BY Zenon, <1>1, <1>4, <2>1, <3>1, <3>2 DEF Registered, Joined
  <2>3. \A r \in listed' \cup joining' : RecordTrue(r)'
    BY Zenon, <1>1, <1>6, RecordStays DEF Registered, PeerTypes
  <2>4. ~doubled' => OneAtATime'
    BY Zenon, <1>1, <1>4, <2>2 DEF Registered, OneAtATime
  <2>5. PinnedOnce'
    BY Zenon, <1>1 DEF Registered, PinnedOnce
  <2>6. \A r \in listed' : newest'[r.of] # NoRecord
    BY Zenon, <1>1 DEF Registered
  <2> QED BY Zenon, <2>2, <2>3, <2>4, <2>5, <2>6 DEF Registered
<1>8. ASSUME NEW c \in Peers
      PROVE  Learned(c)'
  <2>1. CASE c = a
    <3>1. toward'[a] = {} /\ knows'[a] = 0
      BY Zenon, <1>1 DEF Learned
    <3>2. Announcements(a)' = {}
      BY Zenon, <3>1 DEF Announcements
    <3> QED BY Zenon, <2>1, <3>1, <3>2 DEF Learned
  <2>2. CASE c # a
    BY Zenon, <1>1, <1>4, <1>6, <2>2, LearnedStays
  <2> QED BY Zenon, <2>1, <2>2
<1>9. ASSUME NEW m \in PeerMessage, SentTrue(m)
      PROVE  /\ SentTrue(m)' /\ (Peers \ setup.keeps # {} => Excused(m)')
             /\ a = "sender" => m.by # launches'["sender"]
  <2>1. m.by \in Nat /\ m.was \in Nat
    BY DEF PeerMessage
  <2>2. m.by <= launches["sender"] /\ m.was <= launches["receiver"]
    BY Zenon, <1>9 DEF SentTrue
  <2>3. launches["sender"] \in Nat /\ launches["receiver"] \in Nat
    BY Zenon, TheTwo, AgentTypes
  <2>4. CASE a = "sender"
    <3>1. m.by # launches'["sender"] /\ m.by <= launches'["sender"]
      BY <1>4, <2>1, <2>2, <2>3, <2>4
    <3>2. m.was <= launches'["receiver"]
      BY Zenon, <1>4, <2>2, <2>4, TheTwo, OtherAgent
    <3>3. m.sealed # 0 => KeyUsed("receiver", m.sealed)'
      BY Zenon, <1>6, <1>9, TheTwo, KeyStays DEF SentTrue
    <3>4. SentTrue(m)'
      BY Zenon, <1>1, <1>9, <3>1, <3>2, <3>3 DEF SentTrue, KeyAt
    <3> QED BY Zenon, <1>1, <3>1, <3>4 DEF Excused
  <2>5. CASE a = "receiver"
    <3>1. launches'["sender"] = launches["sender"] /\ ("sender" \in behind => "sender" \in behind')
      BY Zenon, <1>1, <1>4, <2>5, TheTwo, OtherAgent
    <3>2. m.was # launches'["receiver"]
      BY <1>4, <2>1, <2>2, <2>3, <2>5
    <3>3. SentTrue(m)'
      BY Zenon, <1>1, <1>6, <1>9, <3>1, SentStays
    <3>4. a # "sender"
      BY <2>5
    <3> QED BY Zenon, <1>1, <3>2, <3>3, <3>4 DEF Excused
  <2> QED BY Zenon, <2>4, <2>5 DEF Peers
<1>10. ASSUME NEW n \in DOMAIN signed
       PROVE  SentTrue(signed[n])' /\ (fate[n] = "refused" => Excused(signed[n])')
  <2>1. signed[n] \in PeerMessage
    BY DEF PeerTypes
  <2>2. SentTrue(signed[n]) /\ (fate[n] = "refused" => Peers \ setup.keeps # {})
    BY Zenon DEF Mailed, Excused
  <2>3. PICK m : m = signed[n]
    BY Zenon
  <2>4. SentTrue(m)' /\ (fate[n] = "refused" => Excused(m)')
    BY Zenon, <1>9, <2>1, <2>2, <2>3
  <2> QED BY Zenon, <1>1, <2>3, <2>4 DEF SentTrue, Excused, KeyUsed, KeyAt
<1>11. ASSUME NEW w \in work
       PROVE  JobTrue(w)'
  <2>1. a = "sender"
    BY Zenon, <1>1, <1>11 DEF Mailed, Peers
  <2>2. JobTrue(w) /\ w \in PeerJob
    BY Zenon DEF Mailed, PeerTypes
  <2>3. w.msg \in PeerMessage /\ w.list \subseteq PeerRecord
    BY <2>2 DEF PeerJob
  <2>4. SentTrue(w.msg)
    BY Zenon, <2>2 DEF JobTrue, Mailed
  <2>5. w.msg.by # launches'["sender"]
    BY Zenon, <1>9, <2>1, <2>3, <2>4
  <2>6. \A r \in w.list : RecordTrue(r)'
    BY Zenon, <1>6, <2>2, <2>3, RecordStays DEF JobTrue
  <2> QED BY Zenon, <1>1, <2>2, <2>5, <2>6 DEF JobTrue
<1>12. work' # {} => phase'["receiver"] # "down"
  <2>1. "joining" # "down"
    OBVIOUS
  <2> QED BY Zenon, <1>1, <1>4, <2>1, TheTwo DEF Mailed
<1>13. Mailed'
  BY Zenon, <1>1, <1>10, <1>11, <1>12 DEF Mailed
<1> QED BY Zenon, <1>5, <1>7, <1>8, <1>13

LEMMA GoneStep ==
    ASSUME PeerInv, NEW a \in Peers, Gone(a), setup' = setup, joining' = joining, listed' = listed,
           newest' = newest, launches' = launches, waiting' = waiting, signed' = signed, fate' = fate,
           behind' = behind, doubled' = doubled
    PROVE  PeerInv'
<1> USE DEF PeerInv
<1>1. /\ phase' = [phase EXCEPT ![a] = "down"] /\ toward' = [toward EXCEPT ![a] = {}]
      /\ knows' = [knows EXCEPT ![a] = 0] /\ work' = IF a = "receiver" THEN {} ELSE work
  BY Zenon DEF Gone
<1>2. /\ phase \in [Peers -> PeerPhase] /\ knows \in [Peers -> Nat]
      /\ toward \in [Peers -> SUBSET (Announcement \cup RecordList \cup PeerMessage)] /\ "down" \in PeerPhase /\ 0 \in Nat
  BY DEF PeerTypes, PeerPhase
<1>3. /\ phase' \in [Peers -> PeerPhase] /\ knows' \in [Peers -> Nat]
      /\ toward' \in [Peers -> SUBSET (Announcement \cup RecordList \cup PeerMessage)]
      /\ phase'[a] = "down" /\ knows'[a] = 0 /\ toward'[a] = {}
      /\ \A c \in Peers \ {a} : phase'[c] = phase[c] /\ knows'[c] = knows[c] /\ toward'[c] = toward[c]
  BY Zenon, <1>1, <1>2
<1>4. PeerTypes'
  BY Zenon, <1>1, <1>3 DEF PeerTypes
<1>5. Onward
  BY Zenon, OnwardAlways
<1>6. Registered'
  <2>1. ~Joined(a)' /\ phase'[a] # "joining" /\ \A c \in Peers \ {a} : Joined(c)' => Joined(c)
    BY <1>3 DEF Joined
  <2>2. \A r \in listed' \cup joining' : RecordTrue(r)'
    BY Zenon DEF Registered, RecordTrue, KeyAt
  <2>3. ~doubled' => OneAtATime'
    BY Zenon, <2>1 DEF Registered, OneAtATime
  <2>4. ASSUME NEW c \in Peers
        PROVE  /\ phase'[c] # "down" => launches'[c] > 0
               /\ phase'[c] = "joining" => newest'[c].start < launches'[c]
               /\ newest'[c] = NoRecord \/ (newest'[c] \in listed' /\ newest'[c].of = c)
    BY Zenon, <1>3, <2>1 DEF Registered
  <2>5. PinnedOnce'
    BY Zenon DEF Registered, PinnedOnce
  <2> QED BY Zenon, <2>2, <2>3, <2>4, <2>5 DEF Registered
<1>7. ASSUME NEW c \in Peers
      PROVE  Learned(c)'
  <2>1. CASE c = a
    <3>1. Announcements(a)' = {}
      BY Zenon, <1>3 DEF Announcements
    <3> QED BY Zenon, <1>3, <2>1, <3>1 DEF Learned
  <2>2. CASE c # a
    BY Zenon, <1>3, <1>5, <2>2, LearnedStays
  <2> QED BY Zenon, <2>1, <2>2
<1>8. Mailed'
  <2>1. CASE a = "receiver"
    <3>1. work' = {}
      BY Zenon, <1>1, <2>1
    <3> QED BY Zenon, <3>1, MailStays
  <2>2. CASE a = "sender"
    <3>1. a # "receiver" /\ "receiver" \in Peers
      BY Zenon, <2>2, TheTwo, OtherAgent
    <3>2. work' = work /\ knows'["receiver"] = knows["receiver"] /\ phase'["receiver"] = phase["receiver"]
      BY Zenon, <1>1, <1>3, <3>1
    <3>3. work' # {} => phase'["receiver"] # "down"
      BY Zenon, <3>2 DEF Mailed
    <3> QED BY Zenon, <3>2, <3>3, MailStays
  <2> QED BY Zenon, <2>1, <2>2 DEF Peers
<1> QED BY Zenon, <1>4, <1>6, <1>7, <1>8

LEMMA CheckStep ==
    ASSUME PeerInv, NEW a \in Peers, CheckRegistration(a)
    PROVE  PeerInv'
<1> USE DEF PeerInv
<1>1. /\ phase[a] = "joining" /\ setup' = setup /\ listed' = listed /\ newest' = newest /\ launches' = launches
      /\ waiting' = waiting /\ signed' = signed /\ fate' = fate /\ behind' = behind
  BY Zenon DEF CheckRegistration
<1>2. CASE Gone(a) /\ joining' = joining /\ doubled' = doubled
  BY Zenon, <1>1, <1>2, GoneStep
<1>3. CASE /\ setup.pins => checkPinnedKey(RecordOf(a))
           /\ joining' = joining \cup {RecordOf(a)}
           /\ doubled' = (doubled \/ \E r \in joining : r.of = a)
           /\ phase' = phase /\ toward' = toward /\ knows' = knows /\ work' = work
  <2> DEFINE own == RecordOf(a)
  <2>1. launches[a] > 0 /\ newest[a].start < launches[a]
    <3>1. "joining" # "down"
      OBVIOUS
    <3> QED BY Zenon, <1>1, <3>1 DEF Registered
  <2>2. own \in PeerRecord /\ RecordTrue(own) /\ own.of = a /\ own.start = launches[a]
    BY Zenon, <2>1, OwnRecord
  <2>3. (setup.pins => checkPinnedKey(own)) /\ joining' = joining \cup {own}
    BY Zenon, <1>3
  <2> HIDE DEF own
  <2>4. doubled' \in BOOLEAN /\ (~doubled' => ~doubled /\ \A r \in joining : r.of # a)
    BY Zenon, <1>3
  <2>5. PeerTypes'
    BY Zenon, <1>1, <1>3, <2>2, <2>3, <2>4 DEF PeerTypes
  <2>6. Onward
    BY Zenon, <1>1, OnwardAlways
  <2>7. \A r \in listed' \cup joining' : RecordTrue(r)'
    BY Zenon, <1>1, <2>2, <2>3 DEF Registered, RecordTrue, KeyAt
  <2>8. ~doubled' => OneAtATime'
    <3>1. SUFFICES ASSUME ~doubled'
                   PROVE  OneAtATime'
      BY Zenon
    <3>2. OneAtATime /\ \A r \in joining : r.of # a
      BY Zenon, <2>4, <3>1 DEF Registered
    <3>3. \A r, s \in joining' : r.of = s.of => r = s
      BY Zenon, <2>2, <2>3, <3>2 DEF OneAtATime
    <3>4. \A r \in joining' : newest'[r.of].start < r.start
      BY Zenon, <1>1, <2>1, <2>2, <2>3, <3>2 DEF OneAtATime
    <3>5. \A c \in Peers : Joined(c)' => newest'[c].start = launches'[c]
      BY Zenon, <1>1, <1>3, <3>2 DEF OneAtATime, Joined
    <3> QED BY Zenon, <3>3, <3>4, <3>5 DEF OneAtATime
  <2>9. PinnedOnce'
    <3>1. SUFFICES ASSUME setup.pins, ~doubled', NEW r \in listed \cup joining', NEW s \in listed \cup joining',
                          r.of = s.of
                   PROVE  r.key = s.key
      BY Zenon, <1>1 DEF PinnedOnce
    <3>2. \A q, t \in listed \cup joining : q.of = t.of => q.key = t.key
      BY Zenon, <2>4, <3>1 DEF Registered, PinnedOnce
    <3>3. ASSUME NEW t \in listed, t.of = a
          PROVE  t.key = own.key
      <4>1. newest[a] # NoRecord /\ newest[a] \in listed /\ newest[a].of = a
        BY Zenon, <3>3 DEF Registered
      <4>2. newest[a].key = own.key
        BY Zenon, <2>2, <2>3, <3>1, <4>1 DEF checkPinnedKey
      <4> QED BY Zenon, <3>2, <3>3, <4>1, <4>2
    <3>4. \A t \in joining : t.of # a
      BY Zenon, <2>4, <3>1
    <3>5. \A t \in listed \cup joining : t.of = a => t.key = own.key
      BY Zenon, <3>3, <3>4
    <3> QED BY Zenon, <2>2, <2>3, <3>1, <3>2, <3>5
  <2>10. Registered'
    <3>1. ASSUME NEW c \in Peers
          PROVE  /\ phase'[c] # "down" => launches'[c] > 0
                 /\ phase'[c] = "joining" => newest'[c].start < launches'[c]
                 /\ newest'[c] = NoRecord \/ (newest'[c] \in listed' /\ newest'[c].of = c)
      BY Zenon, <1>1, <1>3 DEF Registered
    <3>2. \A r \in listed' : newest'[r.of] # NoRecord
      BY Zenon, <1>1 DEF Registered
    <3> QED BY Zenon, <2>7, <2>8, <2>9, <3>1, <3>2 DEF Registered
  <2>11. \A c \in Peers : Learned(c)'
    BY Zenon, <1>1, <1>3, <2>6, LearnedStays
  <2>12. Mailed'
    <3>1. work' # {} => phase'["receiver"] # "down"
      BY Zenon, <1>3 DEF Mailed
    <3>2. doubled => doubled'
      BY Zenon, <2>4
    <3> QED BY Zenon, <1>1, <1>3, <3>1, <3>2, MailStays
  <2> QED BY Zenon, <2>5, <2>10, <2>11, <2>12
<1> QED BY Zenon, <1>2, <1>3 DEF CheckRegistration

\* Put and the frames it sends: what StoreRegistration does to each agent.
LEMMA StoreEffect ==
    ASSUME PeerInv, NEW r \in joining, StoreRegistration(r)
    PROVE  LET a == r.of
               b == Other(r.of)
               alive == phase[a] = "joining" /\ r = RecordOf(a)
           IN  /\ setup' = setup /\ launches' = launches /\ knows' = knows /\ work' = work /\ signed' = signed
               /\ fate' = fate /\ doubled' = doubled /\ waiting' \subseteq waiting
               /\ joining' = joining \ {r} /\ listed' \subseteq listed \cup {r} /\ r \in listed'
               /\ \A s \in listed : s.of # a => s \in listed'
               /\ newest'[a] = r /\ newest'[b] = newest[b] /\ phase'[b] = phase[b]
               /\ IF alive THEN phase'[a] \in {"joined", "ready"} ELSE phase'[a] = phase[a]
               /\ behind \subseteq behind' /\ (r.start < newest[a].start => b \in behind')
               /\ toward[a] \subseteq toward'[a] /\ toward'[a] \subseteq toward[a] \cup waiting
               /\ ~alive => toward'[a] = toward[a]
               /\ toward'[b] = toward[b] \cup (IF phase[b] # "down"
                                               THEN {[kind |-> "announce", key |-> r.key, start |-> r.start]}
                                               ELSE {})
               /\ PeerTypes'
<1> USE DEF PeerInv
<1> DEFINE a == r.of
           b == Other(a)
           alive == phase[a] = "joining" /\ r = RecordOf(a)
           told == IF phase[b] # "down" THEN {[kind |-> "announce", key |-> r.key, start |-> r.start]} ELSE {}
           p == CASE ~alive -> phase[a] [] alive /\ a \in setup.discovers -> "joined" [] OTHER -> "ready"
<1>1. r \in PeerRecord /\ a \in Peers /\ b \in Peers /\ b # a /\ r.start \in Nat /\ r.key \in Nat
  <2>1. r \in PeerRecord
    BY Zenon DEF PeerTypes
  <2> QED BY Zenon, <2>1, RecordTypes, OtherAgent
<1>2. /\ setup' = setup /\ launches' = launches /\ knows' = knows /\ work' = work /\ signed' = signed
      /\ fate' = fate /\ doubled' = doubled /\ joining' = joining \ {r}
      /\ listed' = {s \in listed : setup.inMemory \/ s.of # a} \cup {r}
      /\ newest' = [newest EXCEPT ![a] = r] /\ phase' = [phase EXCEPT ![a] = p]
      /\ behind' = behind \cup {c \in {b} : r.start < newest[a].start}
  BY Zenon DEF StoreRegistration
<1>3. /\ alive /\ a = "receiver" => /\ waiting' = {}
                                    /\ toward' = [toward EXCEPT ![a] = toward[a] \cup waiting, ![b] = @ \cup told]
      /\ ~(alive /\ a = "receiver") => toward' = [toward EXCEPT ![b] = toward[b] \cup told] /\ waiting' = waiting
  BY Zenon DEF StoreRegistration
<1>4. p \in PeerPhase /\ (alive => p \in {"joined", "ready"}) /\ (~alive => p = phase[a])
  <2>1. phase[a] \in PeerPhase
    BY Zenon, <1>1, AgentTypes
  <2>2. (alive => p \in {"joined", "ready"}) /\ (~alive => p = phase[a])
    BY Zenon
  <2> QED BY Zenon, <2>1, <2>2 DEF PeerPhase
<1>5. told \subseteq Announcement
  BY <1>1 DEF Announcement
<1>6. /\ phase \in [Peers -> PeerPhase] /\ newest \in [Peers -> PeerRecord \cup {NoRecord}]
      /\ toward \in [Peers -> SUBSET (Announcement \cup RecordList \cup PeerMessage)] /\ waiting \subseteq PeerMessage
  BY Zenon DEF PeerTypes
<1> HIDE DEF p, told
<1>7. /\ phase' \in [Peers -> PeerPhase] /\ phase'[a] = p /\ phase'[b] = phase[b]
      /\ newest' \in [Peers -> PeerRecord \cup {NoRecord}] /\ newest'[a] = r /\ newest'[b] = newest[b]
  BY Zenon, <1>1, <1>2, <1>4, <1>6
<1>8. /\ toward' \in [Peers -> SUBSET (Announcement \cup RecordList \cup PeerMessage)] /\ waiting' \subseteq waiting
      /\ toward[a] \subseteq toward'[a] /\ toward'[a] \subseteq toward[a] \cup waiting
      /\ ~alive => toward'[a] = toward[a]
      /\ toward'[b] = toward[b] \cup told
  <2>1. CASE alive /\ a = "receiver"
    <3>1. toward' = [toward EXCEPT ![a] = toward[a] \cup waiting, ![b] = @ \cup told] /\ waiting' = {}
      BY Zenon, <1>3, <2>1
    <3>2. toward'[a] = toward[a] \cup waiting /\ toward'[b] = toward[b] \cup told /\ DOMAIN toward' = Peers
      BY <1>1, <1>6, <3>1
    <3>3. toward'[a] \in SUBSET (Announcement \cup RecordList \cup PeerMessage)
          /\ toward'[b] \in SUBSET (Announcement \cup RecordList \cup PeerMessage)
      BY Zenon, <1>1, <1>5, <1>6, <3>2
    <3>4. toward' \in [Peers -> SUBSET (Announcement \cup RecordList \cup PeerMessage)]
      BY <1>1, <1>6, <3>1, <3>2, <3>3, OtherAgent
    <3> QED BY Zenon, <2>1, <3>1, <3>2, <3>4
  <2>2. CASE ~(alive /\ a = "receiver")
    <3>1. toward' = [toward EXCEPT ![b] = toward[b] \cup told] /\ waiting' = waiting
      BY Zenon, <1>3, <2>2
    <3>2. toward[b] \cup told \in SUBSET (Announcement \cup RecordList \cup PeerMessage)
      BY Zenon, <1>1, <1>5, <1>6
    <3>3. /\ toward' \in [Peers -> SUBSET (Announcement \cup RecordList \cup PeerMessage)]
          /\ toward'[a] = toward[a] /\ toward'[b] = toward[b] \cup told
      BY Zenon, <1>1, <1>6, <3>1, <3>2
    <3> QED BY Zenon, <3>1, <3>3
  <2> QED BY Zenon, <2>1, <2>2
<1>9. listed' \subseteq listed \cup {r} /\ r \in listed' /\ \A s \in listed : s.of # a => s \in listed'
  BY Zenon, <1>2
<1>10. behind \subseteq behind' /\ behind' \subseteq behind \cup {b} /\ (r.start < newest[a].start => b \in behind')
  BY Zenon, <1>2
<1>11. PeerTypes'
  BY Zenon, <1>1, <1>2, <1>7, <1>8, <1>9, <1>10 DEF PeerTypes
<1> QED BY Zenon, <1>2, <1>4, <1>7, <1>8, <1>9, <1>10, <1>11 DEF told

LEMMA StoreStep ==
    ASSUME PeerInv, NEW r \in joining, StoreRegistration(r)
    PROVE  PeerInv'
<1> USE DEF PeerInv
<1> DEFINE a == r.of
           b == Other(a)
           alive == phase[a] = "joining" /\ r = RecordOf(a)
<1>1. /\ setup' = setup /\ launches' = launches /\ knows' = knows /\ work' = work /\ signed' = signed
      /\ fate' = fate /\ doubled' = doubled /\ waiting' \subseteq waiting
      /\ joining' = joining \ {r} /\ listed' \subseteq listed \cup {r} /\ r \in listed'
      /\ \A s \in listed : s.of # a => s \in listed'
      /\ newest'[a] = r /\ newest'[b] = newest[b] /\ phase'[b] = phase[b]
      /\ alive => phase'[a] \in {"joined", "ready"}
      /\ ~alive => phase'[a] = phase[a]
      /\ behind \subseteq behind' /\ (r.start < newest[a].start => b \in behind')
      /\ toward[a] \subseteq toward'[a] /\ toward'[a] \subseteq toward[a] \cup waiting
      /\ ~alive => toward'[a] = toward[a]
      /\ toward'[b] = toward[b] \cup (IF phase[b] # "down"
                                      THEN {[kind |-> "announce", key |-> r.key, start |-> r.start]}
                                      ELSE {})
      /\ PeerTypes'
  BY Zenon, StoreEffect
<1>2. r \in PeerRecord /\ RecordTrue(r) /\ a \in Peers /\ b \in Peers /\ b # a /\ r # NoRecord
  <2>1. r \in PeerRecord
    BY Zenon DEF PeerTypes
  <2> QED BY Zenon, <2>1, RecordTypes, OtherAgent DEF Registered
<1>3. /\ r.start \in Nat /\ r.start > 0 /\ r.start <= launches[a] /\ r.key = KeyAt(a, r.start)
      /\ launches[a] \in Nat /\ newest[a].start \in Nat
  BY Zenon, <1>2, RecordTypes, AgentTypes DEF RecordTrue
<1>4. \A c \in Peers : c = a \/ c = b
  BY Zenon, <1>2, OtherAgent
<1>5. alive => /\ phase[a] = "joining" /\ r.start = launches[a]
               /\ phase'[a] # "down" /\ phase'[a] # "joining" /\ phase[a] # "down"
  <2>1. alive => phase[a] = "joining" /\ r = RecordOf(a)
    BY Zenon
  <2>2. RecordOf(a).start = launches[a]
    BY DEF RecordOf
  <2> HIDE DEF alive
  <2> QED BY <1>1, <2>1, <2>2
<1>6. ~alive /\ phase[a] = "joining" => r.start < launches[a]
  <2>1. r.start = launches[a] => r = RecordOf(a)
    <3>1. OwnKey(a) = KeyAt(a, launches[a])
      BY Zenon, <1>2, AgentTypes
    <3>2. r = [of |-> a, start |-> r.start, key |-> r.key]
      BY <1>2 DEF PeerRecord
    <3> QED BY Zenon, <1>3, <3>1, <3>2 DEF RecordOf
  <2>2. r.start # launches[a] => r.start < launches[a]
    BY <1>3
  <2> QED BY Zenon, <2>1, <2>2
<1>7. ~doubled => newest[a].start < r.start /\ (\A s \in joining' : s.of # a) /\ newest[a].start # launches[a]
  <2>1. ~doubled => newest[a].start < r.start /\ (\A s \in joining' : s.of # a)
    BY Zenon, <1>1 DEF Registered, OneAtATime
  <2> QED BY <1>3, <2>1
<1> HIDE DEF alive, a, b
<1>8. \A s \in listed' \cup joining' : RecordTrue(s)'
  <2>1. \A s \in listed \cup joining : RecordTrue(s)
    BY Zenon DEF Registered
  <2> QED BY Zenon, <1>1, <1>2, <2>1 DEF RecordTrue, KeyAt
<1>9. ~doubled' => OneAtATime'
  <2>1. SUFFICES ASSUME ~doubled
                 PROVE  OneAtATime'
    BY Zenon, <1>1
  <2>2. OneAtATime
    BY Zenon, <2>1 DEF Registered
  <2>3. \A s, t \in joining' : s.of = t.of => s = t
    BY Zenon, <1>1, <2>2 DEF OneAtATime
  <2>4. ASSUME NEW s \in joining'
        PROVE  newest'[s.of].start < s.start
    <3>1. s \in joining /\ s.of \in Peers /\ s.of # a
      <4>1. s \in joining /\ s \in PeerRecord
        BY Zenon, <1>1 DEF PeerTypes
      <4> QED BY Zenon, <1>7, <2>1, <4>1, RecordTypes
    <3>2. s.of = b
      BY Zenon, <1>4, <3>1
    <3> QED BY Zenon, <1>1, <2>2, <3>1, <3>2 DEF OneAtATime
  <2>5. ASSUME NEW c \in Peers, Joined(c)'
        PROVE  newest'[c].start = launches'[c]
    <3>1. CASE c = b
      <4>1. Joined(b)
        BY Zenon, <1>1, <2>5, <3>1 DEF Joined
      <4> QED BY Zenon, <1>1, <1>2, <2>2, <3>1, <4>1 DEF OneAtATime
    <3>2. CASE c = a /\ alive
      BY Zenon, <1>1, <1>5, <3>2
    <3>3. CASE c = a /\ ~alive
      <4>1. Joined(a)
        BY Zenon, <1>1, <2>5, <3>3 DEF Joined
      <4> QED BY Zenon, <1>2, <1>7, <2>1, <2>2, <4>1 DEF OneAtATime
    <3> QED BY Zenon, <1>4, <3>1, <3>2, <3>3
  <2> QED BY Zenon, <2>3, <2>4, <2>5 DEF OneAtATime
<1>10. PinnedOnce'
  <2>1. listed' \cup joining' \subseteq listed \cup joining
    BY Zenon, <1>1
  <2> QED BY Zenon, <1>1, <2>1 DEF Registered, PinnedOnce
<1>11. Registered'
  <2>1. ASSUME NEW c \in Peers
        PROVE  /\ phase'[c] # "down" => launches'[c] > 0
               /\ phase'[c] = "joining" => newest'[c].start < launches'[c]
               /\ newest'[c] = NoRecord \/ (newest'[c] \in listed' /\ newest'[c].of = c)
    <3>1. CASE c = a
      <4>1. newest'[a] \in listed' /\ newest'[a].of = a
        BY Zenon, <1>1 DEF a
      <4>2. phase'[a] # "down" => launches'[a] > 0
        BY Zenon, <1>1, <1>2, <1>5 DEF Registered
      <4>3. phase'[a] = "joining" => newest'[a].start < launches'[a]
        BY Zenon, <1>1, <1>5, <1>6
      <4> QED BY Zenon, <3>1, <4>1, <4>2, <4>3
    <3>2. CASE c = b
      BY Zenon, <1>1, <1>2, <3>2 DEF Registered
    <3> QED BY Zenon, <1>4, <3>1, <3>2
  <2>2. ASSUME NEW s \in listed'
        PROVE  newest'[s.of] # NoRecord
    <3>1. CASE s.of = a
      BY Zenon, <1>1, <1>2, <3>1
    <3>2. CASE s.of # a
      <4>1. s \in listed
        BY Zenon, <1>1, <3>2 DEF a
      <4>2. s.of \in Peers
        <5>1. s \in PeerRecord
          BY Zenon, <4>1 DEF PeerTypes
        <5> QED BY Zenon, <5>1, RecordTypes
      <4> QED BY Zenon, <1>1, <1>4, <3>2, <4>1, <4>2 DEF Registered
    <3> QED BY Zenon, <3>1, <3>2
  <2> QED BY Zenon, <1>8, <1>9, <1>10, <2>1, <2>2 DEF Registered
<1>12. Onward
  BY Zenon, <1>1, OnwardAlways
<1>13. Learned(a)'
  <2>1. Learned(a) /\ Other(a) = b
    BY Zenon, <1>2 DEF b
  <2>2. ASSUME NEW m \in waiting
        PROVE  FrameTrue(a, m) /\ m \in PeerMessage /\ m.kind = "message"
    <3>1. m \in PeerMessage /\ m.n \in DOMAIN signed /\ m = signed[m.n]
      BY Zenon DEF PeerTypes, Mailed
    <3>2. m.kind = "message"
      BY <3>1 DEF PeerMessage
    <3>3. m.kind # "announce" /\ m.kind # "list"
      BY <3>2
    <3> QED BY Zenon, <3>1, <3>2, <3>3 DEF FrameTrue
  <2>3. ASSUME NEW f \in toward'[a]
        PROVE  FrameTrue(a, f)'
    <3>1. FrameTrue(a, f)
      BY Zenon, <1>1, <2>1, <2>2 DEF Learned
    <3> QED BY Zenon, <1>1, <3>1 DEF FrameTrue, RecordTrue, KeyAt
  <2>4. Announcements(a)' = Announcements(a)
    <3>1. \A m \in waiting : m.kind # "announce"
      BY <2>2
    <3> QED BY Zenon, <1>1, <3>1 DEF Announcements
  <2>5. (knows[a] # 0 => KeyUsed(Other(a), knows[a]))'
    BY Zenon, <1>1, <2>1 DEF Learned, KeyUsed, KeyAt
  <2>6. (phase'[a] = "down" => phase[a] = "down" /\ ~alive) /\ (phase'[a] # "down" => phase[a] # "down")
    BY Zenon, <1>1, <1>5
  <2>7. phase'[a] = "down" => toward'[a] = {} /\ knows'[a] = 0
    BY Zenon, <1>1, <2>1, <2>6 DEF Learned
  <2>8. ASSUME NEW f \in toward'[a], f.kind = "list"
        PROVE  Joined(a)'
    <3>1. f \notin waiting
      BY <2>2, <2>8
    <3>2. Joined(a)
      BY Zenon, <1>1, <2>1, <2>8, <3>1 DEF Learned
    <3>3. Joined(a) => phase[a] # "joining"
      BY DEF Joined
    <3> QED BY Zenon, <1>1, <1>5, <3>2, <3>3 DEF Joined
  <2> QED BY Zenon, <1>1, <2>1, <2>3, <2>4, <2>5, <2>6, <2>7, <2>8 DEF Learned
<1>14. Learned(b)'
  <2>1. Learned(b) /\ Other(b) = a
    BY Zenon, <1>2, OtherAgent DEF b
  <2> DEFINE note == [kind |-> "announce", key |-> r.key, start |-> r.start]
  <2>2. note.kind = "announce" /\ note.start = r.start /\ note.key = r.key
    OBVIOUS
  <2>3. toward'[b] = toward[b] \cup (IF phase[b] # "down" THEN {note} ELSE {})
    BY Zenon, <1>1
  <2> HIDE DEF note
  <2>4. FrameTrue(b, note)
    <3>1. note.kind # "list" /\ note.kind # "message"
      BY <2>2
    <3> QED BY Zenon, <1>3, <2>1, <2>2, <3>1 DEF FrameTrue
  <2>5. ASSUME NEW f \in toward'[b]
        PROVE  FrameTrue(b, f)'
    <3>1. FrameTrue(b, f)
      BY Zenon, <2>1, <2>3, <2>4 DEF Learned
    <3> QED BY Zenon, <1>1, <3>1 DEF FrameTrue, RecordTrue, KeyAt
  <2>6. (knows[b] # 0 => KeyUsed(Other(b), knows[b]))'
    BY Zenon, <1>1, <2>1 DEF Learned, KeyUsed, KeyAt
  <2>7. phase'[b] = "down" => toward'[b] = {} /\ knows'[b] = 0
    BY Zenon, <1>1, <2>1, <2>3 DEF Learned
  <2>8. phase'[b] # "down" => note \in Announcements(b)'
    BY Zenon, <1>1, <2>2, <2>3 DEF Announcements
  <2>9. ASSUME b \notin behind', NEW f \in Announcements(b)'
        PROVE  f.start <= newest'[Other(b)].start
    <3>1. newest'[Other(b)] = r /\ ~(r.start < newest[a].start) /\ b \notin behind
      BY Zenon, <1>1, <2>1, <2>9
    <3>2. CASE f = note
      BY <1>3, <2>2, <3>1, <3>2
    <3>3. CASE f \in Announcements(b)
      <4>1. f.start <= newest[a].start
        BY Zenon, <2>1, <3>1, <3>3 DEF Learned
      <4>2. f.start \in Nat
        <5>1. f \in Announcement \cup RecordList \cup PeerMessage /\ f.kind = "announce"
          BY Zenon, <1>2, <3>3 DEF Announcements, PeerTypes
        <5> QED BY <5>1 DEF Announcement, RecordList, PeerMessage
      <4> QED BY <1>3, <3>1, <4>1, <4>2
    <3> QED BY Zenon, <2>3, <2>9, <3>2, <3>3 DEF Announcements
  <2>10. ASSUME NEW f \in toward'[b], f.kind = "list"
         PROVE  Joined(b)'
    <3>1. f # note
      BY <2>2, <2>10
    <3>2. Joined(b)
      BY Zenon, <2>1, <2>3, <2>10, <3>1 DEF Learned
    <3> QED BY Zenon, <1>1, <3>2 DEF Joined
  <2> QED BY Zenon, <2>5, <2>6, <2>7, <2>8, <2>9, <2>10 DEF Learned
<1>15. Mailed'
  <2>1. work' # {} => phase'["receiver"] # "down"
    BY Zenon, <1>1, <1>4, <1>5, TheTwo DEF Mailed
  <2>2. ~doubled' => newest'["sender"].start = newest["sender"].start
                     \/ \A n \in DOMAIN signed : signed[n].by # launches["sender"]
    BY Zenon, <1>1, <1>4, <1>7, TheTwo DEF Mailed, SentTrue
  <2> QED BY Zenon, <1>1, <2>1, <2>2, MailStays
<1> QED BY Zenon, <1>1, <1>4, <1>11, <1>13, <1>14, <1>15

\* The relay's records when no agent is started, ends or registers.
LEMMA RegisteredStays ==
    ASSUME Registered, setup' = setup, joining' = joining, listed' = listed, newest' = newest,
           launches' = launches, doubled' = doubled,
           \A c \in Peers : phase'[c] = phase[c] \/ (Joined(c) /\ Joined(c)')
    PROVE  Registered'
<1>1. \A c \in Peers : Joined(c)' => Joined(c)
  BY Zenon DEF Joined
<1>2. \A c \in Peers : /\ phase'[c] = "joining" => phase[c] = "joining"
                       /\ phase'[c] # "down" => phase[c] # "down"
  BY DEF Joined
<1>3. ~doubled' => OneAtATime'
  BY Zenon, <1>1 DEF Registered, OneAtATime
<1>4. \A r \in listed' \cup joining' : RecordTrue(r)'
  BY Zenon DEF Registered, RecordTrue, KeyAt
<1>5. PinnedOnce'
  BY Zenon DEF Registered, PinnedOnce
<1> QED BY Zenon, <1>2, <1>3, <1>4, <1>5 DEF Registered

\* The agent learns a key: that of the newest record, or it is behind.
Learns(a, key) ==
    /\ knows' = [knows EXCEPT ![a] = key]
    /\ behind \subseteq behind' /\ behind' \subseteq behind \cup {a}
    /\ a \notin behind' => key = newest[Other(a)].key

LEMMA LearnedNow ==
    ASSUME PeerInv, NEW a \in Peers, NEW key \in Nat, key # 0, KeyUsed(Other(a), key), Learns(a, key),
           setup' = setup, launches' = launches, newest' = newest, signed' = signed,
           phase[a] # "down", phase'[a] # "down", phase'[a] = phase[a] \/ Joined(a)', toward'[a] \subseteq toward[a],
           \A c \in Peers \ {a} : toward'[c] = toward[c] /\ phase'[c] = phase[c]
    PROVE  \A c \in Peers : Learned(c)'
<1> USE DEF PeerInv
<1>1. knows'[a] = key /\ \A c \in Peers \ {a} : knows'[c] = knows[c]
  BY Zenon DEF Learns, PeerTypes
<1>2. Onward /\ Other(a) \in Peers
  BY Zenon, OnwardAlways, OtherAgent
<1>3. ASSUME NEW c \in Peers \ {a}
      PROVE  Learned(c)'
  <2>1. c \in behind => c \in behind'
    BY Zenon DEF Learns
  <2> QED BY Zenon, <1>1, <1>2, <2>1, LearnedStays
<1>4. Learned(a)'
  <2>1. Learned(a)
    BY Zenon
  <2>2. \A f \in toward'[a] : FrameTrue(a, f)'
    BY Zenon, <2>1 DEF Learned, FrameTrue, RecordTrue, KeyAt
  <2>3. (knows[a] # 0 => KeyUsed(Other(a), knows[a]))'
    BY Zenon, <1>1 DEF KeyUsed, KeyAt
  <2>4. a \notin behind' => a \notin behind /\ knows'[a] = newest'[Other(a)].key
    BY Zenon, <1>1 DEF Learns
  <2>5. a \notin behind' => \A f \in Announcements(a)' : f.start <= newest'[Other(a)].start
    BY Zenon, <2>1, <2>4 DEF Learned, Announcements
  <2>6. \A f \in toward'[a] : f.kind = "list" => Joined(a)'
    BY Zenon, <2>1 DEF Learned, Joined
  <2> QED BY Zenon, <2>2, <2>3, <2>4, <2>5, <2>6 DEF Learned
<1> QED BY Zenon, <1>3, <1>4

\* What the receiver is handling, when it learns a key.
LEMMA JobLearns ==
    ASSUME PeerInv, NEW a \in Peers, NEW key \in Nat, key # 0, Learns(a, key),
           setup' = setup, launches' = launches, signed' = signed, doubled' = doubled,
           NEW w \in PeerJob, JobTrue(w)
    PROVE  JobTrue(w)'
<1> USE DEF PeerInv
<1>1. knows'[a] = key /\ \A c \in Peers \ {a} : knows'[c] = knows[c]
  BY Zenon DEF Learns, PeerTypes
<1>2. Onward
  BY Zenon, OnwardAlways
<1>3. CASE a # "receiver"
  <2>1. "receiver" \in behind => "receiver" \in behind'
    BY Zenon DEF Learns
  <2> QED BY Zenon, <1>1, <1>2, <1>3, <2>1, TheTwo, JobStays
<1>4. CASE a = "receiver"
  <2>1. ASSUME w.msg.by = launches["sender"], ~doubled, "receiver" \notin behind'
        PROVE  key = w.msg.key
    <3>1. SentTrue(w.msg)
      BY Zenon DEF JobTrue, Mailed
    <3>2. /\ newest["sender"].start = launches["sender"] /\ launches["sender"] > 0
          /\ w.msg.key = KeyAt("sender", launches["sender"])
      BY Zenon, <2>1, <3>1 DEF SentTrue
    <3>3. newest["sender"] # NoRecord
      <4>1. NoRecord.start = 0
        BY DEF NoRecord
      <4> QED BY <3>2, <4>1
    <3>4. newest["sender"].key = KeyAt("sender", newest["sender"].start)
      BY Zenon, <3>3, TheTwo, NewestStart
    <3> QED BY Zenon, <1>4, <2>1, <3>2, <3>4, TheTwo DEF Learns
  <2>2. \A r \in w.list : RecordTrue(r)'
    BY Zenon DEF JobTrue, RecordTrue, KeyAt
  <2> QED BY Zenon, <1>1, <1>4, <2>1, <2>2 DEF JobTrue
<1> QED BY Zenon, <1>3, <1>4

LEMMA MailLearns ==
    ASSUME PeerInv, NEW a \in Peers, NEW key \in Nat, key # 0, Learns(a, key),
           setup' = setup, launches' = launches, newest' = newest, signed' = signed, doubled' = doubled,
           fate' = fate, waiting' = waiting, work' = work, work' # {} => phase'["receiver"] # "down"
    PROVE  Mailed'
<1> USE DEF PeerInv
<1>1. \A w \in work' : JobTrue(w)'
  BY Zenon, JobLearns DEF Mailed, PeerTypes
<1>2. behind \subseteq behind'
  BY Zenon DEF Learns
<1>3. \A n \in DOMAIN signed' : SentTrue(signed[n])' /\ (fate'[n] = "refused" => Excused(signed[n])')
  BY Zenon, <1>2, SentAllStay DEF Mailed
<1> QED BY Zenon, <1>1, <1>3 DEF Mailed

LEMMA AddPeerLearns ==
    ASSUME PeerInv, NEW a \in Peers, NEW list \in SUBSET PeerRecord, \A r \in list : RecordTrue(r), AddPeer(a, list)
    PROVE  \E key \in Nat : key # 0 /\ KeyUsed(Other(a), key) /\ Learns(a, key)
<1> DEFINE own == {r \in list : r.of = Other(a)}
<1>1. PICK r \in own : knows' = [knows EXCEPT ![a] = r.key]
  BY Zenon DEF AddPeer
<1>2. behind' = IF own = {newest[Other(a)]} THEN behind ELSE behind \cup {a}
  BY Zenon DEF AddPeer
<1>3. r \in PeerRecord /\ RecordTrue(r) /\ r.of = Other(a)
  BY Zenon
<1>4. r.key \in Nat /\ KeyUsed(Other(a), r.key) /\ r.key > 0
  BY Zenon, <1>3, RecordTypes, RecordKey DEF PeerInv
<1>5. r.key # 0
  BY <1>4
<1> HIDE DEF own
<1>6. Learns(a, r.key)
  BY Zenon, <1>1, <1>2 DEF Learns
<1> QED BY Zenon, <1>4, <1>5, <1>6

LEMMA AnnounceStep ==
    ASSUME PeerInv, NEW a \in Peers, HandleAnnounce(a)
    PROVE  PeerInv'
<1> USE DEF PeerInv
<1>1. PICK f \in Announcements(a) :
        /\ toward' = [toward EXCEPT ![a] = toward[a] \ {f}]
        /\ knows' = [knows EXCEPT ![a] = f.key]
        /\ behind' = IF f.start < newest[Other(a)].start THEN behind \cup {a} ELSE behind
        /\ UNCHANGED <<setup, relaySide, launches, phase, waiting, work, signed, fate, doubled>>
  BY Zenon DEF HandleAnnounce
<1>2. /\ setup' = setup /\ joining' = joining /\ listed' = listed /\ newest' = newest /\ launches' = launches
      /\ phase' = phase /\ waiting' = waiting /\ work' = work /\ signed' = signed /\ fate' = fate
      /\ doubled' = doubled
  BY Zenon, <1>1 DEF relaySide
<1>3. /\ toward \in [Peers -> SUBSET (Announcement \cup RecordList \cup PeerMessage)] /\ knows \in [Peers -> Nat]
      /\ f \in toward[a] /\ f.kind = "announce" /\ Learned(a) /\ Other(a) \in Peers
  BY Zenon, OtherAgent DEF PeerTypes, Announcements
<1>4. f \in Announcement
  BY <1>3 DEF RecordList, PeerMessage
<1>5. f.start \in Nat /\ f.key \in Nat
  BY <1>4 DEF Announcement
<1>6. f.start > 0 /\ f.start <= launches[Other(a)] /\ f.key = KeyAt(Other(a), f.start)
  BY Zenon, <1>3 DEF Learned, FrameTrue
<1>7. f.key # 0
  BY <1>5, <1>6 DEF KeyAt
<1>8. KeyUsed(Other(a), f.key)
  <2>1. launches[Other(a)] \in Nat
    BY Zenon, <1>3, AgentTypes
  <2>2. f.start \in 1 .. launches[Other(a)]
    BY <1>5, <1>6, <2>1
  <2> QED BY Zenon, <1>6, <2>2 DEF KeyUsed
<1>9. Learns(a, f.key)
  <2>1. ASSUME a \notin behind'
        PROVE  f.key = newest[Other(a)].key
    <3>1. ~(f.start < newest[Other(a)].start) /\ a \notin behind
      BY Zenon, <1>1, <2>1
    <3>2. f.start <= newest[Other(a)].start /\ newest[Other(a)].start \in Nat
      BY Zenon, <1>3, <3>1, AgentTypes DEF Learned
    <3>3. f.start = newest[Other(a)].start
      BY <1>5, <3>1, <3>2
    <3>4. newest[Other(a)] # NoRecord
      <4>1. NoRecord.start = 0
        BY DEF NoRecord
      <4> QED BY <1>6, <3>3, <4>1
    <3> QED BY Zenon, <1>3, <1>6, <3>3, <3>4, NewestStart
  <2>2. behind \subseteq behind' /\ behind' \subseteq behind \cup {a}
    BY Zenon, <1>1
  <2> QED BY Zenon, <1>1, <2>1, <2>2 DEF Learns
<1>10. /\ toward' \in [Peers -> SUBSET (Announcement \cup RecordList \cup PeerMessage)] /\ knows' \in [Peers -> Nat]
       /\ toward'[a] \subseteq toward[a] /\ \A c \in Peers \ {a} : toward'[c] = toward[c]
  BY Zenon, <1>1, <1>3, <1>5
<1>11. behind' \subseteq Peers
  BY Zenon, <1>9 DEF Learns, PeerTypes
<1>12. PeerTypes'
  BY Zenon, <1>2, <1>10, <1>11 DEF PeerTypes
<1>13. phase[a] # "down"
  BY Zenon, <1>3 DEF Learned
<1>14. \A c \in Peers : Learned(c)'
  BY Zenon, <1>2, <1>5, <1>7, <1>8, <1>9, <1>10, <1>13, LearnedNow
<1>15. Mailed'
  <2>1. work' # {} => phase'["receiver"] # "down"
    BY Zenon, <1>2 DEF Mailed
  <2> QED BY Zenon, <1>2, <1>5, <1>7, <1>9, <2>1, MailLearns
<1>16. Registered'
  BY Zenon, <1>2, RegisteredStays
<1> QED BY Zenon, <1>12, <1>14, <1>15, <1>16

LEMMA DroppedStep ==
    ASSUME PeerInv, NEW a \in Peers, AnnounceDropped(a)
    PROVE  PeerInv'
<1> USE DEF PeerInv
<1>1. PICK f \in Announcements(a) :
        /\ toward' = [toward EXCEPT ![a] = toward[a] \ {f}]
        /\ behind' = behind \cup {a}
        /\ UNCHANGED <<setup, relaySide, agentSide, waiting, work, signed, fate, doubled>>
  BY Zenon DEF AnnounceDropped
<1>2. /\ setup' = setup /\ joining' = joining /\ listed' = listed /\ newest' = newest /\ launches' = launches
      /\ phase' = phase /\ knows' = knows /\ waiting' = waiting /\ work' = work /\ signed' = signed
      /\ fate' = fate /\ doubled' = doubled
  BY Zenon, <1>1 DEF relaySide, agentSide
<1>3. toward \in [Peers -> SUBSET (Announcement \cup RecordList \cup PeerMessage)]
  BY Zenon DEF PeerTypes
<1>4. /\ toward' \in [Peers -> SUBSET (Announcement \cup RecordList \cup PeerMessage)]
      /\ toward'[a] \subseteq toward[a] /\ \A c \in Peers \ {a} : toward'[c] = toward[c]
  BY Zenon, <1>1, <1>3
<1>5. PeerTypes'
  BY Zenon, <1>1, <1>2, <1>4 DEF PeerTypes
<1>6. Onward
  BY Zenon, <1>2, OnwardAlways
<1>7. ASSUME NEW c \in Peers
      PROVE  Learned(c)'
  <2>1. CASE c = a
    <3>1. Learned(a)
      BY Zenon
    <3>2. \A g \in toward'[a] : FrameTrue(a, g)'
      BY ZenonT(40), <1>2, <1>4, <3>1 DEF Learned, FrameTrue, RecordTrue, KeyAt
    <3>3. (knows[a] # 0 => KeyUsed(Other(a), knows[a]))'
      BY Zenon, <1>2, <3>1 DEF Learned, KeyUsed, KeyAt
    <3>4. a \in behind'
      BY Zenon, <1>1
    <3>5. phase'[a] = "down" => toward'[a] = {} /\ knows'[a] = 0
      BY Zenon, <1>2, <1>4, <3>1 DEF Learned
    <3>6. \A g \in toward'[a] : g.kind = "list" => Joined(a)'
      BY Zenon, <1>2, <1>4, <3>1 DEF Learned, Joined
    <3> QED BY Zenon, <2>1, <3>2, <3>3, <3>4, <3>5, <3>6 DEF Learned
  <2>2. CASE c # a
    BY Zenon, <1>1, <1>2, <1>4, <1>6, <2>2, LearnedStays
  <2> QED BY Zenon, <2>1, <2>2
<1>8. Mailed'
  <2>1. work' # {} => phase'["receiver"] # "down"
    BY Zenon, <1>2 DEF Mailed
  <2>2. behind \subseteq behind'
    BY Zenon, <1>1
  <2> QED BY Zenon, <1>2, <2>1, <2>2, MailStays
<1>9. Registered'
  BY Zenon, <1>2, RegisteredStays
<1> QED BY Zenon, <1>5, <1>7, <1>8, <1>9

LEMMA DiscoverStep ==
    ASSUME PeerInv, NEW a \in Peers, Discover(a)
    PROVE  PeerInv'
<1> USE DEF PeerInv
<1> DEFINE list == [kind |-> "list", records |-> listed]
<1>1. /\ phase[a] = "joined"
      /\ setup' = setup /\ joining' = joining /\ listed' = listed /\ newest' = newest /\ launches' = launches
      /\ knows' = knows /\ waiting' = waiting /\ work' = work /\ signed' = signed /\ fate' = fate
      /\ behind' = behind /\ doubled' = doubled
  BY Zenon DEF Discover, relaySide
<1>2. \/ phase' = [phase EXCEPT ![a] = "listing"] /\ toward' = [toward EXCEPT ![a] = toward[a] \cup {list}]
      \/ phase' = [phase EXCEPT ![a] = "ready"] /\ toward' = toward
  BY Zenon DEF Discover
<1>3. list \in RecordList /\ list.kind = "list" /\ list.records = listed
  BY DEF PeerTypes, RecordList
<1> HIDE DEF list
<1>4. /\ toward \in [Peers -> SUBSET (Announcement \cup RecordList \cup PeerMessage)] /\ phase \in [Peers -> PeerPhase]
      /\ "listing" \in PeerPhase /\ "ready" \in PeerPhase
  BY Zenon DEF PeerTypes, PeerPhase
<1>5. /\ toward' \in [Peers -> SUBSET (Announcement \cup RecordList \cup PeerMessage)]
      /\ phase' \in [Peers -> PeerPhase] /\ phase'[a] \in {"listing", "ready"}
      /\ toward[a] \subseteq toward'[a] /\ toward'[a] \subseteq toward[a] \cup {list}
      /\ \A c \in Peers \ {a} : toward'[c] = toward[c] /\ phase'[c] = phase[c]
  <2>1. CASE phase' = [phase EXCEPT ![a] = "listing"] /\ toward' = [toward EXCEPT ![a] = toward[a] \cup {list}]
    BY Zenon, <1>3, <1>4, <2>1
  <2>2. CASE phase' = [phase EXCEPT ![a] = "ready"] /\ toward' = toward
    BY Zenon, <1>4, <2>2
  <2> QED BY Zenon, <1>2, <2>1, <2>2
<1>6. PeerTypes'
  BY Zenon, <1>1, <1>5 DEF PeerTypes
<1>7. Joined(a) /\ Joined(a)' /\ phase'[a] # "down" /\ phase[a] # "down"
  BY <1>1, <1>5 DEF Joined
<1>8. Registered'
  BY Zenon, <1>1, <1>5, <1>7, RegisteredStays
<1>9. Onward
  BY Zenon, <1>1, OnwardAlways
<1>10. ASSUME NEW c \in Peers
       PROVE  Learned(c)'
  <2>1. CASE c = a
    <3>1. Learned(a)
      BY Zenon
    <3>2. list.kind # "announce" /\ list.kind # "message"
      BY <1>3
    <3>3. FrameTrue(a, list)
      BY Zenon, <1>3, <3>2 DEF FrameTrue, Registered
    <3>4. \A g \in toward'[a] : FrameTrue(a, g)
      BY Zenon, <1>5, <3>1, <3>3 DEF Learned
    <3>5. \A g \in toward'[a] : FrameTrue(a, g)'
      BY Zenon, <1>1, <3>4 DEF FrameTrue, RecordTrue, KeyAt
    <3>6. Announcements(a)' = Announcements(a)
      BY Zenon, <1>5, <3>2 DEF Announcements
    <3>7. (knows[a] # 0 => KeyUsed(Other(a), knows[a]))'
      BY Zenon, <1>1, <3>1 DEF Learned, KeyUsed, KeyAt
    <3> QED BY Zenon, <1>1, <1>7, <2>1, <3>1, <3>5, <3>6, <3>7 DEF Learned
  <2>2. CASE c # a
    BY Zenon, <1>1, <1>5, <1>9, <2>2, LearnedStays
  <2> QED BY Zenon, <2>1, <2>2
<1>11. Mailed'
  <2>1. work' # {} => phase'["receiver"] # "down"
    BY Zenon, <1>1, <1>5, <1>7, TheTwo DEF Mailed
  <2> QED BY Zenon, <1>1, <2>1, MailStays
<1> QED BY Zenon, <1>6, <1>8, <1>10, <1>11

LEMMA ReturnStep ==
    ASSUME PeerInv, NEW a \in Peers, DiscoverReturns(a)
    PROVE  PeerInv'
<1> USE DEF PeerInv
<1>1. PICK f \in Lists(a) :
        /\ toward' = [toward EXCEPT ![a] = toward[a] \ {f}]
        /\ phase' = [phase EXCEPT ![a] = "ready"]
        /\ IF \E r \in f.records : r.of = Other(a) THEN AddPeer(a, f.records)
           ELSE UNCHANGED <<knows, behind>>
        /\ UNCHANGED <<setup, relaySide, launches, waiting, work, signed, fate, doubled>>
  BY Zenon DEF DiscoverReturns
<1>2. /\ setup' = setup /\ joining' = joining /\ listed' = listed /\ newest' = newest /\ launches' = launches
      /\ waiting' = waiting /\ work' = work /\ signed' = signed /\ fate' = fate /\ doubled' = doubled
  BY Zenon, <1>1 DEF relaySide
<1>3. /\ toward \in [Peers -> SUBSET (Announcement \cup RecordList \cup PeerMessage)] /\ phase \in [Peers -> PeerPhase]
      /\ "ready" \in PeerPhase /\ f \in toward[a] /\ f.kind = "list" /\ Learned(a)
  BY Zenon DEF PeerTypes, PeerPhase, Lists
<1>4. f \in RecordList
  BY <1>3 DEF Announcement, PeerMessage
<1>5. f.records \in SUBSET PeerRecord
  BY <1>4 DEF RecordList
<1>6. \A r \in f.records : RecordTrue(r)
  BY Zenon, <1>3 DEF Learned, FrameTrue
<1>7. /\ toward' \in [Peers -> SUBSET (Announcement \cup RecordList \cup PeerMessage)]
      /\ phase' \in [Peers -> PeerPhase] /\ phase'[a] = "ready"
      /\ toward'[a] = toward[a] \ {f}
      /\ \A c \in Peers \ {a} : toward'[c] = toward[c] /\ phase'[c] = phase[c]
  BY Zenon, <1>1, <1>3
<1>8. phase'[a] # "down" /\ phase'[a] # "joining" /\ Joined(a)'
  BY <1>7 DEF Joined
<1>9. phase[a] # "down"
  BY Zenon, <1>3 DEF Learned
<1>10. Registered'
  <2>1. Joined(a)
    BY Zenon, <1>3 DEF Learned
  <2> QED BY Zenon, <1>2, <1>7, <1>8, <2>1, RegisteredStays
<1>11. work' # {} => phase'["receiver"] # "down"
  BY Zenon, <1>2, <1>7, <1>8, TheTwo DEF Mailed
<1>12. CASE AddPeer(a, f.records)
  <2>1. PICK key \in Nat : key # 0 /\ KeyUsed(Other(a), key) /\ Learns(a, key)
    BY Zenon, <1>5, <1>6, <1>12, AddPeerLearns
  <2>2. toward'[a] \subseteq toward[a]
    BY Zenon, <1>7
  <2>3. \A c \in Peers : Learned(c)'
    BY Zenon, <1>2, <1>7, <1>8, <1>9, <2>1, <2>2, LearnedNow
  <2>4. Mailed'
    BY Zenon, <1>2, <1>11, <2>1, MailLearns
  <2>5. knows' \in [Peers -> Nat] /\ behind' \subseteq Peers
    BY Zenon, <2>1 DEF Learns, PeerTypes
  <2>6. PeerTypes'
    BY Zenon, <1>2, <1>7, <2>5 DEF PeerTypes
  <2> QED BY Zenon, <1>10, <2>3, <2>4, <2>6
<1>13. CASE knows' = knows /\ behind' = behind
  <2>1. PeerTypes'
    BY Zenon, <1>2, <1>7, <1>13 DEF PeerTypes
  <2>2. Onward
    BY Zenon, <1>2, OnwardAlways
  <2>3. ASSUME NEW c \in Peers
        PROVE  Learned(c)'
    <3>1. CASE c = a
      <4>1. f.kind # "announce"
        BY <1>3
      <4>2. Announcements(a)' = Announcements(a)
        BY Zenon, <1>7, <4>1 DEF Announcements
      <4>3. \A g \in toward'[a] : FrameTrue(a, g)'
        BY ZenonT(40), <1>2, <1>3, <1>7 DEF Learned, FrameTrue, RecordTrue, KeyAt
      <4>4. (knows[a] # 0 => KeyUsed(Other(a), knows[a]))'
        BY Zenon, <1>2, <1>3, <1>13 DEF Learned, KeyUsed, KeyAt
      <4> QED BY Zenon, <1>2, <1>3, <1>8, <1>9, <1>13, <3>1, <4>2, <4>3, <4>4 DEF Learned
    <3>2. CASE c # a
      BY Zenon, <1>2, <1>7, <1>13, <2>2, <3>2, LearnedStays
    <3> QED BY Zenon, <3>1, <3>2
  <2>4. Mailed'
    BY Zenon, <1>2, <1>11, <1>13, MailStays
  <2> QED BY Zenon, <1>10, <2>1, <2>3, <2>4
<1> QED BY Zenon, <1>1, <1>12, <1>13

LEMMA SendMessageStep ==
    ASSUME PeerInv, SendSigned
    PROVE  PeerInv'
<1> USE DEF PeerInv
<1>0. PICK m : m = SignedMessage
  BY Zenon
<1>1. /\ phase["sender"] = "ready" /\ Len(signed) < MaxSent /\ newest["receiver"] # NoRecord
      /\ signed' = Append(signed, m)
      /\ behind' = IF Announcements("sender") # {} THEN behind \cup {"sender"} ELSE behind
      /\ setup' = setup /\ joining' = joining /\ listed' = listed /\ newest' = newest /\ launches' = launches
      /\ phase' = phase /\ knows' = knows /\ work' = work /\ fate' = fate /\ doubled' = doubled
  BY Zenon, <1>0 DEF SendSigned, relaySide, agentSide
<1>2. \/ /\ Joined("receiver") /\ waiting' = waiting
         /\ toward' = [toward EXCEPT !["receiver"] = toward["receiver"] \cup {m}]
      \/ waiting' = waiting \cup {m} /\ toward' = toward
  BY Zenon, <1>0 DEF SendSigned
<1>3. /\ launches["sender"] \in Nat /\ launches["receiver"] \in Nat /\ knows["sender"] \in Nat
      /\ newest["receiver"].start \in Nat /\ OwnKey("sender") = KeyAt("sender", launches["sender"])
      /\ OwnKey("sender") \in Nat
  BY Zenon, TheTwo, AgentTypes
<1>4. signed \in Seq(PeerMessage) /\ Len(signed) \in Nat /\ DOMAIN signed = 1 .. Len(signed)
  BY DEF PeerTypes
<1>5. /\ m \in PeerMessage /\ m.kind = "message" /\ m.n = Len(signed) + 1 /\ m.by = launches["sender"]
      /\ m.key = OwnKey("sender") /\ m.sealed = knows["sender"] /\ m.was = newest["receiver"].start
  BY <1>3, <1>4, <1>0 DEF SignedMessage, encryptMessageBody, PeerMessage
<1>6. /\ signed' \in Seq(PeerMessage) /\ Len(signed') <= MaxSent /\ DOMAIN signed' = 1 .. (Len(signed) + 1)
      /\ signed'[Len(signed) + 1] = m
      /\ \A n \in DOMAIN signed : n \in DOMAIN signed' /\ signed'[n] = signed[n]
      /\ \A n \in DOMAIN signed' : n \in DOMAIN signed \/ n = Len(signed) + 1
      /\ Len(signed) + 1 \notin DOMAIN signed /\ Len(signed) + 1 \in 1 .. MaxSent /\ Len(signed) + 1 \in DOMAIN signed'
  BY <1>1, <1>4, <1>5, PeerConstants
<1>7. /\ toward' \in [Peers -> SUBSET (Announcement \cup RecordList \cup PeerMessage)]
      /\ waiting' \subseteq PeerMessage /\ waiting' \subseteq waiting \cup {m}
      /\ toward'["sender"] = toward["sender"]
      /\ toward["receiver"] \subseteq toward'["receiver"] /\ toward'["receiver"] \subseteq toward["receiver"] \cup {m}
      /\ phase["receiver"] = "down" => toward'["receiver"] = toward["receiver"]
  <2>1. /\ toward \in [Peers -> SUBSET (Announcement \cup RecordList \cup PeerMessage)] /\ waiting \subseteq PeerMessage
        /\ "sender" \in Peers /\ "receiver" \in Peers /\ "sender" # "receiver"
    BY Zenon, TheTwo, OtherAgent DEF PeerTypes
  <2>2. Joined("receiver") => phase["receiver"] # "down"
    BY DEF Joined
  <2>3. CASE /\ Joined("receiver") /\ waiting' = waiting
             /\ toward' = [toward EXCEPT !["receiver"] = toward["receiver"] \cup {m}]
    BY Zenon, <1>5, <2>1, <2>2, <2>3
  <2>4. CASE waiting' = waiting \cup {m} /\ toward' = toward
    BY Zenon, <1>5, <2>1, <2>4
  <2> QED BY Zenon, <1>2, <2>3, <2>4
<1>8. behind \subseteq behind' /\ behind' \subseteq behind \cup {"sender"}
  BY Zenon, <1>1
<1>9. PeerTypes'
  BY Zenon, <1>1, <1>6, <1>7, <1>8, TheTwo DEF PeerTypes
<1>10. Onward /\ Registered'
  BY Zenon, <1>1, OnwardAlways, RegisteredStays
<1>11. Learned("sender")'
  BY Zenon, <1>1, <1>6, <1>7, <1>8, <1>10, TheTwo, LearnedStays
<1>12. Learned("receiver")'
  <2>1. Learned("receiver")
    BY Zenon, TheTwo
  <2>2. m.kind # "announce" /\ m.kind # "list"
    BY <1>5
  <2>3. FrameTrue("receiver", m)'
    <3>1. m.n \in DOMAIN signed' /\ m = signed'[m.n]
      BY Zenon, <1>5, <1>6
    <3> QED BY Zenon, <2>2, <3>1 DEF FrameTrue
  <2>4. toward["receiver"] \subseteq Announcement \cup RecordList \cup PeerMessage
    BY Zenon, TheTwo DEF PeerTypes
  <2>5. \A f \in toward'["receiver"] : FrameTrue("receiver", f)' /\ (f.kind = "list" => Joined("receiver")')
    <3>1. \A f \in toward["receiver"] : FrameTrue("receiver", f)'
      BY Zenon, <1>6, <1>10, <2>1, <2>4, TheTwo, FrameStays DEF Learned
    <3> QED BY Zenon, <1>1, <1>7, <2>1, <2>2, <2>3, <3>1 DEF Learned, Joined
  <2>6. Announcements("receiver")' = Announcements("receiver")
    BY Zenon, <1>7, <2>2 DEF Announcements
  <2>7. (knows["receiver"] # 0 => KeyUsed(Other("receiver"), knows["receiver"]))'
    BY Zenon, <1>1, <2>1 DEF Learned, KeyUsed, KeyAt
  <2>8. "receiver" \notin behind' => "receiver" \notin behind
    BY Zenon, <1>8
  <2> QED BY Zenon, <1>1, <1>7, <2>1, <2>5, <2>6, <2>7, <2>8 DEF Learned
<1>13. SentTrue(m)'
  <2>1. launches["sender"] > 0
    <3>1. "ready" # "down"
      OBVIOUS
    <3> QED BY Zenon, <1>1, <3>1, TheTwo DEF Registered
  <2>2. /\ newest["receiver"].start <= launches["receiver"]
        /\ newest["receiver"].key = KeyAt("receiver", newest["receiver"].start)
    BY Zenon, <1>1, TheTwo, NewestStart
  <2>3. knows["sender"] # 0 => KeyUsed("receiver", knows["sender"])
    BY Zenon, TheTwo DEF Learned
  <2>4. ~doubled => newest["sender"].start = launches["sender"]
    <3>1. Joined("sender")
      BY <1>1 DEF Joined
    <3> QED BY Zenon, <3>1, TheTwo DEF Registered, OneAtATime
  <2>5. "sender" \notin behind' /\ knows["sender"] # 0 => knows["sender"] = newest["receiver"].key
    <3>1. "sender" \notin behind' => "sender" \notin behind /\ Announcements("sender") = {}
      BY Zenon, <1>1
    <3>2. phase["sender"] # "down"
      BY <1>1
    <3> QED BY Zenon, <3>1, <3>2, TheTwo DEF Learned
  <2>6. m.by <= launches["sender"]
    BY <1>3, <1>5
  <2>7. m.sealed # 0 => KeyUsed("receiver", m.sealed)'
    BY Zenon, <1>5, <1>10, <2>3, TheTwo, KeyStays
  <2> QED BY Zenon, <1>1, <1>3, <1>5, <2>1, <2>2, <2>4, <2>5, <2>6, <2>7 DEF SentTrue, KeyAt
<1>14. ASSUME NEW n \in DOMAIN signed'
       PROVE  SentTrue(signed[n])' /\ (fate'[n] = "refused" => Excused(signed[n])')
  <2>1. CASE n \in DOMAIN signed
    <3>1. PICK q : q = signed[n]
      BY Zenon
    <3>2. q \in PeerMessage
      BY <1>4, <2>1, <3>1
    <3>3. SentTrue(q) /\ (fate[n] = "refused" => Excused(q))
      BY Zenon, <2>1, <3>1 DEF Mailed
    <3>4. SentTrue(q)'
      BY Zenon, <1>1, <1>8, <1>10, <3>2, <3>3, SentStays
    <3>5. fate'[n] = "refused" => Excused(q)'
      BY Zenon, <1>1, <1>8, <3>3, ExcusedStays
    <3>6. signed'[n] = q
      BY Zenon, <1>6, <2>1, <3>1
    <3> QED BY Zenon, <3>4, <3>5, <3>6 DEF SentTrue, Excused, KeyUsed, KeyAt
  <2>2. CASE n = Len(signed) + 1
    <3>1. fate'[n] = "open"
      BY Zenon, <1>1, <1>6, <2>2 DEF Mailed
    <3>2. fate'[n] # "refused"
      BY <3>1
    <3> QED BY Zenon, <1>6, <1>13, <2>2, <3>2 DEF SentTrue, KeyUsed, KeyAt
  <2> QED BY Zenon, <1>6, <2>1, <2>2
<1>15. \A w \in work' : JobTrue(w)'
  BY Zenon, <1>1, <1>6, <1>8, <1>10, JobStays DEF Mailed, PeerTypes
<1>16. \A q \in waiting' : q.n \in DOMAIN signed' /\ q = signed'[q.n]
  BY Zenon, <1>5, <1>6, <1>7 DEF Mailed
<1>17. Mailed'
  BY Zenon, <1>1, <1>6, <1>14, <1>15, <1>16 DEF Mailed
<1> QED BY Zenon, <1>9, <1>10, <1>11, <1>12, <1>17 DEF Peers

LEMMA TakeStep ==
    ASSUME PeerInv, TakeMessage
    PROVE  PeerInv'
<1> USE DEF PeerInv
<1>1. PICK m \in toward["receiver"] :
        /\ m.kind = "message"
        /\ toward' = [toward EXCEPT !["receiver"] = toward["receiver"] \ {m}]
        /\ work' = work \cup {[msg |-> m, at |-> "verify", list |-> {}]}
        /\ UNCHANGED <<setup, relaySide, agentSide, waiting, signed, fate, behind, doubled>>
  BY Zenon DEF TakeMessage
<1>2. /\ setup' = setup /\ joining' = joining /\ listed' = listed /\ newest' = newest /\ launches' = launches
      /\ phase' = phase /\ knows' = knows /\ waiting' = waiting /\ signed' = signed /\ fate' = fate
      /\ behind' = behind /\ doubled' = doubled
  BY Zenon, <1>1 DEF relaySide, agentSide
<1>3. /\ toward \in [Peers -> SUBSET (Announcement \cup RecordList \cup PeerMessage)]
      /\ m.n \in DOMAIN signed /\ m = signed[m.n] /\ phase["receiver"] # "down"
  BY Zenon, <1>1, TheTwo DEF PeerTypes, Learned, FrameTrue
<1>4. /\ toward' \in [Peers -> SUBSET (Announcement \cup RecordList \cup PeerMessage)]
      /\ toward'["receiver"] = toward["receiver"] \ {m} /\ \A c \in Peers \ {"receiver"} : toward'[c] = toward[c]
  BY Zenon, <1>1, <1>3, TheTwo
<1> DEFINE job == [msg |-> m, at |-> "verify", list |-> {}]
<1>5. job \in PeerJob /\ job.msg = m /\ job.at = "verify" /\ job.list = {} /\ job.at # "decrypt"
  <2>1. m \in PeerMessage
    BY <1>3 DEF PeerTypes
  <2> QED BY <2>1 DEF PeerJob
<1>6. work' = work \cup {job}
  BY Zenon, <1>1
<1> HIDE DEF job
<1>7. PeerTypes'
  BY Zenon, <1>2, <1>4, <1>5, <1>6 DEF PeerTypes
<1>8. Onward /\ Registered'
  BY Zenon, <1>2, OnwardAlways, RegisteredStays
<1>9. ASSUME NEW c \in Peers
      PROVE  Learned(c)'
  <2>1. CASE c = "receiver"
    <3>1. Learned("receiver") /\ phase'["receiver"] # "down"
      BY Zenon, <1>2, <1>3, TheTwo
    <3>2. m.kind # "announce"
      BY <1>1
    <3>3. Announcements("receiver")' = Announcements("receiver")
      BY Zenon, <1>4, <3>2 DEF Announcements
    <3>2a. \A f \in toward'["receiver"] : FrameTrue("receiver", f) /\ (f.kind = "list" => Joined("receiver")')
      BY Zenon, <1>2, <1>4, <3>1 DEF Learned, Joined
    <3>4. \A f \in toward'["receiver"] : FrameTrue("receiver", f)' /\ (f.kind = "list" => Joined("receiver")')
      BY Zenon, <1>2, <3>2a DEF FrameTrue, RecordTrue, KeyAt
    <3>5. (knows["receiver"] # 0 => KeyUsed(Other("receiver"), knows["receiver"]))'
      BY Zenon, <1>2, <3>1 DEF Learned, KeyUsed, KeyAt
    <3> QED BY Zenon, <1>2, <2>1, <3>1, <3>3, <3>4, <3>5 DEF Learned
  <2>2. CASE c # "receiver"
    BY Zenon, <1>2, <1>4, <1>8, <2>2, LearnedStays
  <2> QED BY Zenon, <2>1, <2>2
<1>10. JobTrue(job)'
  BY Zenon, <1>2, <1>3, <1>5 DEF JobTrue
<1>11. \A w \in work' : JobTrue(w)'
  <2>1. \A w \in work : JobTrue(w)'
    BY Zenon, <1>2, <1>8, JobStays DEF Mailed, PeerTypes
  <2> QED BY Zenon, <1>6, <1>10, <2>1
<1>12. \A n \in DOMAIN signed' : SentTrue(signed[n])' /\ (fate'[n] = "refused" => Excused(signed[n])')
  BY Zenon, <1>2, SentAllStay DEF Mailed
<1>13. Mailed'
  BY Zenon, <1>2, <1>3, <1>11, <1>12 DEF Mailed
<1> QED BY Zenon, <1>7, <1>8, <1>9, <1>13

\* Agents that keep their identity have the key 1 throughout.
LEMMA KeptKey ==
    ASSUME NEW a \in Peers, Peers \ setup.keeps = {}, NEW key, KeyUsed(a, key)
    PROVE  key = 1
BY Zenon DEF KeyUsed, KeyAt

\* A job, its message, and what is known of its sender.
LEMMA JobFacts ==
    ASSUME PeerInv, NEW w \in work
    PROVE  /\ w \in PeerJob /\ JobTrue(w) /\ w.msg \in PeerMessage /\ SentTrue(w.msg)
           /\ w.msg.n \in DOMAIN signed /\ w.msg.n \in 1 .. MaxSent /\ w.msg = signed[w.msg.n]
           /\ phase["receiver"] # "down" /\ w.msg.key # 0 /\ KeyUsed("sender", w.msg.key)
           /\ w.msg.by = launches["sender"] /\ ~doubled => newest["sender"].key = w.msg.key
<1> USE DEF PeerInv
<1>1. w \in PeerJob /\ JobTrue(w) /\ phase["receiver"] # "down"
  BY Zenon DEF PeerTypes, Mailed
<1>2. w.msg.n \in DOMAIN signed /\ w.msg = signed[w.msg.n] /\ SentTrue(w.msg)
  BY Zenon, <1>1 DEF JobTrue, Mailed
<1>3. w.msg \in PeerMessage
  BY <1>1 DEF PeerJob
<1>4. w.msg.n \in 1 .. MaxSent
  BY SMTT(30), <1>2, PeerConstants DEF PeerTypes
<1>5. w.msg.by \in Nat /\ launches["sender"] \in Nat
  BY <1>3, TheTwo, AgentTypes DEF PeerMessage
<1>6. w.msg.by > 0 /\ w.msg.by <= launches["sender"] /\ w.msg.key = KeyAt("sender", w.msg.by)
  BY Zenon, <1>2 DEF SentTrue
<1>7. w.msg.by \in 1 .. launches["sender"] /\ w.msg.key # 0
  BY <1>5, <1>6 DEF KeyAt
<1>8. KeyUsed("sender", w.msg.key)
  BY Zenon, <1>6, <1>7 DEF KeyUsed
<1>9. ASSUME w.msg.by = launches["sender"], ~doubled
      PROVE  newest["sender"].key = w.msg.key
  <2>1. newest["sender"].start = launches["sender"]
    BY Zenon, <1>2, <1>9 DEF SentTrue
  <2>2. newest["sender"] # NoRecord
    <3>1. NoRecord.start = 0
      BY DEF NoRecord
    <3> QED BY <1>5, <1>6, <1>9, <2>1, <3>1
  <2> QED BY ZenonT(40), <1>6, <1>9, <2>1, <2>2, TheTwo, NewestStart
<1> QED BY Zenon, <1>1, <1>2, <1>3, <1>4, <1>7, <1>8, <1>9

\* A message is refused for its signature.
LEMMA RefusedUnverified ==
    ASSUME PeerInv, NEW w \in work, knows["receiver"] \notin {0, w.msg.key}, setup' = setup, launches' = launches,
           behind' = IF Announcements("receiver") # {} THEN behind \cup {"receiver"} ELSE behind, doubled' = doubled
    PROVE  Excused(w.msg)'
<1> USE DEF PeerInv
<1>1. /\ phase["receiver"] # "down" /\ KeyUsed("sender", w.msg.key)
      /\ w.msg.by = launches["sender"] /\ ~doubled => newest["sender"].key = w.msg.key
  BY Zenon, JobFacts
<1>2. knows["receiver"] # 0 /\ knows["receiver"] # w.msg.key /\ KeyUsed("sender", knows["receiver"])
  BY Zenon, TheTwo DEF Learned
<1>3. Peers \ setup.keeps # {}
  <2>1. SUFFICES ASSUME Peers \ setup.keeps = {}
                 PROVE  FALSE
    BY Zenon
  <2>2. w.msg.key = 1 /\ knows["receiver"] = 1
    BY Zenon, <1>1, <1>2, <2>1, TheTwo, KeptKey
  <2> QED BY Zenon, <1>2, <2>2
<1>4. ASSUME w.msg.by = launches["sender"], behind' = {}, ~doubled
      PROVE  FALSE
  <2>1. Announcements("receiver") = {} /\ "receiver" \notin behind
    BY Zenon, <1>4
  <2>2. knows["receiver"] = newest["sender"].key
    BY Zenon, <1>1, <1>2, <2>1, TheTwo DEF Learned
  <2> QED BY Zenon, <1>1, <1>2, <1>4, <2>2
<1> QED BY Zenon, <1>3, <1>4 DEF Excused

\* A message is refused because it does not open.
LEMMA RefusedSealed ==
    ASSUME PeerInv, NEW w \in work, w.at = "decrypt", w.msg.sealed # 0,
           ~(w.msg.sealed = OwnKey("receiver") /\ w.msg.key = knows["receiver"])
    PROVE  Excused(w.msg)
<1> USE DEF PeerInv
<1>1. /\ KeyUsed("sender", w.msg.key) /\ JobTrue(w) /\ SentTrue(w.msg)
  BY Zenon, JobFacts
<1>2. knows["receiver"] # 0 /\ KeyUsed("sender", knows["receiver"]) /\ KeyUsed("receiver", w.msg.sealed)
  BY Zenon, <1>1, TheTwo DEF Learned, JobTrue, SentTrue
<1>3. OwnKey("receiver") = KeyAt("receiver", launches["receiver"])
  BY Zenon, TheTwo, AgentTypes
<1>4. Peers \ setup.keeps # {}
  <2>1. SUFFICES ASSUME Peers \ setup.keeps = {}
                 PROVE  FALSE
    BY Zenon
  <2>2. w.msg.key = 1 /\ knows["receiver"] = 1 /\ w.msg.sealed = 1
    BY Zenon, <1>1, <1>2, <2>1, TheTwo, KeptKey
  <2>3. OwnKey("receiver") = 1
    BY Zenon, <1>3, <2>1, TheTwo DEF KeyAt
  <2> QED BY Zenon, <2>2, <2>3
<1>5. ASSUME w.msg.by = launches["sender"], w.msg.was = launches["receiver"], behind = {}, ~doubled
      PROVE  FALSE
  <2>1. w.msg.key = knows["receiver"]
    BY Zenon, <1>1, <1>5 DEF JobTrue
  <2>2. w.msg.sealed = KeyAt("receiver", w.msg.was)
    BY Zenon, <1>1, <1>5 DEF SentTrue
  <2> QED BY Zenon, <1>3, <1>5, <2>1, <2>2
<1> QED BY Zenon, <1>4, <1>5 DEF Excused

\* The message goes to another stage.
LEMMA StageMoves ==
    ASSUME NEW w \in PeerJob, NEW stage \in {"verify", "resolve", "listed", "decrypt"}, NEW l \in SUBSET PeerRecord,
           NextStage(w, stage, l)
    PROVE  \E v \in PeerJob : /\ v.msg = w.msg /\ v.at = stage /\ v.list = l
                              /\ work' = (work \ {w}) \cup {v} /\ fate' = fate
<1> DEFINE v == [w EXCEPT !.at = stage, !.list = l]
<1>1. v \in PeerJob /\ v.msg = w.msg /\ v.at = stage /\ v.list = l
  BY Zenon DEF PeerJob
<1>2. work' = (work \ {w}) \cup {v} /\ fate' = fate
  BY Zenon DEF NextStage
<1> HIDE DEF v
<1> QED BY Zenon, <1>1, <1>2

\* What handling a message does to everything else.
LEMMA HandleRest ==
    ASSUME PeerInv, NEW w \in work, setup' = setup, joining' = joining, listed' = listed, newest' = newest,
           launches' = launches, phase' = phase, toward' = toward, waiting' = waiting, signed' = signed,
           doubled' = doubled, behind \subseteq behind', behind' \subseteq Peers, knows' \in [Peers -> Nat],
           work' \subseteq PeerJob, \A v \in work' : JobTrue(v)',
           fate' \in [1 .. MaxSent -> {"open", "handled", "unknown", "refused"}],
           \A n \in 1 .. MaxSent : n # w.msg.n => fate'[n] = fate[n],
           fate'[w.msg.n] = "refused" => fate[w.msg.n] = "refused" \/ Excused(w.msg)',
           \A c \in Peers : Learned(c)'
    PROVE  PeerInv'
<1> USE DEF PeerInv
<1>1. PeerTypes'
  BY Zenon DEF PeerTypes
<1>2. Registered'
  BY Zenon, RegisteredStays
<1>3. w.msg.n \in DOMAIN signed /\ w.msg = signed[w.msg.n] /\ phase["receiver"] # "down"
  BY Zenon, JobFacts
<1>4. DOMAIN signed \subseteq 1 .. MaxSent
  BY PeerConstants DEF PeerTypes
<1>5. ASSUME NEW n \in DOMAIN signed
      PROVE  SentTrue(signed[n])' /\ (fate'[n] = "refused" => Excused(signed[n])')
  <2>1. SentTrue(signed[n])' /\ (Excused(signed[n]) => Excused(signed[n])') /\ (fate[n] = "refused" => Excused(signed[n]))
    BY Zenon, SentAllStay DEF Mailed
  <2>2. CASE n # w.msg.n
    BY Zenon, <1>4, <2>1, <2>2
  <2>3. CASE n = w.msg.n
    <3>1. Excused(w.msg)' => Excused(signed[n])'
      BY Zenon, <1>3, <2>3 DEF Excused
    <3> QED BY Zenon, <2>1, <2>3, <3>1
  <2> QED BY Zenon, <2>2, <2>3
<1>6. \A n \in 1 .. MaxSent : n \in DOMAIN signed' \/ fate'[n] = "open"
  BY Zenon, <1>3 DEF Mailed
<1>7. Mailed'
  BY Zenon, <1>3, <1>5, <1>6 DEF Mailed
<1> QED BY Zenon, <1>1, <1>2, <1>7

\* A message that is answered, or goes on, while the receiver learns nothing.
LEMMA HandleQuietly ==
    ASSUME PeerInv, NEW w \in work, setup' = setup, joining' = joining, listed' = listed, newest' = newest,
           launches' = launches, phase' = phase, toward' = toward, waiting' = waiting, signed' = signed,
           doubled' = doubled, knows' = knows, behind \subseteq behind', behind' \subseteq Peers
    PROVE  /\ \A c \in Peers : Learned(c)'
           /\ \A v \in work : JobTrue(v)'
           /\ knows' \in [Peers -> Nat]
           /\ \A f \in {"handled", "unknown", "refused"} :
                 Answered(w, f) /\ (f = "refused" => Excused(w.msg)') => PeerInv'
           /\ \A v \in PeerJob : work' = (work \ {w}) \cup {v} /\ fate' = fate /\ JobTrue(v)' => PeerInv'
<1> USE DEF PeerInv
<1>1. Onward
  BY Zenon, OnwardAlways
<1>2. \A c \in Peers : Learned(c)'
  BY Zenon, <1>1, LearnedStays
<1>3. \A v \in work : JobTrue(v)'
  BY Zenon, <1>1, JobStays DEF Mailed, PeerTypes
<1>4. /\ knows' \in [Peers -> Nat] /\ work \subseteq PeerJob
      /\ fate \in [1 .. MaxSent -> {"open", "handled", "unknown", "refused"}]
  BY Zenon DEF PeerTypes
<1>5. w.msg.n \in 1 .. MaxSent
  BY Zenon, JobFacts
<1>6. ASSUME NEW f \in {"handled", "unknown", "refused"}, Answered(w, f), f = "refused" => Excused(w.msg)'
      PROVE  PeerInv'
  <2>1. work' = work \ {w} /\ fate' = [fate EXCEPT ![w.msg.n] = f]
    BY Zenon, <1>6 DEF Answered
  <2>2. /\ fate' \in [1 .. MaxSent -> {"open", "handled", "unknown", "refused"}] /\ fate'[w.msg.n] = f
        /\ \A n \in 1 .. MaxSent : n # w.msg.n => fate'[n] = fate[n]
    BY Zenon, <1>4, <1>5, <2>1
  <2>3. work' \subseteq PeerJob /\ \A v \in work' : JobTrue(v)'
    BY Zenon, <1>3, <1>4, <2>1
  <2> QED BY Zenon, <1>2, <1>4, <1>6, <2>2, <2>3, HandleRest
<1>7. ASSUME NEW v \in PeerJob, work' = (work \ {w}) \cup {v}, fate' = fate, JobTrue(v)'
      PROVE  PeerInv'
  <2>1. work' \subseteq PeerJob /\ \A u \in work' : JobTrue(u)'
    BY Zenon, <1>3, <1>4, <1>7
  <2> QED BY Zenon, <1>2, <1>4, <1>7, <2>1, HandleRest
<1> QED BY Zenon, <1>2, <1>3, <1>4, <1>6, <1>7

LEMMA HandleStep ==
    ASSUME PeerInv, HandleMessage
    PROVE  PeerInv'
<1> USE DEF PeerInv
<1>1. /\ setup' = setup /\ joining' = joining /\ listed' = listed /\ newest' = newest /\ launches' = launches
      /\ phase' = phase /\ toward' = toward /\ waiting' = waiting /\ signed' = signed /\ doubled' = doubled
  BY Zenon DEF HandleMessage, relaySide
<1>2. PICK w \in work :
          \/ w.at = "verify" /\ verifyMessageSignature(w) /\ UNCHANGED knows
          \/ w.at = "decrypt" /\ decryptMessageBody(w) /\ UNCHANGED knows
          \/ w.at = "resolve" /\ ResolveAsks(w)
          \/ w.at = "listed" /\ ResolveReturns(w)
  BY Zenon DEF HandleMessage
<1>3. /\ w \in PeerJob /\ JobTrue(w) /\ w.msg.n \in DOMAIN signed /\ w.msg = signed[w.msg.n]
      /\ phase["receiver"] # "down" /\ w.msg.key # 0
  BY Zenon, JobFacts
<1>4. behind \subseteq Peers /\ "receiver" \in Peers
  BY Zenon, TheTwo DEF PeerTypes
<1>5. ASSUME NEW v \in PeerJob, v.msg = w.msg, v.at # "decrypt", \A r \in v.list : RecordTrue(r)
      PROVE  JobTrue(v)'
  <2>1. \A r \in v.list : RecordTrue(r)'
    BY Zenon, <1>1, <1>5 DEF RecordTrue, KeyAt
  <2> QED BY Zenon, <1>1, <1>3, <1>5, <2>1 DEF JobTrue
<1>10. {} \in SUBSET PeerRecord
  BY Zenon
<1>6. CASE w.at = "verify" /\ verifyMessageSignature(w) /\ knows' = knows
  <2>1. CASE NextStage(w, "resolve", {}) /\ behind' = behind
    <3>1. PICK v \in PeerJob : /\ v.msg = w.msg /\ v.at = "resolve" /\ v.list = {}
                               /\ work' = (work \ {w}) \cup {v} /\ fate' = fate
      BY Zenon, <1>3, <1>10, <2>1, StageMoves
    <3>2. v.at # "decrypt"
      BY <3>1
    <3>3. JobTrue(v)'
      BY Zenon, <1>5, <3>1, <3>2
    <3> QED BY Zenon, <1>1, <1>4, <1>6, <2>1, <3>1, <3>3, HandleQuietly
  <2>2. CASE knows["receiver"] = w.msg.key /\ NextStage(w, "decrypt", {}) /\ behind' = behind
    <3>1. PICK v \in PeerJob : /\ v.msg = w.msg /\ v.at = "decrypt" /\ v.list = {}
                               /\ work' = (work \ {w}) \cup {v} /\ fate' = fate
      BY Zenon, <1>3, <1>10, <2>2, StageMoves
    <3>2. JobTrue(v)'
      BY Zenon, <1>1, <1>3, <1>6, <2>2, <3>1 DEF JobTrue
    <3> QED BY Zenon, <1>1, <1>4, <1>6, <2>2, <3>1, <3>2, HandleQuietly
  <2>3. CASE /\ knows["receiver"] \notin {0, w.msg.key} /\ Answered(w, "refused")
             /\ behind' = IF Announcements("receiver") # {} THEN behind \cup {"receiver"} ELSE behind
    <3>1. Excused(w.msg)'
      BY Zenon, <1>1, <2>3, RefusedUnverified
    <3>2. behind \subseteq behind' /\ behind' \subseteq Peers
      BY Zenon, <1>4, <2>3
    <3> QED BY Zenon, <1>1, <1>6, <2>3, <3>1, <3>2, HandleQuietly
  <2> QED BY Zenon, <1>6, <2>1, <2>2, <2>3 DEF verifyMessageSignature
<1>7. CASE w.at = "decrypt" /\ decryptMessageBody(w) /\ knows' = knows
  <2>1. behind' = behind
    BY Zenon, <1>7 DEF decryptMessageBody
  <2>2. CASE Answered(w, "handled")
    <3>1. "handled" # "refused"
      OBVIOUS
    <3> QED BY Zenon, <1>1, <1>4, <1>7, <2>1, <2>2, <3>1, HandleQuietly
  <2>3. CASE /\ Answered(w, "refused") /\ w.msg.sealed # 0
             /\ ~(w.msg.sealed = OwnKey("receiver") /\ w.msg.key = knows["receiver"])
    <3>1. Excused(w.msg)
      BY Zenon, <1>7, <2>3, RefusedSealed
    <3>2. Excused(w.msg)'
      BY Zenon, <1>1, <2>1, <3>1 DEF Excused
    <3> QED BY Zenon, <1>1, <1>4, <1>7, <2>1, <2>3, <3>2, HandleQuietly
  <2> QED BY Zenon, <1>7, <2>2, <2>3 DEF decryptMessageBody
<1>8. CASE w.at = "resolve" /\ ResolveAsks(w)
  <2>1. knows' = knows /\ behind' = behind
    BY Zenon, <1>8 DEF ResolveAsks
  <2>2. CASE NextStage(w, "listed", listed)
    <3>1. listed \in SUBSET PeerRecord /\ \A r \in listed : RecordTrue(r)
      BY Zenon DEF PeerTypes, Registered
    <3>2. PICK v \in PeerJob : /\ v.msg = w.msg /\ v.at = "listed" /\ v.list = listed
                               /\ work' = (work \ {w}) \cup {v} /\ fate' = fate
      BY Zenon, <1>3, <2>2, <3>1, StageMoves
    <3>3. v.at # "decrypt"
      BY <3>2
    <3>4. JobTrue(v)'
      BY Zenon, <1>5, <3>1, <3>2, <3>3
    <3> QED BY Zenon, <1>1, <1>4, <2>1, <3>2, <3>4, HandleQuietly
  <2>3. CASE Answered(w, "unknown")
    <3>1. "unknown" # "refused"
      OBVIOUS
    <3> QED BY Zenon, <1>1, <1>4, <2>1, <2>3, <3>1, HandleQuietly
  <2> QED BY Zenon, <1>8, <2>2, <2>3 DEF ResolveAsks
<1>9. CASE w.at = "listed" /\ ResolveReturns(w)
  <2>1. NextStage(w, "verify", {}) /\ AddPeer("receiver", w.list)
    BY Zenon, <1>9 DEF ResolveReturns
  <2>2. w.list \in SUBSET PeerRecord /\ \A r \in w.list : RecordTrue(r)
    BY <1>3 DEF PeerJob, JobTrue
  <2>3. PICK key \in Nat : key # 0 /\ KeyUsed(Other("receiver"), key) /\ Learns("receiver", key)
    BY Zenon, <1>4, <2>1, <2>2, AddPeerLearns
  <2>4. \A c \in Peers : Learned(c)'
    BY Zenon, <1>1, <1>3, <1>4, <2>3, LearnedNow
  <2>5. PICK v \in PeerJob : /\ v.msg = w.msg /\ v.at = "verify" /\ v.list = {}
                             /\ work' = (work \ {w}) \cup {v} /\ fate' = fate
    BY Zenon, <1>3, <1>10, <2>1, StageMoves
  <2>6. v.at # "decrypt"
    BY <2>5
  <2>7. JobTrue(v)'
    BY Zenon, <1>5, <2>5, <2>6
  <2>8. \A u \in work : JobTrue(u)' /\ u \in PeerJob
    BY Zenon, <1>1, <1>4, <2>3, JobLearns DEF Mailed, PeerTypes
  <2>9. work' \subseteq PeerJob /\ \A u \in work' : JobTrue(u)'
    BY Zenon, <2>5, <2>7, <2>8
  <2>10. /\ knows' \in [Peers -> Nat] /\ behind \subseteq behind' /\ behind' \subseteq Peers
         /\ fate' \in [1 .. MaxSent -> {"open", "handled", "unknown", "refused"}]
    BY Zenon, <1>4, <2>3, <2>5 DEF Learns, PeerTypes
  <2> QED BY Zenon, <1>1, <2>4, <2>5, <2>9, <2>10, HandleRest
<1> QED BY Zenon, <1>2, <1>6, <1>7, <1>8, <1>9

LEMMA PeerInvSound ==
    ASSUME PeerInv
    PROVE  PeerKeyTypeOK /\ KeysFollow /\ PinnedOnce
<1> USE DEF PeerInv
<1>1. PeerKeyTypeOK
  <2>1. ASSUME NEW a \in Peers
        PROVE  launches[a] \in 0 .. OwnStarts /\ knows[a] \in 0 .. OwnStarts /\ phase[a] \in PeerPhase
    <3>1. launches[a] \in 0 .. OwnStarts /\ knows[a] \in Nat /\ phase[a] \in PeerPhase /\ Other(a) \in Peers
      BY Zenon, OtherAgent DEF PeerTypes
    <3>2. launches[Other(a)] \in Nat /\ launches[Other(a)] <= OwnStarts
      BY Zenon, <3>1, AgentTypes
    <3>3. knows[a] # 0 => KeyUsed(Other(a), knows[a])
      BY Zenon DEF Learned
    <3>4. KeyUsed(Other(a), knows[a]) => knows[a] <= OwnStarts
      BY <3>1, <3>2, PeerConstants DEF KeyUsed, KeyAt
    <3> QED BY <3>1, <3>3, <3>4, PeerConstants
  <2>2. \A w \in work : w.at \in {"verify", "resolve", "listed", "decrypt"}
    BY DEF PeerTypes, PeerJob
  <2>3. \A a \in Peers : newest[a] # NoRecord => newest[a] \in listed
    BY Zenon DEF Registered
  <2> QED BY Zenon, <2>1, <2>2, <2>3 DEF PeerKeyTypeOK, PeerTypes, PeerPhase
<1>2. KeysFollow
  BY Zenon DEF KeysFollow, Mailed, Excused, Learned
<1>3. PinnedOnce
  BY Zenon DEF Registered
<1> QED BY Zenon, <1>1, <1>2, <1>3

\* However often the agents start and end, and whatever the relay's announcements and lists
\* do: agents that keep their identity never refuse each other's messages, others only after a
\* start or something missed (verifyMessageSignature, decryptMessageBody); an agent that has
\* missed nothing knows the other's newest key; and with PinDIDKeys a DID keeps its first key
\* unless two registrations of it crossed (checkPinnedKey).
THEOREM KeysAreFollowed == PeerKeySpec => [](PeerKeyTypeOK /\ KeysFollow /\ PinnedOnce)
<1>1. PeerKeyInit => PeerInv
  BY Zenon, PeersStart
<1>2. PeerInv /\ [PeerKeyNext]_peerKeyVars => PeerInv'
  <2> SUFFICES ASSUME PeerInv, [PeerKeyNext]_peerKeyVars
               PROVE  PeerInv'
    OBVIOUS
  <2>1. ASSUME NEW a \in Peers,
               \/ StartAnew(a) \/ CheckRegistration(a) \/ HandleAnnounce(a)
               \/ AnnounceDropped(a) \/ Discover(a) \/ DiscoverReturns(a)
        PROVE  PeerInv'
    BY Zenon, <2>1, StartStep, CheckStep, AnnounceStep, DroppedStep, DiscoverStep, ReturnStep
  <2>2. ASSUME NEW a \in Peers, EndAgent(a)
        PROVE  PeerInv'
    BY Zenon, <2>2, GoneStep DEF EndAgent, relaySide
  <2>3. ASSUME NEW r \in joining, StoreRegistration(r)
        PROVE  PeerInv'
    BY Zenon, <2>3, StoreStep
  <2>4. CASE SendSigned
    BY Zenon, <2>4, SendMessageStep
  <2>5. CASE TakeMessage
    BY Zenon, <2>5, TakeStep
  <2>6. CASE HandleMessage
    BY Zenon, <2>6, HandleStep
  <2>7. CASE UNCHANGED peerKeyVars
    <3>1. /\ setup' = setup /\ joining' = joining /\ listed' = listed /\ newest' = newest /\ launches' = launches
          /\ phase' = phase /\ knows' = knows /\ toward' = toward /\ waiting' = waiting /\ work' = work
          /\ signed' = signed /\ fate' = fate /\ behind' = behind /\ doubled' = doubled
      BY Zenon, <2>7 DEF peerKeyVars, relaySide, agentSide, messageSide
    <3>2. PeerTypes'
      BY Zenon, <3>1 DEF PeerInv, PeerTypes
    <3>3. Onward /\ Registered'
      BY Zenon, <3>1, OnwardAlways, RegisteredStays DEF PeerInv
    <3>4. \A c \in Peers : Learned(c)'
      BY Zenon, <3>1, <3>3, LearnedStays DEF PeerInv
    <3>5. work' # {} => phase'["receiver"] # "down"
      BY Zenon, <3>1 DEF PeerInv, Mailed
    <3>6. Mailed'
      BY Zenon, <3>1, <3>5, MailStays DEF PeerInv
    <3> QED BY Zenon, <3>2, <3>3, <3>4, <3>6 DEF PeerInv
  <2> QED BY Zenon, <2>1, <2>2, <2>3, <2>4, <2>5, <2>6, <2>7 DEF PeerKeyNext
<1>3. PeerInv => PeerKeyTypeOK /\ KeysFollow /\ PinnedOnce
  BY Zenon, PeerInvSound
<1> QED BY <1>1, <1>2, <1>3, PTL DEF PeerKeySpec

-----------------------------------------------------------------------------
(***************************************************************************)
(* Outside logins.  The cached keys, and those that are about to be        *)
(* cached, are a list that was out when it was asked for; a subject has    *)
(* one first login under way, or a tenant it is linked to.                 *)
(***************************************************************************)
Stage == {"new", "read", "lock", "fetch", "valid", "unknown", "refused", "create", "link", "found", "served"}
LoginState == [at : Stage, token : Token \cup {AnyToken}, tenant : Login \cup {NoLogin}, when : Nat]

LoginTypes ==
    /\ moment \in 0 .. MaxMoment /\ release \in 1 .. Len(KeyList) /\ since \in [1 .. Len(KeyList) -> Nat]
    /\ jwksExp \in Nat /\ begun \in Nat /\ fetchedAt \in Seq(Nat)
    /\ fetching \in Login \cup {NoLogin} /\ identity \in Login \cup {NoLogin}
    /\ login \in [Login -> LoginState]
    /\ tenants \subseteq Login /\ blocked \subseteq tenants
    /\ provisions \in BOOLEAN /\ raced \in BOOLEAN

Published == begun <= moment /\ \A r \in 1 .. release : since[r] <= moment

\* The answer was out after the request was sent.
AnswerOut ==
    answer # <<>> => \E r \in 1 .. release : answer = KeyList[r] /\ (r < release => since[r + 1] >= begun)

\* A fetch does not outlast its timeout, and the cache has expired.
Fetching ==
    fetching # NoLogin =>
        /\ login[fetching].at = "fetch" /\ begun <= moment /\ moment <= begun + FetchTimeout
        /\ jwks # <<>> => jwksExp <= begun

Cached ==
    jwks # <<>> =>
        \E r \in 1 .. release :
            /\ jwks = KeyList[r] /\ since[r] + jwksTTL <= jwksExp
            /\ jwksExp <= moment + jwksTTL
            /\ r < release => since[r + 1] + jwksTTL + FetchTimeout >= jwksExp

Spaced ==
    /\ \A i \in 1 .. Len(fetchedAt) - 1 : fetchedAt[i + 1] >= fetchedAt[i] + jwksTTL
    /\ Len(fetchedAt) > 0 => jwks # <<>> /\ jwksExp = fetchedAt[Len(fetchedAt)] + jwksTTL

Judged(l) ==
    /\ login[l].when <= moment
    /\ login[l].at = "valid" => \E r \in Recent(login[l].when) : login[l].token.key \in KeysOf(r)
    /\ login[l].at = "unknown" => \E r \in Recent(login[l].when) : login[l].token.kid \notin KeysOf(r)

KeyInv == Published /\ AnswerOut /\ Fetching /\ Cached /\ Spaced /\ \A l \in Login : Judged(l)

\* What a login at a stage has found or made.
Placed(l) ==
    /\ login[l].at \in {"create", "link"} => provisions
    /\ login[l].at = "link" => l \in tenants
    /\ ~raced =>
        /\ login[l].at \in {"create", "link"} => identity = NoLogin
        /\ login[l].at \in {"found", "served"} => identity # NoLogin /\ login[l].tenant = identity
        /\ l \in tenants => l = identity \/ login[l].at = "link"
        /\ \A k \in Login : login[l].at \in {"create", "link"} /\ login[k].at \in {"create", "link"} => k = l

TenantInv ==
    /\ \A l \in Login : Placed(l)
    /\ identity # NoLogin => identity \in tenants
    /\ ~provisions => tenants = {}

LoginInv == LoginTypes /\ KeyInv /\ TenantInv

LEMMA LoginConstants ==
    /\ jwksTTL \in Nat /\ jwksTTL > 0 /\ FetchTimeout \in Nat /\ MaxMoment \in Nat
    /\ Len(KeyList) \in Nat /\ Len(KeyList) > 0 /\ DOMAIN KeyList = 1 .. Len(KeyList)
    /\ NoLogin \notin Login
BY LoginAssumption

\* A login that takes a step, and the others, which do not.
LoginMoves(l, state) ==
    /\ login' \in [Login -> LoginState] /\ login'[l] = state
    /\ \A k \in Login \ {l} : login'[k] = login[k]

LEMMA LoginGoes ==
    ASSUME LoginTypes, NEW l \in Login, NEW a \in Stage, Goes(l, a)
    PROVE  /\ LoginMoves(l, login'[l]) /\ login'[l].at = a /\ login'[l].token = login[l].token
           /\ login'[l].tenant = login[l].tenant /\ login'[l].when = login[l].when
<1>1. login \in [Login -> LoginState] /\ login' = [login EXCEPT ![l].at = a]
  BY Zenon DEF LoginTypes, Goes
<1>2. login[l] \in LoginState
  BY Zenon, <1>1
<1>3. /\ [login[l] EXCEPT !.at = a] \in LoginState /\ [login[l] EXCEPT !.at = a].at = a
      /\ [login[l] EXCEPT !.at = a].token = login[l].token
      /\ [login[l] EXCEPT !.at = a].tenant = login[l].tenant /\ [login[l] EXCEPT !.at = a].when = login[l].when
  BY <1>2 DEF LoginState
<1>4. /\ login'[l] = [login[l] EXCEPT !.at = a] /\ DOMAIN login' = Login
      /\ \A k \in Login \ {l} : login'[k] = login[k]
  BY Zenon, <1>1
<1>5. login' \in [Login -> LoginState]
  BY Zenon, <1>1, <1>3
<1> QED BY Zenon, <1>3, <1>4, <1>5 DEF LoginMoves

LEMMA LoginFinds ==
    ASSUME LoginTypes, NEW l \in Login, NEW t \in Login \cup {NoLogin},
           login' = [login EXCEPT ![l].at = "found", ![l].tenant = t]
    PROVE  /\ LoginMoves(l, login'[l]) /\ login'[l].at = "found" /\ login'[l].token = login[l].token
           /\ login'[l].tenant = t /\ login'[l].when = login[l].when
<1> DEFINE state == [login[l] EXCEPT !.at = "found", !.tenant = t]
<1>1. login \in [Login -> LoginState]
  BY Zenon DEF LoginTypes
<1>2. login[l] \in LoginState
  BY Zenon, <1>1
<1>3. /\ state \in LoginState /\ state.at = "found" /\ state.token = login[l].token
      /\ state.tenant = t /\ state.when = login[l].when
  BY Zenon, <1>2 DEF LoginState, Stage
<1>4. login' = [login EXCEPT ![l] = state]
  BY Zenon
<1> HIDE DEF state
<1>5. login' \in [Login -> LoginState] /\ login'[l] = state /\ \A k \in Login \ {l} : login'[k] = login[k]
  BY Zenon, <1>1, <1>3, <1>4
<1> QED BY Zenon, <1>3, <1>5 DEF LoginMoves

LEMMA LoginIsJudged ==
    ASSUME LoginTypes, NEW l \in Login, NEW keys, LoginVerdict(l, keys)
    PROVE  /\ LoginMoves(l, login'[l]) /\ login'[l].at = verifySignature(login[l].token, keys)
           /\ login'[l].at \in {"valid", "unknown", "refused"}
           /\ login'[l].token = login[l].token /\ login'[l].tenant = login[l].tenant
           /\ login'[l].when = moment
<1> DEFINE v == verifySignature(login[l].token, keys)
           state == [login[l] EXCEPT !.at = v, !.when = moment]
<1>1. login \in [Login -> LoginState] /\ moment \in Nat
  BY DEF LoginTypes
<1>2. login[l] \in LoginState
  BY Zenon, <1>1
<1>3. v \in {"valid", "unknown", "refused"}
  BY Zenon DEF verifySignature
<1>4. login' = [login EXCEPT ![l] = state]
  BY Zenon DEF LoginVerdict
<1> HIDE DEF v
<1>5. /\ state \in LoginState /\ state.at = v /\ state.token = login[l].token
      /\ state.tenant = login[l].tenant /\ state.when = moment
  BY Zenon, <1>1, <1>2, <1>3 DEF LoginState, Stage
<1> HIDE DEF state
<1>6. login' \in [Login -> LoginState] /\ login'[l] = state /\ \A k \in Login \ {l} : login'[k] = login[k]
  BY Zenon, <1>1, <1>4, <1>5
<1> QED BY Zenon, <1>3, <1>5, <1>6 DEF LoginMoves, v

LEMMA JudgedKept ==
    ASSUME UNCHANGED providerVars, NEW k \in Login, login'[k] = login[k], Judged(k)
    PROVE  Judged(k)'
BY Zenon DEF Judged, Recent, KeysOf, providerVars

\* A list of keys that was out recently is what a verdict is about.
LEMMA VerdictSound ==
    ASSUME LoginTypes, NEW l \in Login, NEW keys, LoginVerdict(l, keys), UNCHANGED providerVars,
           NEW r \in Recent(moment), keys = KeyList[r]
    PROVE  Judged(l)'
<1> DEFINE t == login[l].token
<1>1. /\ login'[l].at = verifySignature(t, keys) /\ login'[l].token = t /\ login'[l].when = moment
  BY Zenon, LoginIsJudged
<1>2. moment' = moment /\ release' = release /\ since' = since
  BY Zenon DEF providerVars
<1>3. r \in Recent(moment)'
  BY Zenon, <1>2 DEF Recent
<1>4. r \in Recent(login[l].when)'
  BY Zenon, <1>1, <1>2, <1>3 DEF Recent
<1> HIDE DEF t
<1>5. ASSUME verifySignature(t, keys) = "valid"
      PROVE  t.key \in KeysOf(r)
  <2>1. \E i \in DOMAIN keys : keys[i] = t.key
    BY <1>5 DEF verifySignature
  <2> QED BY Zenon, <2>1 DEF KeysOf
<1>6. ASSUME verifySignature(t, keys) = "unknown"
      PROVE  t.kid \notin KeysOf(r)
  <2>1. \A i \in DOMAIN keys : t.kid # keys[i]
    BY <1>6 DEF verifySignature
  <2> QED BY Zenon, <2>1 DEF KeysOf
<1>7. moment \in Nat
  BY DEF LoginTypes
<1>8. login'[l].when <= moment'
  BY <1>1, <1>2, <1>7
<1> QED BY Zenon, <1>1, <1>4, <1>5, <1>6, <1>8 DEF Judged, KeysOf

LEMMA FreshIsRecent ==
    ASSUME LoginTypes, KeyInv, CacheFresh
    PROVE  \E r \in Recent(moment) : jwks = KeyList[r]
<1>1. PICK r \in 1 .. release :
            /\ jwks = KeyList[r] /\ since[r] + jwksTTL <= jwksExp
            /\ jwksExp <= moment + jwksTTL
            /\ r < release => since[r + 1] + jwksTTL + FetchTimeout >= jwksExp
  BY Zenon DEF KeyInv, Cached, CacheFresh
<1>2. /\ moment \in Nat /\ release \in 1 .. Len(KeyList) /\ since \in [1 .. Len(KeyList) -> Nat]
      /\ jwksExp \in Nat /\ moment < jwksExp
  BY DEF LoginTypes, CacheFresh
<1>3. r \in Nat /\ since[r] \in Nat /\ (r < release => since[r + 1] \in Nat)
  BY <1>2, LoginConstants
<1>4. r \in Recent(moment)
  BY <1>1, <1>2, <1>3, LoginConstants DEF Recent
<1> QED BY Zenon, <1>1, <1>4

LEMMA AnswerIsRecent ==
    ASSUME LoginTypes, KeyInv, fetching # NoLogin, answer # <<>>
    PROVE  \E r \in Recent(moment) :
              /\ answer = KeyList[r] /\ since[r] <= moment
              /\ r < release => since[r + 1] + FetchTimeout >= moment
<1>1. PICK r \in 1 .. release : answer = KeyList[r] /\ (r < release => since[r + 1] >= begun)
  BY Zenon DEF KeyInv, AnswerOut
<1>2. /\ moment \in Nat /\ release \in 1 .. Len(KeyList) /\ since \in [1 .. Len(KeyList) -> Nat] /\ begun \in Nat
  BY DEF LoginTypes
<1>3. begun <= moment /\ moment <= begun + FetchTimeout /\ since[r] <= moment
  BY Zenon DEF KeyInv, Fetching, Published
<1>4. r \in Nat /\ since[r] \in Nat /\ (r < release => since[r + 1] \in Nat)
  BY <1>2, LoginConstants
<1>5. r \in Recent(moment) /\ (r < release => since[r + 1] + FetchTimeout >= moment)
  BY <1>1, <1>2, <1>3, <1>4, LoginConstants DEF Recent
<1> QED BY Zenon, <1>1, <1>3, <1>5

\* A step of one login that leaves the keys alone.
LEMMA KeysAlone ==
    ASSUME KeyInv, NEW l \in Login, LoginMoves(l, login'[l]), UNCHANGED <<providerVars, keyVars>>,
           fetching # l, LoginTypes, Judged(l)'
    PROVE  KeyInv'
<1>1. Published' /\ AnswerOut' /\ Cached' /\ Spaced'
  BY Zenon DEF KeyInv, Published, AnswerOut, Cached, Spaced, providerVars, keyVars
<1>2. Fetching'
  BY Zenon DEF KeyInv, Fetching, LoginMoves, LoginTypes, providerVars, keyVars
<1>3. \A k \in Login : Judged(k)'
  BY Zenon, JudgedKept DEF KeyInv, LoginMoves, providerVars
<1> QED BY Zenon, <1>1, <1>2, <1>3 DEF KeyInv

\* A step of one login that creates and links nothing.
LEMMA TenantsAlone ==
    ASSUME TenantInv, NEW l \in Login, LoginMoves(l, login'[l]), UNCHANGED tenantSide,
           login[l].at \notin {"create", "link"}, login'[l].at \notin {"create", "link", "found"},
           login'[l].at = "served" => login[l].at = "found" /\ login'[l].tenant = login[l].tenant
    PROVE  TenantInv'
<1>1. ASSUME NEW k \in Login
      PROVE  Placed(k)'
  <2>1. Placed(k) /\ Placed(l)
    BY Zenon DEF TenantInv
  <2>2. \A j \in Login \ {l} : login'[j] = login[j]
    BY Zenon DEF LoginMoves
  <2>3. tenants' = tenants /\ identity' = identity /\ provisions' = provisions /\ raced' = raced
    BY Zenon DEF tenantSide
  <2>4. CASE k = l
    BY Zenon, <2>1, <2>3, <2>4 DEF Placed
  <2>5. CASE k # l
    <3>1. login'[k] = login[k]
      BY Zenon, <2>2, <2>5
    <3>2. \A j \in Login : login'[j].at \in {"create", "link"} => login[j].at \in {"create", "link"}
      BY Zenon, <2>2
    <3> QED BY Zenon, <2>1, <2>3, <3>1, <3>2 DEF Placed
  <2> QED BY Zenon, <2>4, <2>5
<1> QED BY Zenon, <1>1 DEF TenantInv, tenantSide

LEMMA JudgedNothing ==
    ASSUME NEW l \in Login, Judged(l), moment' = moment, login'[l].when = login[l].when,
           login'[l].at \notin {"valid", "unknown"}
    PROVE  Judged(l)'
BY Zenon DEF Judged

LEMMA TypesAlone ==
    ASSUME LoginTypes, NEW l \in Login, LoginMoves(l, login'[l]), UNCHANGED <<providerVars, keyVars, tenantSide>>
    PROVE  LoginTypes'
BY Zenon DEF LoginTypes, LoginMoves, providerVars, keyVars, tenantSide

LEMMA LoginStarts ==
    ASSUME LoginInit
    PROVE  LoginInv
<1> USE DEF LoginInit
<1>1. AnyToken \in Token \cup {AnyToken} /\ "new" \in Stage /\ NoLogin \in Login \cup {NoLogin}
  BY Zenon DEF Stage
<1>2. [at |-> "new", token |-> AnyToken, tenant |-> NoLogin, when |-> 0] \in LoginState
  BY <1>1 DEF LoginState
<1>3. login \in [Login -> LoginState]
  BY Zenon, <1>2
<1>4. \A l \in Login : login[l].at = "new" /\ login[l].when = 0
  OBVIOUS
<1>5. LoginTypes
  <2>1. moment \in 0 .. MaxMoment /\ release \in 1 .. Len(KeyList) /\ since \in [1 .. Len(KeyList) -> Nat]
    BY LoginConstants
  <2>2. jwksExp \in Nat /\ begun \in Nat /\ fetchedAt \in Seq(Nat)
    OBVIOUS
  <2> QED BY Zenon, <1>1, <1>3, <2>1, <2>2 DEF LoginTypes
<1>6. Published
  BY LoginConstants DEF Published
<1>7. AnswerOut /\ Fetching /\ Cached
  BY Zenon DEF AnswerOut, Fetching, Cached
<1>8. Spaced
  BY DEF Spaced
<1>9. \A l \in Login : Judged(l)
  <2>1. ASSUME NEW l \in Login
        PROVE  login[l].when <= moment /\ login[l].at # "valid" /\ login[l].at # "unknown"
    BY <1>4
  <2> QED BY Zenon, <2>1 DEF Judged
<1>10. TenantInv
  <2>1. tenants = {} /\ identity = NoLogin
    BY Zenon
  <2>2. \A l \in Login : login[l].at \notin {"create", "link", "found", "served"}
    BY <1>4
  <2> QED BY Zenon, <2>1, <2>2 DEF TenantInv, Placed
<1> QED BY Zenon, <1>5, <1>6, <1>7, <1>8, <1>9, <1>10 DEF LoginInv, KeyInv

LEMMA ValidateStep ==
    ASSUME LoginInv, NEW l \in Login, ValidateToken(l)
    PROVE  LoginInv'
<1> USE DEF LoginInv
<1>1. PICK t \in Token, meets \in BOOLEAN :
          login' = [login EXCEPT ![l].at = IF meets /\ moment <= t.exp THEN "read" ELSE "refused",
                                 ![l].token = t]
  BY Zenon DEF ValidateToken
<1> DEFINE a == IF meets /\ moment <= t.exp THEN "read" ELSE "refused"
           state == [login[l] EXCEPT !.at = a, !.token = t]
<1>2. login \in [Login -> LoginState] /\ login[l] \in LoginState
  BY Zenon DEF LoginTypes
<1>3. a \in {"read", "refused"}
  BY Zenon
<1>4. login' = [login EXCEPT ![l] = state]
  BY Zenon, <1>1
<1> HIDE DEF a
<1>5. /\ state \in LoginState /\ state.at = a /\ state.tenant = login[l].tenant /\ state.when = login[l].when
  BY Zenon, <1>2, <1>3 DEF LoginState, Stage
<1> HIDE DEF state
<1>6. LoginMoves(l, login'[l]) /\ login'[l] = state
  BY Zenon, <1>2, <1>4, <1>5 DEF LoginMoves
<1>7. login[l].at = "new" /\ UNCHANGED <<providerVars, keyVars, tenantSide>>
  BY Zenon DEF ValidateToken
<1>8. fetching # l
  BY Zenon, <1>7, LoginConstants DEF KeyInv, Fetching
<1>9. Judged(l)'
  BY Zenon, <1>3, <1>5, <1>6, <1>7, JudgedNothing DEF KeyInv, providerVars
<1>10. LoginTypes'
  BY Zenon, <1>6, <1>7, TypesAlone
<1>11. KeyInv'
  BY Zenon, <1>6, <1>7, <1>8, <1>9, KeysAlone
<1>12. TenantInv'
  <2>1. login'[l].at \notin {"create", "link", "found"} /\ login'[l].at # "served"
    BY Zenon, <1>3, <1>5, <1>6
  <2>2. login[l].at \notin {"create", "link"}
    BY Zenon, <1>7
  <2> QED BY Zenon, <1>6, <1>7, <2>1, <2>2, TenantsAlone
<1> QED BY Zenon, <1>10, <1>11, <1>12

\* A verdict from a list that was out recently, whatever else the step does to the keys.
LEMMA VerdictTenants ==
    ASSUME LoginInv, NEW l \in Login, NEW keys, LoginVerdict(l, keys), UNCHANGED tenantSide,
           login[l].at \notin {"create", "link"}
    PROVE  TenantInv'
<1>1. LoginMoves(l, login'[l]) /\ login'[l].at \in {"valid", "unknown", "refused"}
  BY Zenon, LoginIsJudged DEF LoginInv
<1>2. login'[l].at \notin {"create", "link", "found"} /\ login'[l].at # "served"
  BY Zenon, <1>1
<1> QED BY Zenon, <1>1, <1>2, TenantsAlone DEF LoginInv

LEMMA CacheVerdict ==
    ASSUME LoginInv, NEW l \in Login, CacheFresh, LoginVerdict(l, jwks),
           login[l].at \in {"read", "lock"}, UNCHANGED <<providerVars, keyVars, tenantSide>>
    PROVE  LoginInv'
<1> USE DEF LoginInv
<1>1. LoginMoves(l, login'[l])
  BY Zenon, LoginIsJudged
<1>2. PICK r \in Recent(moment) : jwks = KeyList[r]
  BY Zenon, FreshIsRecent
<1>3. Judged(l)'
  BY Zenon, <1>2, VerdictSound
<1>4. fetching # l
  BY Zenon, LoginConstants DEF KeyInv, Fetching
<1>5. KeyInv'
  BY Zenon, <1>1, <1>3, <1>4, KeysAlone
<1>6. TenantInv'
  BY Zenon, VerdictTenants
<1> QED BY Zenon, <1>1, <1>5, <1>6, TypesAlone

\* A login that goes on to a stage before its verdict, or is refused.
LEMMA PlainMove ==
    ASSUME LoginInv, NEW l \in Login, NEW a \in {"lock", "refused", "served"}, Goes(l, a),
           login[l].at \notin {"create", "link", "fetch"}, a = "served" => login[l].at = "found",
           UNCHANGED <<providerVars, keyVars, tenantSide>>
    PROVE  LoginInv'
<1> USE DEF LoginInv
<1>1. a \in Stage
  BY Zenon DEF Stage
<1>2. /\ LoginMoves(l, login'[l]) /\ login'[l].at = a
      /\ login'[l].tenant = login[l].tenant /\ login'[l].when = login[l].when
  BY Zenon, <1>1, LoginGoes
<1>3. Judged(l)'
  BY Zenon, <1>2, JudgedNothing DEF KeyInv, providerVars
<1>4. fetching # l
  BY Zenon, LoginConstants DEF KeyInv, Fetching
<1>5. KeyInv'
  BY Zenon, <1>2, <1>3, <1>4, KeysAlone
<1>6. TenantInv'
  <2>1. login'[l].at \notin {"create", "link", "found"} /\ login[l].at \notin {"create", "link"}
    BY Zenon, <1>2
  <2> QED BY Zenon, <1>2, <2>1, TenantsAlone
<1> QED BY Zenon, <1>2, <1>5, <1>6, TypesAlone

LEMMA ReadCacheStep ==
    ASSUME LoginInv, NEW l \in Login, ReadCache(l)
    PROVE  LoginInv'
<1>1. login[l].at = "read" /\ UNCHANGED <<providerVars, keyVars, tenantSide>>
  BY Zenon DEF ReadCache
<1>2. CASE CacheFresh /\ LoginVerdict(l, jwks)
  BY Zenon, <1>1, <1>2, CacheVerdict
<1>3. CASE Goes(l, "lock")
  BY Zenon, <1>1, <1>3, PlainMove
<1> QED BY Zenon, <1>2, <1>3 DEF ReadCache

LEMMA LockStep ==
    ASSUME LoginInv, NEW l \in Login, LockCache(l)
    PROVE  LoginInv'
<1> USE DEF LoginInv
<1>1. /\ login[l].at = "lock" /\ fetching = NoLogin
      /\ UNCHANGED <<providerVars, jwks, jwksExp, fetchedAt, tenantSide>>
  BY Zenon DEF LockCache
<1>2. CASE CacheFresh /\ LoginVerdict(l, jwks) /\ UNCHANGED <<fetching, answer, begun>>
  <2>1. UNCHANGED <<providerVars, keyVars, tenantSide>>
    BY Zenon, <1>1, <1>2 DEF keyVars
  <2> QED BY Zenon, <1>1, <1>2, <2>1, CacheVerdict
<1>3. CASE ~CacheFresh /\ Goes(l, "fetch") /\ fetching' = l /\ answer' = <<>> /\ begun' = moment
  <2>1. "fetch" \in Stage
    BY Zenon DEF Stage
  <2>2. LoginMoves(l, login'[l]) /\ login'[l].at = "fetch" /\ login'[l].when = login[l].when
    BY Zenon, <1>3, <2>1, LoginGoes
  <2>3. /\ moment' = moment /\ release' = release /\ since' = since /\ UNCHANGED providerVars
        /\ jwks' = jwks /\ jwksExp' = jwksExp /\ fetchedAt' = fetchedAt
    BY Zenon, <1>1 DEF providerVars
  <2>4. moment \in Nat /\ jwksExp \in Nat
    BY DEF LoginTypes
  <2>5. LoginTypes'
    BY Zenon, <1>1, <1>3, <2>2, <2>3, <2>4 DEF LoginTypes, LoginMoves, tenantSide
  <2>6. AnswerOut' /\ Cached' /\ Spaced'
    BY Zenon, <1>3, <2>3 DEF KeyInv, AnswerOut, Cached, Spaced
  <2>7. jwks' # <<>> => jwksExp' <= begun'
    BY <1>3, <2>3, <2>4 DEF CacheFresh
  <2>8. begun' <= moment' /\ moment' <= begun' + FetchTimeout
    BY <1>3, <2>3, <2>4, LoginConstants
  <2>9. Published' /\ Fetching'
    BY Zenon, <1>3, <2>2, <2>3, <2>7, <2>8 DEF KeyInv, Published, Fetching
  <2>10. ASSUME NEW k \in Login
         PROVE  Judged(k)'
    <3>1. CASE k = l
      BY Zenon, <2>2, <2>3, <3>1, JudgedNothing DEF KeyInv
    <3>2. CASE k # l
      BY Zenon, <2>2, <2>3, <3>2, JudgedKept DEF KeyInv, LoginMoves
    <3> QED BY Zenon, <3>1, <3>2
  <2>11. KeyInv'
    BY Zenon, <2>6, <2>9, <2>10 DEF KeyInv
  <2>12. TenantInv'
    BY Zenon, <1>1, <2>2, TenantsAlone
  <2> QED BY Zenon, <2>5, <2>11, <2>12
<1> QED BY Zenon, <1>2, <1>3 DEF LockCache

\* One more fetch: it comes a TTL after the last one.
LEMMA FetchSpaced ==
    ASSUME LoginTypes, KeyInv, fetching # NoLogin, jwks' # <<>>,
           jwksExp' = moment + jwksTTL, fetchedAt' = Append(fetchedAt, moment)
    PROVE  Spaced' /\ fetchedAt' \in Seq(Nat)
<1>1. fetchedAt \in Seq(Nat) /\ moment \in Nat /\ jwksExp \in Nat /\ begun \in Nat
  BY DEF LoginTypes
<1>2. /\ \A i \in 1 .. Len(fetchedAt) - 1 : fetchedAt[i + 1] >= fetchedAt[i] + jwksTTL
      /\ Len(fetchedAt) > 0 => jwks # <<>> /\ jwksExp = fetchedAt[Len(fetchedAt)] + jwksTTL
      /\ begun <= moment /\ (jwks # <<>> => jwksExp <= begun)
  BY Zenon DEF KeyInv, Spaced, Fetching
<1>3. Len(fetchedAt) > 0 => fetchedAt[Len(fetchedAt)] + jwksTTL <= moment
  BY <1>1, <1>2, LoginConstants
<1>4. /\ fetchedAt' \in Seq(Nat) /\ Len(fetchedAt') = Len(fetchedAt) + 1
      /\ fetchedAt'[Len(fetchedAt) + 1] = moment /\ Len(fetchedAt) \in Nat
      /\ \A i \in 1 .. Len(fetchedAt) : fetchedAt'[i] = fetchedAt[i] /\ fetchedAt[i] \in Nat
  BY <1>1
<1>5. ASSUME NEW i \in 1 .. Len(fetchedAt') - 1
      PROVE  fetchedAt'[i + 1] >= fetchedAt'[i] + jwksTTL
  <2>1. CASE i = Len(fetchedAt)
    BY <1>1, <1>3, <1>4, <2>1, LoginConstants
  <2>2. CASE i < Len(fetchedAt)
    BY <1>2, <1>4, <2>2, LoginConstants
  <2> QED BY <1>4, <2>1, <2>2
<1>6. jwksExp' = fetchedAt'[Len(fetchedAt')] + jwksTTL
  BY <1>1, <1>4
<1> QED BY Zenon, <1>4, <1>5, <1>6 DEF Spaced

LEMMA FetchStep ==
    ASSUME LoginInv, NEW l \in Login, FetchJWKS(l)
    PROVE  LoginInv'
<1> USE DEF LoginInv
<1>1. /\ fetching = l /\ answer # <<>> /\ jwks' = answer /\ jwksExp' = moment + jwksTTL
      /\ fetchedAt' = Append(fetchedAt, moment) /\ LoginVerdict(l, answer)
      /\ fetching' = NoLogin /\ answer' = <<>> /\ begun' = 0 /\ UNCHANGED <<providerVars, tenantSide>>
  BY Zenon DEF FetchJWKS
<1>2. fetching # NoLogin /\ login[l].at = "fetch" /\ jwks' # <<>>
  BY Zenon, <1>1, LoginConstants DEF KeyInv, Fetching
<1>3. Spaced' /\ fetchedAt' \in Seq(Nat)
  BY Zenon, <1>1, <1>2, FetchSpaced
<1>4. LoginMoves(l, login'[l])
  BY Zenon, <1>1, LoginIsJudged
<1>5. moment' = moment /\ release' = release /\ since' = since
  BY Zenon, <1>1 DEF providerVars
<1>6. moment \in Nat /\ release \in 1 .. Len(KeyList) /\ since \in [1 .. Len(KeyList) -> Nat]
  BY DEF LoginTypes
<1>7. jwksExp' \in Nat /\ begun' \in Nat /\ begun' <= moment
  BY <1>1, <1>6, LoginConstants
<1>8. LoginTypes'
  BY Zenon, <1>1, <1>3, <1>4, <1>5, <1>7 DEF LoginTypes, LoginMoves, tenantSide
<1>9. PICK r \in Recent(moment) :
              /\ answer = KeyList[r] /\ since[r] <= moment
              /\ r < release => since[r + 1] + FetchTimeout >= moment
  BY Zenon, <1>1, <1>2, AnswerIsRecent
<1>10. Judged(l)'
  BY Zenon, <1>1, <1>9, VerdictSound
<1>11. \A k \in Login : Judged(k)'
  BY Zenon, <1>1, <1>4, <1>10, JudgedKept DEF KeyInv, LoginMoves
<1>12. r \in 1 .. release
  BY Zenon DEF Recent
<1>13. /\ since[r] + jwksTTL <= moment + jwksTTL /\ moment + jwksTTL <= moment + jwksTTL
       /\ r < release => since[r + 1] + jwksTTL + FetchTimeout >= moment + jwksTTL
  <2>1. since[r] \in Nat /\ (r < release => since[r + 1] \in Nat)
    BY <1>6, <1>12, LoginConstants
  <2> QED BY <1>6, <1>9, <2>1, LoginConstants
<1>14. Cached'
  BY Zenon, <1>1, <1>5, <1>9, <1>12, <1>13 DEF Cached
<1>15. Published' /\ AnswerOut' /\ Fetching'
  BY Zenon, <1>1, <1>5, <1>7 DEF KeyInv, Published, AnswerOut, Fetching
<1>16. KeyInv'
  BY Zenon, <1>3, <1>11, <1>14, <1>15 DEF KeyInv
<1>17. TenantInv'
  BY Zenon, <1>1, <1>2, VerdictTenants
<1> QED BY Zenon, <1>8, <1>16, <1>17

LEMMA FetchFailsStep ==
    ASSUME LoginInv, NEW l \in Login, FetchFails(l)
    PROVE  LoginInv'
<1> USE DEF LoginInv
<1>1. /\ fetching = l /\ Goes(l, "refused") /\ fetching' = NoLogin /\ answer' = <<>> /\ begun' = 0
      /\ UNCHANGED <<providerVars, jwks, jwksExp, fetchedAt, tenantSide>>
  BY Zenon DEF FetchFails
<1>2. login[l].at = "fetch" /\ "refused" \in Stage
  BY Zenon, <1>1, LoginConstants DEF KeyInv, Fetching, Stage
<1>3. LoginMoves(l, login'[l]) /\ login'[l].at = "refused" /\ login'[l].when = login[l].when
  BY Zenon, <1>1, <1>2, LoginGoes
<1>4. /\ moment' = moment /\ release' = release /\ since' = since
      /\ jwks' = jwks /\ jwksExp' = jwksExp /\ fetchedAt' = fetchedAt
  BY Zenon, <1>1 DEF providerVars
<1>5. begun' \in Nat /\ begun' <= moment
  BY <1>1 DEF LoginTypes
<1>6. LoginTypes'
  BY Zenon, <1>1, <1>3, <1>4, <1>5 DEF LoginTypes, LoginMoves, tenantSide
<1>7. Published' /\ AnswerOut' /\ Fetching' /\ Cached' /\ Spaced'
  BY Zenon, <1>1, <1>4, <1>5 DEF KeyInv, Published, AnswerOut, Fetching, Cached, Spaced
<1>8. Judged(l)'
  BY Zenon, <1>3, <1>4, JudgedNothing DEF KeyInv
<1>9. \A k \in Login : Judged(k)'
  BY Zenon, <1>1, <1>3, <1>8, JudgedKept DEF KeyInv, LoginMoves
<1>10. TenantInv'
  BY Zenon, <1>1, <1>2, <1>3, TenantsAlone
<1> QED BY Zenon, <1>6, <1>7, <1>9, <1>10 DEF KeyInv

\* A login past its verdict: the keys are as they were.
LEMMA KeysPast ==
    ASSUME LoginInv, NEW l \in Login, LoginMoves(l, login'[l]), UNCHANGED <<providerVars, keyVars>>,
           login[l].at # "fetch", login'[l].when = login[l].when, login'[l].at \notin {"valid", "unknown"}
    PROVE  KeyInv'
<1> USE DEF LoginInv
<1>1. Judged(l)'
  BY Zenon, JudgedNothing DEF KeyInv, providerVars
<1>2. fetching # l
  BY Zenon, LoginConstants DEF KeyInv, Fetching
<1> QED BY Zenon, <1>1, <1>2, KeysAlone

LEMMA ResolveStep ==
    ASSUME LoginInv, NEW l \in Login, Resolve(l)
    PROVE  LoginInv'
<1> USE DEF LoginInv
<1>1. /\ login[l].at = "valid" /\ UNCHANGED <<providerVars, keyVars>>
      /\ tenants' = tenants /\ blocked' = blocked /\ identity' = identity /\ provisions' = provisions
  BY Zenon DEF Resolve
<1>2. \A k \in Login : Placed(k)
  BY Zenon DEF TenantInv
<1>3. CASE /\ identity # NoLogin /\ raced' = raced
           /\ login' = [login EXCEPT ![l].at = "found", ![l].tenant = identity]
  <2>1. identity \in Login \cup {NoLogin}
    BY Zenon DEF LoginTypes
  <2>2. /\ LoginMoves(l, login'[l]) /\ login'[l].at = "found"
        /\ login'[l].tenant = identity /\ login'[l].when = login[l].when
    BY Zenon, <1>3, <2>1, LoginFinds
  <2>3. UNCHANGED tenantSide
    BY Zenon, <1>1, <1>3 DEF tenantSide
  <2>4. KeyInv'
    BY Zenon, <1>1, <2>2, KeysPast
  <2>5. \A k \in Login \ {l} : login'[k] = login[k]
    BY Zenon, <2>2 DEF LoginMoves
  <2>6. ASSUME NEW k \in Login
        PROVE  Placed(k)'
    <3>1. \A j \in Login : login'[j].at \in {"create", "link"} => login[j].at \in {"create", "link"}
      BY Zenon, <2>2, <2>5
    <3>2. CASE k = l
      BY Zenon, <1>1, <1>2, <1>3, <2>2, <3>2 DEF Placed
    <3>3. CASE k # l
      <4>1. login'[k] = login[k] /\ Placed(k)
        BY Zenon, <1>2, <2>5, <3>3
      <4> QED BY Zenon, <1>1, <1>3, <3>1, <4>1 DEF Placed
    <3> QED BY Zenon, <3>2, <3>3
  <2>7. TenantInv'
    BY Zenon, <1>1, <2>6 DEF TenantInv
  <2> QED BY Zenon, <1>1, <2>2, <2>3, <2>4, <2>7, TypesAlone
<1>4. CASE /\ identity = NoLogin /\ provisions /\ Goes(l, "create")
           /\ raced' = (raced \/ (identity = NoLogin /\ FirstLogins # {}))
  <2>1. "create" \in Stage
    BY Zenon DEF Stage
  <2>2. LoginMoves(l, login'[l]) /\ login'[l].at = "create" /\ login'[l].when = login[l].when
    BY Zenon, <1>4, <2>1, LoginGoes
  <2>3. KeyInv'
    BY Zenon, <1>1, <2>2, KeysPast
  <2>4. \A k \in Login \ {l} : login'[k] = login[k]
    BY Zenon, <2>2 DEF LoginMoves
  <2>5. ~raced' => ~raced /\ \A k \in Login : login[k].at \notin {"create", "link"}
    BY Zenon, <1>4 DEF FirstLogins
  <2>6. ASSUME NEW k \in Login
        PROVE  Placed(k)'
    <3>1. ~raced' => \A j \in Login : login'[j].at \in {"create", "link"} => j = l
      BY Zenon, <2>4, <2>5
    <3>2. CASE k = l
      BY Zenon, <1>1, <1>2, <1>4, <2>2, <2>5, <3>1, <3>2 DEF Placed
    <3>3. CASE k # l
      <4>1. login'[k] = login[k] /\ Placed(k)
        BY Zenon, <1>2, <2>4, <3>3
      <4> QED BY Zenon, <1>1, <2>5, <3>1, <4>1 DEF Placed
    <3> QED BY Zenon, <3>2, <3>3
  <2>7. TenantInv'
    BY Zenon, <1>1, <2>6 DEF TenantInv
  <2>8. raced' \in BOOLEAN
    BY Zenon, <1>4
  <2>9. LoginTypes'
    BY Zenon, <1>1, <2>2, <2>8 DEF LoginTypes, LoginMoves, providerVars, keyVars
  <2> QED BY Zenon, <2>3, <2>7, <2>9
<1>5. CASE Goes(l, "refused") /\ UNCHANGED raced
  <2>1. UNCHANGED <<providerVars, keyVars, tenantSide>>
    BY Zenon, <1>1, <1>5 DEF tenantSide
  <2> QED BY Zenon, <1>1, <1>5, <2>1, PlainMove
<1> QED BY Zenon, <1>3, <1>4, <1>5 DEF Resolve, GetOAuthIdentityTenant

LEMMA PutTenantStep ==
    ASSUME LoginInv, NEW l \in Login, PutNewTenant(l)
    PROVE  LoginInv'
<1> USE DEF LoginInv
<1>1. /\ login[l].at = "create" /\ UNCHANGED <<providerVars, keyVars>>
      /\ blocked' = blocked /\ identity' = identity /\ provisions' = provisions /\ raced' = raced
  BY Zenon DEF PutNewTenant
<1>2. PICK a \in {"link", "refused"} :
          Goes(l, a) /\ (a = "link" => tenants' = tenants \cup {l}) /\ (a = "refused" => tenants' = tenants)
  BY Zenon DEF PutNewTenant
<1>3. a \in Stage
  BY Zenon DEF Stage
<1>4. LoginMoves(l, login'[l]) /\ login'[l].at = a /\ login'[l].when = login[l].when
  BY Zenon, <1>2, <1>3, LoginGoes
<1>5. KeyInv'
  BY Zenon, <1>1, <1>4, KeysPast
<1>6. tenants \subseteq tenants' /\ tenants' \subseteq tenants \cup {l} /\ (l \in tenants' => l \in tenants \/ a = "link")
  BY Zenon, <1>2
<1>7. /\ \A k \in Login \ {l} : login'[k] = login[k]
      /\ \A k \in Login : Placed(k)
  BY Zenon, <1>4 DEF TenantInv, LoginMoves
<1>8. LoginTypes'
  BY Zenon, <1>1, <1>4, <1>6 DEF LoginTypes, LoginMoves, providerVars, keyVars
<1>9. \A j \in Login : login'[j].at \in {"create", "link"} => login[j].at \in {"create", "link"}
  BY Zenon, <1>1, <1>7
<1>10. ASSUME NEW k \in Login
       PROVE  Placed(k)'
  <2>1. CASE k = l
    <3>1. provisions /\ (~raced => identity = NoLogin)
      BY Zenon, <1>1, <1>7 DEF Placed
    <3>2. a = "link" => l \in tenants'
      BY Zenon, <1>2
    <3>3. ~raced => (l \in tenants => l = identity \/ login[l].at = "link")
      BY Zenon, <1>7 DEF Placed
    <3>4. NoLogin \notin Login
      BY Zenon, LoginConstants
    <3>5. ~raced => l \notin tenants
      BY Zenon, <1>1, <3>1, <3>3, <3>4
    <3>6. ~raced => (l \in tenants' => login'[l].at = "link")
      BY Zenon, <1>4, <1>6, <3>5
    <3>7. ~raced => \A j \in Login : login'[l].at \in {"create", "link"} /\ login'[j].at \in {"create", "link"} => j = l
      BY Zenon, <1>1, <1>7, <1>9 DEF Placed
    <3> QED BY Zenon, <1>1, <1>4, <2>1, <3>1, <3>2, <3>6, <3>7 DEF Placed
  <2>2. CASE k # l
    <3>1. login'[k] = login[k] /\ Placed(k) /\ (k \in tenants' <=> k \in tenants)
      BY Zenon, <1>6, <1>7, <2>2
    <3> QED BY Zenon, <1>1, <1>9, <3>1 DEF Placed
  <2> QED BY Zenon, <2>1, <2>2
<1>11. provisions
  BY Zenon, <1>1, <1>7 DEF Placed
<1>12. TenantInv'
  BY Zenon, <1>1, <1>6, <1>10, <1>11 DEF TenantInv
<1> QED BY Zenon, <1>5, <1>8, <1>12

LEMMA LinkStep ==
    ASSUME LoginInv, NEW l \in Login, PutOAuthIdentity(l)
    PROVE  LoginInv'
<1> USE DEF LoginInv
<1>1. /\ login[l].at = "link" /\ UNCHANGED <<providerVars, keyVars>>
      /\ tenants' = tenants /\ blocked' = blocked /\ provisions' = provisions
  BY Zenon DEF PutOAuthIdentity
<1>2. /\ \A k \in Login : Placed(k)
      /\ l \in tenants /\ NoLogin \notin Login
  BY Zenon, <1>1, LoginConstants DEF TenantInv, Placed
<1>3. CASE /\ identity' = l /\ raced' = raced
           /\ login' = [login EXCEPT ![l].at = "found", ![l].tenant = l]
  <2>1. l \in Login \cup {NoLogin}
    BY Zenon
  <2>2. /\ LoginMoves(l, login'[l]) /\ login'[l].at = "found"
        /\ login'[l].tenant = l /\ login'[l].when = login[l].when
    BY Zenon, <1>3, <2>1, LoginFinds
  <2>3. KeyInv'
    BY Zenon, <1>1, <2>2, KeysPast
  <2>4. \A k \in Login \ {l} : login'[k] = login[k]
    BY Zenon, <2>2 DEF LoginMoves
  <2>5. ASSUME ~raced, NEW k \in Login \ {l}
        PROVE  login[k].at \notin {"create", "link", "found", "served"} /\ k \notin tenants
    <3>1. Placed(k) /\ Placed(l)
      BY Zenon, <1>2
    <3>2. identity = NoLogin
      BY Zenon, <1>1, <2>5, <3>1 DEF Placed
    <3>3. login[k].at \notin {"create", "link"}
      BY Zenon, <1>1, <2>5, <3>1 DEF Placed
    <3>4. login[k].at \notin {"found", "served"} /\ k \notin tenants
      BY Zenon, <1>2, <2>5, <3>1, <3>2, <3>3 DEF Placed
    <3> QED BY Zenon, <3>3, <3>4
  <2>6. ASSUME NEW k \in Login
        PROVE  Placed(k)'
    <3>1. CASE k = l
      BY Zenon, <1>2, <1>3, <2>2, <3>1 DEF Placed
    <3>2. CASE k # l
      <4>1. login'[k] = login[k] /\ Placed(k)
        BY Zenon, <1>2, <2>4, <3>2
      <4>2. ~raced' => login'[k].at \notin {"create", "link", "found", "served"} /\ k \notin tenants'
        BY Zenon, <1>1, <1>3, <2>5, <3>2, <4>1
      <4> QED BY Zenon, <1>1, <4>1, <4>2 DEF Placed
    <3> QED BY Zenon, <3>1, <3>2
  <2>7. TenantInv'
    BY Zenon, <1>1, <1>2, <1>3, <2>6 DEF TenantInv
  <2>8. LoginTypes'
    BY Zenon, <1>1, <1>3, <2>1, <2>2 DEF LoginTypes, LoginMoves, providerVars, keyVars
  <2> QED BY Zenon, <2>3, <2>7, <2>8
<1>4. CASE Goes(l, "refused") /\ raced' = TRUE /\ identity' = identity
  <2>1. "refused" \in Stage
    BY Zenon DEF Stage
  <2>2. LoginMoves(l, login'[l]) /\ login'[l].at = "refused" /\ login'[l].when = login[l].when
    BY Zenon, <1>4, <2>1, LoginGoes
  <2>3. KeyInv'
    BY Zenon, <1>1, <2>2, KeysPast
  <2>4. ASSUME NEW k \in Login
        PROVE  Placed(k)'
    <3>1. Placed(k) /\ (login'[k].at = "refused" \/ login'[k] = login[k])
      BY Zenon, <1>2, <2>2 DEF LoginMoves
    <3> QED BY Zenon, <1>1, <1>4, <3>1 DEF Placed
  <2>5. TenantInv'
    BY Zenon, <1>1, <1>4, <2>4 DEF TenantInv
  <2>6. LoginTypes'
    BY Zenon, <1>1, <1>4, <2>2 DEF LoginTypes, LoginMoves, providerVars, keyVars
  <2> QED BY Zenon, <2>3, <2>5, <2>6
<1> QED BY Zenon, <1>3, <1>4 DEF PutOAuthIdentity

LEMMA GetTenantStep ==
    ASSUME LoginInv, NEW l \in Login, GetTenant(l)
    PROVE  LoginInv'
<1>1. login[l].at = "found" /\ UNCHANGED <<providerVars, keyVars, tenantSide>>
  BY Zenon DEF GetTenant
<1>2. CASE Goes(l, "served")
  BY Zenon, <1>1, <1>2, PlainMove
<1>3. CASE Goes(l, "refused")
  BY Zenon, <1>1, <1>3, PlainMove
<1> QED BY Zenon, <1>2, <1>3 DEF GetTenant

\* The provider and the clock move; the logins and the tenants do not.
LEMMA TenantsStill ==
    ASSUME TenantInv, login' = login, UNCHANGED tenantSide
    PROVE  TenantInv'
BY Zenon DEF TenantInv, Placed, tenantSide

LEMMA AnswerStep ==
    ASSUME LoginInv, Answer
    PROVE  LoginInv'
<1> USE DEF LoginInv
<1>1. /\ answer' = KeyList[release] /\ login' = login /\ UNCHANGED <<providerVars, tenantSide>>
      /\ jwks' = jwks /\ jwksExp' = jwksExp /\ fetching' = fetching /\ begun' = begun /\ fetchedAt' = fetchedAt
      /\ moment' = moment /\ release' = release /\ since' = since
  BY Zenon DEF Answer, providerVars
<1>2. LoginTypes'
  BY Zenon, <1>1 DEF LoginTypes, tenantSide
<1>3. release \in 1 .. release /\ ~(release < release)
  BY DEF LoginTypes
<1>4. AnswerOut'
  BY Zenon, <1>1, <1>3 DEF AnswerOut
<1>5. Published' /\ Fetching' /\ Cached' /\ Spaced'
  BY Zenon, <1>1 DEF KeyInv, Published, Fetching, Cached, Spaced
<1>6. \A k \in Login : Judged(k)'
  BY Zenon, <1>1, JudgedKept DEF KeyInv
<1>7. TenantInv'
  BY Zenon, <1>1, TenantsStill
<1> QED BY Zenon, <1>2, <1>4, <1>5, <1>6, <1>7 DEF KeyInv

LEMMA SuspendStep ==
    ASSUME LoginInv, SuspendLinked
    PROVE  LoginInv'
<1> USE DEF LoginInv
<1>1. /\ identity \notin blocked \cup {NoLogin} /\ blocked' = blocked \cup {identity} /\ login' = login
      /\ UNCHANGED <<providerVars, keyVars>>
      /\ tenants' = tenants /\ identity' = identity /\ provisions' = provisions /\ raced' = raced
  BY Zenon DEF SuspendLinked
<1>2. blocked' \subseteq tenants'
  BY Zenon, <1>1 DEF LoginTypes, TenantInv
<1>3. LoginTypes'
  BY Zenon, <1>1, <1>2 DEF LoginTypes, providerVars, keyVars
<1>4. Published' /\ AnswerOut' /\ Fetching' /\ Cached' /\ Spaced'
  BY Zenon, <1>1 DEF KeyInv, Published, AnswerOut, Fetching, Cached, Spaced, providerVars, keyVars
<1>5. \A k \in Login : Judged(k)'
  BY Zenon, <1>1, JudgedKept DEF KeyInv
<1>6. TenantInv'
  BY Zenon, <1>1 DEF TenantInv, Placed
<1> QED BY Zenon, <1>3, <1>4, <1>5, <1>6 DEF KeyInv

\* What was out recently stays so when the next list comes out.
LEMMA RecentKept ==
    ASSUME LoginTypes, RotateKeys, NEW m \in Nat, m <= moment
    PROVE  Recent(m) \subseteq Recent(m)'
<1>1. /\ release < Len(KeyList) /\ release' = release + 1 /\ moment' = moment
      /\ since' = [since EXCEPT ![release + 1] = moment]
  BY Zenon DEF RotateKeys
<1>2. /\ moment \in Nat /\ release \in 1 .. Len(KeyList) /\ since \in [1 .. Len(KeyList) -> Nat]
  BY DEF LoginTypes
<1>3. SUFFICES ASSUME NEW r \in 1 .. release, since[r] <= m,
                      r < release => since[r + 1] + jwksTTL + FetchTimeout > m
               PROVE  r \in 1 .. release' /\ since'[r] <= m
                      /\ (r < release' => since'[r + 1] + jwksTTL + FetchTimeout > m)
  BY Zenon DEF Recent
<1>4. since'[r] = since[r] /\ since'[release + 1] = moment /\ (r < release => since'[r + 1] = since[r + 1])
  BY <1>1, <1>2, LoginConstants
<1>5. r < release' => since'[r + 1] + jwksTTL + FetchTimeout > m
  <2>1. CASE r = release
    BY <1>1, <1>2, <1>4, <2>1, LoginConstants
  <2>2. CASE r < release
    BY <1>3, <1>4, <2>2
  <2> QED BY <1>2, <2>1, <2>2
<1> QED BY <1>1, <1>2, <1>3, <1>4, <1>5

LEMMA RotateStep ==
    ASSUME LoginInv, RotateKeys
    PROVE  LoginInv'
<1> USE DEF LoginInv
<1>1. /\ release < Len(KeyList) /\ release' = release + 1 /\ moment' = moment /\ login' = login
      /\ since' = [since EXCEPT ![release + 1] = moment] /\ UNCHANGED tenantSide
      /\ jwks' = jwks /\ jwksExp' = jwksExp /\ fetching' = fetching /\ answer' = answer
      /\ begun' = begun /\ fetchedAt' = fetchedAt
  BY Zenon DEF RotateKeys, keyVars
<1>2. /\ moment \in Nat /\ release \in 1 .. Len(KeyList) /\ since \in [1 .. Len(KeyList) -> Nat]
      /\ jwksExp \in Nat /\ begun \in Nat
  BY DEF LoginTypes
<1>3. /\ since' \in [1 .. Len(KeyList) -> Nat] /\ since'[release + 1] = moment
      /\ \A r \in 1 .. release : since'[r] = since[r] /\ r \in 1 .. release'
      /\ \A r \in 1 .. release : r < release => since'[r + 1] = since[r + 1]
      /\ release' \in 1 .. Len(KeyList)
  BY <1>1, <1>2, LoginConstants
<1>4. LoginTypes'
  BY Zenon, <1>1, <1>3 DEF LoginTypes, tenantSide
<1>5. /\ begun <= moment /\ \A r \in 1 .. release : since[r] <= moment
  BY Zenon DEF KeyInv, Published
<1>6. Published'
  <2>1. ASSUME NEW r \in 1 .. release'
        PROVE  since'[r] <= moment'
    BY <1>1, <1>2, <1>3, <1>5
  <2> QED BY Zenon, <1>1, <1>5, <2>1 DEF Published
<1>7. AnswerOut'
  <2>1. SUFFICES ASSUME answer' # <<>>
                 PROVE  \E r \in 1 .. release' : answer' = KeyList[r] /\ (r < release' => since'[r + 1] >= begun')
    BY Zenon DEF AnswerOut
  <2>2. PICK r \in 1 .. release : answer = KeyList[r] /\ (r < release => since[r + 1] >= begun)
    BY Zenon, <1>1, <2>1 DEF KeyInv, AnswerOut
  <2>3. r < release' => since'[r + 1] >= begun
    BY <1>1, <1>2, <1>3, <1>5, <2>2
  <2> QED BY Zenon, <1>1, <1>3, <2>2, <2>3
<1>8. Cached'
  <2>1. SUFFICES ASSUME jwks' # <<>>
                 PROVE  \E r \in 1 .. release' :
                           /\ jwks' = KeyList[r] /\ since'[r] + jwksTTL <= jwksExp'
                           /\ jwksExp' <= moment' + jwksTTL
                           /\ r < release' => since'[r + 1] + jwksTTL + FetchTimeout >= jwksExp'
    BY Zenon DEF Cached
  <2>2. PICK r \in 1 .. release :
            /\ jwks = KeyList[r] /\ since[r] + jwksTTL <= jwksExp
            /\ jwksExp <= moment + jwksTTL
            /\ r < release => since[r + 1] + jwksTTL + FetchTimeout >= jwksExp
    BY Zenon, <1>1, <2>1 DEF KeyInv, Cached
  <2>3. r < release' => since'[r + 1] + jwksTTL + FetchTimeout >= jwksExp
    <3>1. CASE r = release
      BY <1>1, <1>2, <1>3, <2>2, <3>1, LoginConstants
    <3>2. CASE r < release
      BY <1>3, <2>2, <3>2
    <3> QED BY <1>2, <3>1, <3>2
  <2>4. since'[r] + jwksTTL <= jwksExp
    BY Zenon, <1>3, <2>2
  <2> QED BY Zenon, <1>1, <1>3, <2>2, <2>3, <2>4
<1>9. Fetching' /\ Spaced'
  BY Zenon, <1>1 DEF KeyInv, Fetching, Spaced
<1>10. ASSUME NEW k \in Login
       PROVE  Judged(k)'
  <2>1. Judged(k) /\ login[k].when <= moment /\ login'[k] = login[k]
    BY Zenon, <1>1 DEF KeyInv, Judged
  <2>2. login[k].when \in Nat
    <3>1. login[k] \in LoginState
      BY Zenon DEF LoginTypes
    <3> QED BY <3>1 DEF LoginState
  <2>3. Recent(login[k].when) \subseteq Recent(login[k].when)'
    <3>1. ASSUME NEW m, m = login[k].when
          PROVE  Recent(m) \subseteq Recent(m)'
      BY Zenon, <2>1, <2>2, <3>1, RecentKept
    <3> QED BY Zenon, <2>1, <3>1 DEF Recent
  <2> QED BY Zenon, <1>1, <2>1, <2>3 DEF Judged, KeysOf
<1>11. TenantInv'
  BY Zenon, <1>1, TenantsStill
<1> QED BY Zenon, <1>4, <1>6, <1>7, <1>8, <1>9, <1>10, <1>11 DEF KeyInv

LEMMA MomentStep ==
    ASSUME LoginInv, MomentPasses
    PROVE  LoginInv'
<1> USE DEF LoginInv
<1>1. /\ moment < MaxMoment /\ moment' = moment + 1 /\ release' = release /\ since' = since
      /\ fetching # NoLogin => moment < begun + FetchTimeout
      /\ login' = login /\ UNCHANGED tenantSide
      /\ jwks' = jwks /\ jwksExp' = jwksExp /\ fetching' = fetching /\ answer' = answer
      /\ begun' = begun /\ fetchedAt' = fetchedAt
  BY Zenon DEF MomentPasses, keyVars
<1>2. /\ moment \in Nat /\ release \in 1 .. Len(KeyList) /\ since \in [1 .. Len(KeyList) -> Nat]
      /\ jwksExp \in Nat /\ begun \in Nat /\ moment' \in 0 .. MaxMoment
  BY <1>1, LoginConstants DEF LoginTypes
<1>3. LoginTypes'
  BY Zenon, <1>1, <1>2 DEF LoginTypes, tenantSide
<1>4. \A n \in Nat : n <= moment => n <= moment'
  BY <1>1, <1>2
<1>5. Published'
  <2>1. begun <= moment' /\ \A r \in 1 .. release : since[r] \in Nat
    BY <1>2, <1>4, LoginConstants DEF KeyInv, Published
  <2> QED BY Zenon, <1>1, <1>4, <2>1 DEF KeyInv, Published
<1>6. AnswerOut' /\ Spaced'
  BY Zenon, <1>1 DEF KeyInv, AnswerOut, Spaced
<1>7. Cached'
  <2>1. jwksExp <= moment + jwksTTL => jwksExp <= moment' + jwksTTL
    BY <1>1, <1>2, LoginConstants
  <2> QED BY Zenon, <1>1, <2>1 DEF KeyInv, Cached
<1>8. Fetching'
  <2>1. fetching # NoLogin => moment' <= begun + FetchTimeout
    BY <1>1, <1>2, LoginConstants
  <2>2. begun <= moment => begun <= moment'
    BY Zenon, <1>2, <1>4
  <2> QED BY Zenon, <1>1, <2>1, <2>2 DEF KeyInv, Fetching
<1>9. ASSUME NEW k \in Login
      PROVE  Judged(k)'
  <2>1. login[k].when \in Nat
    <3>1. login[k] \in LoginState
      BY Zenon DEF LoginTypes
    <3> QED BY <3>1 DEF LoginState
  <2>2. Judged(k) /\ login[k].when <= moment'
    BY Zenon, <1>4, <2>1 DEF KeyInv, Judged
  <2> QED BY Zenon, <1>1, <2>2 DEF Judged, Recent, KeysOf
<1>10. TenantInv'
  BY Zenon, <1>1, TenantsStill
<1> QED BY Zenon, <1>3, <1>5, <1>6, <1>7, <1>8, <1>9, <1>10 DEF KeyInv

LEMMA LoginInvSound ==
    ASSUME LoginInv
    PROVE  LoginTypeOK /\ KeysCurrent /\ OneTenantEach
<1> USE DEF LoginInv
<1>1. LoginTypeOK
  <2>1. release \in DOMAIN KeyList
    BY Zenon, LoginConstants DEF LoginTypes
  <2>2. \A l \in Login : login[l].at \in Stage
    <3>1. \A s \in LoginState : s.at \in Stage
      BY DEF LoginState
    <3> QED BY Zenon, <3>1 DEF LoginTypes
  <2> QED BY Zenon, <2>1, <2>2 DEF LoginTypeOK, LoginTypes, Stage
<1>2. KeysCurrent
  BY Zenon DEF KeyInv, Judged, Spaced, KeysCurrent
<1>3. OneTenantEach
  <2>1. \A l \in Login : Placed(l)
    BY Zenon DEF TenantInv
  <2>2. ~raced => tenants \subseteq {identity} \cup FirstLogins
    BY Zenon, <2>1 DEF Placed, FirstLogins, LoginTypes
  <2> QED BY Zenon, <2>1, <2>2 DEF OneTenantEach, TenantInv, Placed
<1> QED BY Zenon, <1>1, <1>2, <1>3

\* Whatever the lists of keys, the logins and the times: a token's signature is judged by
\* keys the provider had out within the TTL and one fetch (ValidateToken, getJWKS), the keys
\* are fetched at most once per TTL, and a subject has the one tenant its first login has
\* created (OAuth2Middleware), unless first logins have raced or one has failed halfway.
THEOREM OutsideLoginsAreSound == LoginSpec => [](LoginTypeOK /\ KeysCurrent /\ OneTenantEach)
<1>1. LoginInit => LoginInv
  BY Zenon, LoginStarts
<1>2. LoginInv /\ [LoginNext]_loginVars => LoginInv'
  <2> SUFFICES ASSUME LoginInv, [LoginNext]_loginVars
               PROVE  LoginInv'
    OBVIOUS
  <2>1. ASSUME NEW l \in Login,
               \/ ValidateToken(l) \/ ReadCache(l) \/ LockCache(l) \/ FetchJWKS(l) \/ FetchFails(l)
               \/ Resolve(l) \/ PutNewTenant(l) \/ PutOAuthIdentity(l) \/ GetTenant(l)
        PROVE  LoginInv'
    BY Zenon, <2>1, ValidateStep, ReadCacheStep, LockStep, FetchStep, FetchFailsStep,
       ResolveStep, PutTenantStep, LinkStep, GetTenantStep
  <2>2. CASE Answer
    BY Zenon, <2>2, AnswerStep
  <2>3. CASE SuspendLinked
    BY Zenon, <2>3, SuspendStep
  <2>4. CASE RotateKeys
    BY Zenon, <2>4, RotateStep
  <2>5. CASE MomentPasses
    BY Zenon, <2>5, MomentStep
  <2>6. CASE UNCHANGED loginVars
    <3>1. UNCHANGED <<providerVars, keyVars, tenantSide>> /\ login' = login
      BY Zenon, <2>6 DEF loginVars
    <3>2. LoginTypes'
      BY Zenon, <3>1 DEF LoginInv, LoginTypes, providerVars, keyVars, tenantSide
    <3>3. Published' /\ AnswerOut' /\ Fetching' /\ Cached' /\ Spaced'
      BY Zenon, <3>1 DEF LoginInv, KeyInv, Published, AnswerOut, Fetching, Cached, Spaced, providerVars, keyVars
    <3>4. \A k \in Login : Judged(k)'
      BY Zenon, <3>1, JudgedKept DEF LoginInv, KeyInv
    <3>5. TenantInv'
      BY Zenon, <3>1, TenantsStill DEF LoginInv
    <3> QED BY Zenon, <3>2, <3>3, <3>4, <3>5 DEF LoginInv, KeyInv
  <2> QED BY Zenon, <2>1, <2>2, <2>3, <2>4, <2>5, <2>6 DEF LoginNext
<1>3. LoginInv => LoginTypeOK /\ KeysCurrent /\ OneTenantEach
  BY Zenon, LoginInvSound
<1> QED BY <1>1, <1>2, <1>3, PTL DEF LoginSpec

-----------------------------------------------------------------------------
(* Outside logins and the keys of agents share nothing.                    *)

\* Whatever the logins, the lists of keys, the starts of agents and the order of what
\* arrives: outside tokens are checked with current keys and a subject has one tenant
\* (OAuth2Validator, OAuth2Middleware), and agents check what they are sent with the keys
\* of its senders (Agent.handleMessage).
THEOREM LoginsAreSound == LoginSpec /\ PeerKeySpec => []LoginsSound
<1>1. (LoginTypeOK /\ KeysCurrent /\ OneTenantEach) /\ (PeerKeyTypeOK /\ KeysFollow /\ PinnedOnce)
      => LoginsSound
  BY Zenon DEF LoginsSound
<1> QED
  BY <1>1, OutsideLoginsAreSound, KeysAreFollowed, PTL
==============================================================================
