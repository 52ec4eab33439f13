--------------------------- MODULE ServicesProofs ---------------------------
(***************************************************************************)
(* Theorems about the requests and the connections of an agent, and about  *)
(* what the billing database keeps of its tenants, for every number of     *)
(* callers, connections, events, recorders, signups, links and processes   *)
(* that open it.                                                           *)
(*                                                                         *)
(* The audit log: the hash of a row covers the numbers of all the rows up  *)
(* to it, whether or not one of them has been lost since, and a recording  *)
(* that nothing has overtaken holds the hash of the last row.              *)
(*                                                                         *)
(* The migrations: the versions recorded are the first ones of the schema, *)
(* with all their statements; a statement of a version that is not         *)
(* recorded is in only where the version is applied statement by           *)
(* statement, where the process that applied it is about to record it, or  *)
(* where such a process has ended.                                         *)
(*                                                                         *)
(* Signups and the links that verify addresses: an account is there for    *)
(* what a signup was answered, and a link is spent by one visit.           *)
(***************************************************************************)
EXTENDS BillingRecords, Signups, AgentRequests, PeerLinks, TLAPS

-----------------------------------------------------------------------------
(* An agent's requests: the invariants.                                    *)

AgentSpec == AgentInit /\ [][AgentNext]_agentVars

AgentTypes ==
    /\ AgentTypeOK
    /\ now \in 0 .. MaxTime
    /\ DOMAIN taken = Call
    /\ DOMAIN seen = Peer

\* A call that has registered its channel, and can still send, has it registered.
CallsInv ==
    /\ AgentTypes
    /\ WaitersServed
    /\ \A c \in Call : at[c] = "registered" /\ life[CallerOf[c]] = "up" => Id(c) \in pending

\* The request of a Send, as every one of its deliveries has it.
RequestOf(c) == [kind |-> "request", call |-> c, n |-> 0]
LastTaken(c) == taken[c][Len(taken[c])]

\* seenMsgs knows when the request was last taken on, or need not know any more.
Recalled(c) ==
    \/ now - LastTaken(c) > DedupTTL
    \/ /\ RequestOf(c) \in DOMAIN seen[CalleeOf[c]]
       /\ seen[CalleeOf[c]][RequestOf(c)] = LastTaken(c)

DedupInv ==
    /\ AgentTypes
    /\ TakenApart
    /\ \A m \in wire : m.kind = "request" /\ IsSend(m.call) => m = RequestOf(m.call)
    /\ \A c \in Call : taken[c] # <<>> => IsSend(c) /\ LastTaken(c) <= now /\ Recalled(c)

-----------------------------------------------------------------------------
(* An agent's requests: types.                                             *)

\* What calls, answers and handlers put on the wire, in the maps and in the channels
\* is well formed, and a call makes no more than MaxAttempts attempts.
LEMMA AgentTypesStep == AgentTypes /\ [AgentNext]_agentVars => AgentTypes'
<1> SUFFICES ASSUME AgentTypes, [AgentNext]_agentVars PROVE AgentTypes'
  OBVIOUS
<1> USE DEF AgentTypes, AgentTypeOK
<1>a. MaxAttempts \in Nat \ {0}
  BY Zenon, CallAssumption
<1>1. ASSUME NEW c \in Call,
             Refuse(c) \/ RegisterCall(c) \/ Wake(c) \/ Expire(c)
      PROVE  AgentTypes'
  <2>1. at' \in [Call -> {"idle", "registered", "waiting", "pausing", "returned"}]
    BY Zenon, <1>1 DEF Refuse, RegisterCall, Wake, Expire, Finish
  <2>2. pending' \subseteq Call \X (1 .. MaxAttempts)
    BY <1>1 DEF Refuse, RegisterCall, Wake, Expire, Finish, Id
  <2>3. chan' \in [Call -> {"empty", "nil", "result", "error", "limited"}]
    BY Zenon, <1>1 DEF Refuse, RegisterCall, Wake, Expire
  <2> QED
    BY Zenon, <1>1, <2>1, <2>2, <2>3 DEF Refuse, RegisterCall, Wake, Expire
<1>2. ASSUME NEW c \in Call, Transmit(c) PROVE AgentTypes'
  <2>1. [kind |-> "request", call |-> c, n |-> IF IsSend(c) THEN 0 ELSE try[c]] \in Request
    BY <1>a DEF Request
  <2>2. wire' \subseteq Request \cup Answer
    BY Zenon, <1>2, <2>1 DEF Transmit
  <2>3. at' \in [Call -> {"idle", "registered", "waiting", "pausing", "returned"}]
    BY Zenon, <1>2 DEF Transmit, Finish
  <2>4. pending' \subseteq pending
    BY Zenon, <1>2 DEF Transmit, Finish
  <2> QED
    BY Zenon, <1>2, <2>2, <2>3, <2>4 DEF Transmit
<1>3. ASSUME NEW c \in Call, EndPause(c) PROVE AgentTypes'
  <2>1. try' \in [Call -> 1 .. MaxAttempts]
    <3>1. CASE try[c] = MaxAttempts
      BY Zenon, <1>3, <3>1 DEF EndPause
    <3>2. CASE try[c] # MaxAttempts
      <4>1. try' = [try EXCEPT ![c] = try[c] + 1]
        BY Zenon, <1>3, <3>2 DEF EndPause
      <4>2. try[c] + 1 \in 1 .. MaxAttempts
        BY <1>a, <3>2
      <4> QED
        BY Zenon, <4>1, <4>2
    <3> QED
      BY Zenon, <3>1, <3>2
  <2>2. at' \in [Call -> {"idle", "registered", "waiting", "pausing", "returned"}]
    BY Zenon, <1>3 DEF EndPause, Finish
  <2>3. pending' \subseteq pending
    BY Zenon, <1>3 DEF EndPause, Finish
  <2> QED
    BY Zenon, <1>3, <2>1, <2>2, <2>3 DEF EndPause
<1>4. ASSUME NEW m \in wire, Deliver(m) PROVE AgentTypes'
  <2>1. wire' \subseteq wire
    BY Zenon, <1>4 DEF Deliver, Receive
  <2>2. DOMAIN seen' = Peer
    BY Zenon, <1>4 DEF Deliver, Duplicate, TakeRequest, TakeAnswer, Remember
  <2>3. found' \subseteq Answer
    BY ZenonT(40), <1>4 DEF Deliver, Duplicate, TakeRequest, TakeAnswer, Request
  <2>4. m.call \in Call
    BY Zenon DEF Request, Answer
  <2>5. /\ DOMAIN taken' = Call
        /\ \A c \in Call : taken'[c] \in Seq(0 .. MaxTime)
    <3>1. Append(taken[m.call], now) \in Seq(0 .. MaxTime)
      BY <2>4
    <3>2. taken' = taken \/ taken' = [taken EXCEPT ![m.call] = Append(taken[m.call], now)]
      BY Zenon, <1>4 DEF Deliver, Duplicate, TakeRequest, TakeAnswer
    <3> QED
      BY Zenon, <3>1, <3>2
  <2>6. tasks' \subseteq Task
    <3>1. [call |-> m.call, n |-> Len(taken[m.call]) + 1, at |-> "verify", what |-> "result"] \in Task
      BY <2>4 DEF Task
    <3> QED
      BY Zenon, <1>4, <3>1 DEF Deliver, Duplicate, TakeRequest, TakeAnswer
  <2> QED
    BY Zenon, <1>4, <2>1, <2>2, <2>3, <2>5, <2>6 DEF Deliver, Receive
<1>5. ASSUME NEW m \in wire, RelayAnswers(m) PROVE AgentTypes'
  <2>1. PICK r \in {"result", "error", "limited"} :
          wire' = (wire \ {m}) \cup {[kind |-> "answer", call |-> m.call, n |-> m.n, what |-> r]}
    BY Zenon, <1>5 DEF RelayAnswers
  <2>2. [kind |-> "answer", call |-> m.call, n |-> m.n, what |-> r] \in Answer
    BY Zenon DEF Request, Answer
  <2>3. wire' \subseteq Request \cup Answer
    BY Zenon, <2>1, <2>2
  <2> QED
    BY Zenon, <1>5, <2>3 DEF RelayAnswers
<1>6. ASSUME NEW m \in wire, Lose(m) PROVE AgentTypes'
  BY Zenon, <1>6 DEF Lose
<1>7. ASSUME NEW m \in found, Post(m) PROVE AgentTypes'
  <2>1. chan' \in [Call -> {"empty", "nil", "result", "error", "limited"}]
    BY Zenon, <1>7 DEF Post, Answer
  <2> QED
    BY Zenon, <1>7, <2>1 DEF Post
<1>8. ASSUME NEW t \in tasks, Handle(t) PROVE AgentTypes'
  <2>1. /\ t \in Task /\ t.call \in Call
        /\ \A step \in {"verify", "resolve", "decrypt", "reply", "execute"}, r \in {"result", "error"} :
              [t EXCEPT !.at = step, !.what = r] \in Task
    BY Zenon DEF Task
  <2>2. tasks' \subseteq Task
    BY <1>8, <2>1 DEF Handle, Verify, ResolvePeer, ResolveCanceled, Decrypt, Execute, Reply, GoTo
  <2>3. known' \in [Peer -> SUBSET Peer]
    BY <1>8, <2>1, CallAssumption
       DEF Handle, Verify, ResolvePeer, ResolveCanceled, Decrypt, Execute, Reply
  <2>4. wire' \subseteq Request \cup Answer
    <3>1. [kind |-> "answer", call |-> t.call, n |-> t.n, what |-> t.what] \in Answer
      BY Zenon, <2>1 DEF Task, Answer
    <3> QED
      BY Zenon, <1>8, <3>1 DEF Handle, Verify, ResolvePeer, ResolveCanceled, Decrypt, Execute, Reply
  <2> QED
    BY Zenon, <1>8, <2>2, <2>3, <2>4 DEF Handle
<1>9. ASSUME NEW a \in Peer, LinkLost(a) \/ StopAgent(a) PROVE AgentTypes'
  BY Zenon, <1>9 DEF LinkLost, StopAgent
<1>10. ASSUME NEW a \in Peer, DrainPendingChannels(a) PROVE AgentTypes'
  BY Zenon, <1>10 DEF DrainPendingChannels
<1>11. ASSUME NEW a \in Peer, CleanupDedup(a) PROVE AgentTypes'
  BY Zenon, <1>11 DEF CleanupDedup
<1>12. ASSUME AgentTick PROVE AgentTypes'
  BY <1>12, ClockAssumption DEF AgentTick, Advance
<1>13. ASSUME UNCHANGED agentVars PROVE AgentTypes'
  BY Zenon, <1>13 DEF agentVars
<1> QED
  BY Zenon, <1>1, <1>2, <1>3, <1>4, <1>5, <1>6, <1>7, <1>8, <1>9, <1>10, <1>11, <1>12, <1>13 DEF AgentNext

\* Before the first call nothing is registered, under way or remembered.
LEMMA AgentTypesInit == AgentInit => AgentTypes
BY ClockAssumption, CallAssumption DEF AgentInit, AgentTypes, AgentTypeOK

-----------------------------------------------------------------------------
(* An agent's requests: channels.                                          *)

\* Registering, sending, waking, pausing, expiry, answers and Stop, in any order,
\* keep a waiting call registered or give it something to read.
LEMMA CallsStep == CallsInv /\ [AgentNext]_agentVars => CallsInv'
<1> SUFFICES ASSUME CallsInv, [AgentNext]_agentVars PROVE CallsInv'
  OBVIOUS
<1>t. AgentTypes /\ AgentTypes'
  BY Zenon, AgentTypesStep DEF CallsInv
<1>w. AgentTypeOK
  BY Zenon, <1>t DEF AgentTypes
<1> DEFINE Ready(c) == at[c] = "registered" /\ life[CallerOf[c]] = "up" => Id(c) \in pending
           Entry(id) == id = Id(id[1]) /\ Running(id[1])
           Served(c) == at[c] = "waiting" =>
              chan[c] # "empty" \/ (Id(c) \in pending /\ life[CallerOf[c]] # "down")
<1>p. /\ \A c \in Call : Ready(c) /\ Served(c)
      /\ \A id \in pending : Entry(id)
      /\ \A id \in pending : id[1] \in Call
      /\ \A c \in Call : CallerOf[c] \in Peer
  BY Zenon, <1>w, CallAssumption DEF CallsInv, WaitersServed, AgentTypeOK
<1>q. ASSUME \A c \in Call : Ready(c)' /\ Served(c)', \A id \in pending' : Entry(id)' PROVE CallsInv'
  BY Zenon, <1>t, <1>q DEF CallsInv, WaitersServed
<1>f. ASSUME NEW c \in Call, Finish(c), UNCHANGED <<try, life>>,
             \A d \in Call : d # c => chan'[d] = chan[d]
      PROVE  CallsInv'
  <2>1. \A d \in Call : d # c => at'[d] = at[d] /\ (Id(d)' \in pending' <=> Id(d) \in pending)
    BY Zenon, <1>f, <1>w DEF Finish, AgentTypeOK, Id
  <2>2. at'[c] = "returned"
    BY Zenon, <1>f, <1>w DEF Finish, AgentTypeOK
  <2>3. \A id \in pending' : id \in pending /\ id[1] # c
    BY Zenon, <1>f, <1>p DEF Finish, Id
  <2>4. \A d \in Call : Ready(d)' /\ Served(d)'
    BY Zenon, <1>f, <1>p, <2>1, <2>2 DEF Id
  <2>5. \A id \in pending' : Entry(id)'
    BY Zenon, <1>f, <1>p, <2>1, <2>3 DEF Id, Running
  <2> QED
    BY Zenon, <1>q, <2>4, <2>5
<1>1. ASSUME NEW c \in Call, Refuse(c) \/ Expire(c) PROVE CallsInv'
  BY Zenon, <1>1, <1>f DEF Refuse, Expire
<1>2. ASSUME NEW c \in Call, RegisterCall(c) PROVE CallsInv'
  <2>1. \A d \in Call : d # c => chan'[d] = chan[d]
    BY Zenon, <1>2, <1>w DEF RegisterCall, AgentTypeOK
  <2>2. CASE ~IsSend(c) /\ life[CallerOf[c]] # "up"
    BY Zenon, <1>2, <1>f, <2>1, <2>2 DEF RegisterCall
  <2>3. CASE IsSend(c) \/ life[CallerOf[c]] = "up"
    <3>1. /\ at' = [at EXCEPT ![c] = "registered"] /\ pending' = pending \cup {Id(c)}
          /\ UNCHANGED <<try, life>> /\ at[c] = "idle"
      BY Zenon, <1>2, <2>3 DEF RegisterCall
    <3>2. \A d \in Call : (at'[d] = IF d = c THEN "registered" ELSE at[d]) /\ Id(d)' = Id(d)
      BY Zenon, <3>1, <1>w DEF AgentTypeOK, Id
    <3>3. \A d \in Call : Ready(d)' /\ Served(d)'
      BY <1>p, <2>1, <3>1, <3>2
    <3>4. \A id \in pending' : Entry(id)'
      <4>1. Id(c)[1] = c
        BY Zenon DEF Id
      <4> QED
        BY Zenon, <1>p, <3>1, <3>2, <4>1 DEF Running
    <3> QED
      BY Zenon, <1>q, <3>3, <3>4
  <2> QED
    BY Zenon, <2>2, <2>3
<1>3. ASSUME NEW c \in Call, Transmit(c) PROVE CallsInv'
  <2>1. CASE Online(CallerOf[c])
    <3>1. /\ at' = [at EXCEPT ![c] = "waiting"] /\ at[c] = "registered"
          /\ UNCHANGED <<try, life, chan, pending>>
      BY Zenon, <1>3, <2>1 DEF Transmit
    <3>2. \A d \in Call : (at'[d] = IF d = c THEN "waiting" ELSE at[d]) /\ Id(d)' = Id(d)
      BY Zenon, <3>1, <1>w DEF AgentTypeOK, Id
    <3>3. \A d \in Call : Ready(d)' /\ Served(d)'
      BY <1>p, <2>1, <3>1, <3>2 DEF Online
    <3>4. \A id \in pending' : Entry(id)'
      BY Zenon, <1>p, <3>1, <3>2 DEF Running
    <3> QED
      BY Zenon, <1>q, <3>3, <3>4
  <2>2. CASE ~Online(CallerOf[c])
    BY Zenon, <1>3, <1>f, <2>2 DEF Transmit
  <2> QED
    BY Zenon, <2>1, <2>2
<1>4. ASSUME NEW c \in Call, Wake(c) PROVE CallsInv'
  <2>1. CASE chan[c] = "limited" /\ ~IsSend(c)
    <3>1. /\ at' = [at EXCEPT ![c] = "pausing"] /\ pending' = pending \ {Id(c)}
          /\ UNCHANGED <<try, life, chan>>
      BY Zenon, <1>4, <2>1 DEF Wake
    <3>2. \A d \in Call : (at'[d] = IF d = c THEN "pausing" ELSE at[d]) /\ Id(d)' = Id(d)
      BY Zenon, <3>1, <1>w DEF AgentTypeOK, Id
    <3>3. \A d \in Call : d # c => Id(d) # Id(c)
      BY Zenon DEF Id
    <3>4. \A d \in Call : Ready(d)' /\ Served(d)'
      BY <1>p, <3>1, <3>2, <3>3
    <3>5. \A id \in pending' : Entry(id)'
      BY Zenon, <1>p, <3>1, <3>2 DEF Running
    <3> QED
      BY Zenon, <1>q, <3>4, <3>5
  <2>2. CASE ~(chan[c] = "limited" /\ ~IsSend(c))
    BY Zenon, <1>4, <1>f, <2>2 DEF Wake
  <2> QED
    BY Zenon, <2>1, <2>2
<1>5. ASSUME NEW c \in Call, EndPause(c) PROVE CallsInv'
  <2>1. CASE try[c] = MaxAttempts
    BY Zenon, <1>5, <1>f, <2>1 DEF EndPause
  <2>2. CASE try[c] # MaxAttempts
    <3>1. /\ at' = [at EXCEPT ![c] = "idle"] /\ try' = [try EXCEPT ![c] = @ + 1]
          /\ at[c] = "pausing" /\ UNCHANGED <<pending, life, chan>>
      BY Zenon, <1>5, <2>2 DEF EndPause
    <3>2. /\ \A d \in Call : d # c => at'[d] = at[d] /\ Id(d)' = Id(d)
          /\ at'[c] = "idle"
      BY Zenon, <3>1, <1>w DEF AgentTypeOK, Id
    <3>3. \A id \in pending : id[1] # c
      BY Zenon, <1>p, <3>1 DEF Running
    <3>4. \A d \in Call : Ready(d)' /\ Served(d)'
      BY Zenon, <1>p, <3>1, <3>2
    <3>5. \A id \in pending' : Entry(id)'
      BY Zenon, <1>p, <3>1, <3>2, <3>3 DEF Running
    <3> QED
      BY Zenon, <1>q, <3>4, <3>5
  <2> QED
    BY Zenon, <2>1, <2>2
<1>6. ASSUME NEW m \in found, Post(m) PROVE CallsInv'
  <2>1. UNCHANGED <<at, try, pending, life>> /\ \A d \in Call : chan'[d] # "empty" \/ chan'[d] = chan[d]
    <3>1. m.call \in Call /\ m.what # "empty"
      BY Zenon, <1>w DEF AgentTypeOK, Answer
    <3> QED
      BY Zenon, <1>6, <1>w, <3>1 DEF Post, AgentTypeOK
  <2>2. \A d \in Call : Ready(d)' /\ Served(d)'
    BY Zenon, <1>p, <2>1 DEF Id
  <2>3. \A id \in pending' : Entry(id)'
    BY Zenon, <1>p, <2>1 DEF Id, Running
  <2> QED
    BY Zenon, <1>q, <2>2, <2>3
<1>7. ASSUME NEW a \in Peer, StopAgent(a) PROVE CallsInv'
  <2>1. UNCHANGED <<at, try, pending, chan>> /\ \A b \in Peer : life'[b] = IF b = a THEN "stopping" ELSE life[b]
    BY Zenon, <1>7, <1>w DEF StopAgent, AgentTypeOK
  <2>2. \A d \in Call : Ready(d)' /\ Served(d)'
    BY Zenon, <1>p, <2>1 DEF Id
  <2>3. \A id \in pending' : Entry(id)'
    BY Zenon, <1>p, <2>1 DEF Id, Running
  <2> QED
    BY Zenon, <1>q, <2>2, <2>3
<1>8. ASSUME NEW a \in Peer, DrainPendingChannels(a) PROVE CallsInv'
  <2>1. /\ UNCHANGED <<at, try>> /\ \A b \in Peer : life'[b] = IF b = a THEN "down" ELSE life[b]
        /\ pending' = {id \in pending : CallerOf[id[1]] # a}
        /\ \A d \in Call : chan'[d] = IF CallerOf[d] = a /\ Id(d) \in pending /\ chan[d] = "empty"
                                      THEN "nil" ELSE chan[d]
    BY Zenon, <1>8, <1>w DEF DrainPendingChannels, AgentTypeOK
  <2>2. \A d \in Call : Id(d)' = Id(d) /\ Id(d)[1] = d
    BY Zenon, <2>1 DEF Id
  <2>3. \A d \in Call : Ready(d)' /\ Served(d)'
    BY <1>p, <2>1, <2>2
  <2>4. \A id \in pending' : Entry(id)'
    BY <1>p, <2>1, <2>2 DEF Running
  <2> QED
    BY Zenon, <1>q, <2>3, <2>4
<1>9. ASSUME UNCHANGED <<life, at, try, pending, chan>> PROVE CallsInv'
  BY Zenon, <1>9, <1>t DEF CallsInv, WaitersServed, Id, Running
<1>10. ASSUME \/ \E m \in wire : Deliver(m) \/ RelayAnswers(m) \/ Lose(m)
              \/ \E t \in tasks : Handle(t)
              \/ \E a \in Peer : LinkLost(a) \/ CleanupDedup(a)
              \/ AgentTick \/ UNCHANGED agentVars
       PROVE  CallsInv'
  BY Zenon, <1>9, <1>10 DEF Deliver, Receive, RelayAnswers, Lose, Handle, LinkLost, CleanupDedup, AgentTick, agentVars
<1> QED
  BY Zenon, <1>1, <1>2, <1>3, <1>4, <1>5, <1>6, <1>7, <1>8, <1>10 DEF AgentNext

\* No interleaving of Send, answers, expiry and Stop leaves a caller that nothing can
\* wake, or a channel that nobody reads, whatever the number of agents and calls.
THEOREM CallersServed == AgentSpec => []WaitersServed
<1>1. AgentInit => CallsInv
  BY Zenon, AgentTypesInit DEF AgentInit, CallsInv, WaitersServed
<1>2. CallsInv => WaitersServed
  BY Zenon DEF CallsInv
<1> QED
  BY <1>1, <1>2, CallsStep, PTL DEF AgentSpec

-----------------------------------------------------------------------------
(* An agent's requests: repetitions.                                       *)

\* Taking on a request again is at least DedupTTL after the last time, and so after
\* every earlier one.
LEMMA ApartAfterAppend ==
    ASSUME DedupInv, NEW c \in Call, taken' = [taken EXCEPT ![c] = Append(@, now)],
           taken[c] # <<>> => now - LastTaken(c) > DedupTTL
    PROVE  TakenApart'
<1>1. /\ DOMAIN taken = Call /\ now \in Nat /\ DedupTTL \in Nat
      /\ \A d \in Call : taken[d] \in Seq(0 .. MaxTime)
  BY CallAssumption, ClockAssumption DEF DedupInv, AgentTypes, AgentTypeOK
<1>2. SUFFICES ASSUME NEW d \in Call, NEW i \in DOMAIN taken'[d], NEW j \in DOMAIN taken'[d], i < j
               PROVE  taken'[d][j] - taken'[d][i] > DedupTTL
  BY Zenon DEF TakenApart
<1>3. \A x, y \in DOMAIN taken[d] : x < y => taken[d][y] - taken[d][x] > DedupTTL
  BY Zenon DEF DedupInv, TakenApart
<1>4. CASE d # c
  BY Zenon, <1>1, <1>2, <1>3, <1>4
<1>5. CASE d = c
  <2>1. taken'[d] = Append(taken[d], now) /\ taken[d] \in Seq(0 .. MaxTime)
    BY Zenon, <1>1, <1>5
  <2>2. CASE j \in DOMAIN taken[d]
    BY <1>1, <1>2, <1>3, <2>1, <2>2
  <2>3. CASE j \notin DOMAIN taken[d]
    <3>1. /\ j = Len(taken[d]) + 1 /\ taken'[d][j] = now
          /\ i \in 1 .. Len(taken[d]) /\ taken'[d][i] = taken[d][i]
      BY <1>2, <2>1, <2>3
    <3>2. now - taken[d][Len(taken[d])] > DedupTTL
      BY <1>5, <3>1 DEF LastTaken
    <3>3. CASE i = Len(taken[d])
      BY Zenon, <3>1, <3>2, <3>3
    <3>4. CASE i < Len(taken[d])
      <4>1. taken[d][Len(taken[d])] - taken[d][i] > DedupTTL
        BY <1>3, <2>1, <3>1, <3>4
      <4>2. taken[d][i] \in Nat /\ taken[d][Len(taken[d])] \in Nat
        BY <2>1, <3>1, ClockAssumption
      <4> QED
        BY <1>1, <3>1, <3>2, <4>1, <4>2
    <3> QED
      BY <2>1, <3>1, <3>3, <3>4
  <2> QED
    BY Zenon, <2>2, <2>3
<1> QED
  BY Zenon, <1>4, <1>5

\* A delivery is forgotten only when it is older than DedupTTL, and a request that is
\* taken on is remembered with the time.
LEMMA DedupStep == DedupInv /\ [AgentNext]_agentVars => DedupInv'
<1> SUFFICES ASSUME DedupInv, [AgentNext]_agentVars PROVE DedupInv'
  OBVIOUS
<1>t. AgentTypes /\ AgentTypes'
  BY Zenon, AgentTypesStep DEF DedupInv
<1>w. /\ wire \subseteq Request \cup Answer /\ tasks \subseteq Task
      /\ DOMAIN taken = Call /\ DOMAIN seen = Peer
      /\ now \in Nat /\ DedupTTL \in Nat
      /\ \A c \in Call : taken[c] \in Seq(Nat)
  BY <1>t, CallAssumption, ClockAssumption DEF AgentTypes, AgentTypeOK
<1> DEFINE Alike(m) == m.kind = "request" /\ IsSend(m.call) => m = RequestOf(m.call)
           Taken(c) == taken[c] # <<>> => IsSend(c) /\ LastTaken(c) <= now /\ Recalled(c)
<1>p. (\A m \in wire : Alike(m)) /\ (\A c \in Call : Taken(c)) /\ TakenApart
  BY Zenon DEF DedupInv
<1>q. ASSUME \A m \in wire' : Alike(m), \A c \in Call : Taken(c)', TakenApart' PROVE DedupInv'
  BY Zenon, <1>t, <1>q DEF DedupInv
<1>u. ASSUME UNCHANGED <<now, seen, taken>>, \A m \in wire' : Alike(m) PROVE DedupInv'
  <2>1. TakenApart'
    BY Zenon, <1>p, <1>u DEF TakenApart
  <2>2. \A c \in Call : Taken(c)'
    BY Zenon, <1>p, <1>u DEF LastTaken, Recalled
  <2> QED
    BY Zenon, <1>q, <1>u, <2>1, <2>2
<1>1. ASSUME NEW c \in Call, Transmit(c) PROVE DedupInv'
  <2>1. \A m \in wire' : m \in wire \/
           m = [kind |-> "request", call |-> c, n |-> IF IsSend(c) THEN 0 ELSE try[c]]
    BY Zenon, <1>1 DEF Transmit
  <2>2. \A m \in wire' : Alike(m)
    BY <1>p, <2>1 DEF RequestOf
  <2> QED
    BY Zenon, <1>1, <1>u, <2>2 DEF Transmit
<1>2. ASSUME NEW m \in wire, RelayAnswers(m) PROVE DedupInv'
  <2>1. \A x \in wire' : x \in wire \/ x.kind = "answer"
    BY <1>2 DEF RelayAnswers
  <2> QED
    BY Zenon, <1>2, <1>p, <1>u, <2>1 DEF RelayAnswers
<1>3. ASSUME NEW t \in tasks, Handle(t) PROVE DedupInv'
  <2>1. \A x \in wire' : x \in wire \/ x.kind = "answer"
    <3>1. \/ wire' = wire
          \/ wire' = wire \cup {[kind |-> "answer", call |-> t.call, n |-> t.n, what |-> t.what]}
      BY Zenon, <1>3 DEF Handle, Verify, ResolvePeer, ResolveCanceled, Decrypt, Execute, Reply
    <3> QED
      BY <3>1
  <2> QED
    BY Zenon, <1>3, <1>p, <1>u, <2>1 DEF Handle
<1>4. ASSUME NEW m \in wire, Deliver(m) PROVE DedupInv'
  <2>1. UNCHANGED now /\ \A x \in wire' : Alike(x)
    BY Zenon, <1>4, <1>p DEF Deliver, Receive
  <2>2. CASE Duplicate(m)
    BY Zenon, <1>u, <2>1, <2>2 DEF Duplicate
  <2>3. CASE TakeRequest(m)
    <3>1. m.call \in Call /\ CalleeOf[m.call] \in Peer /\ m = RequestOf(m.call)
      BY Zenon, <1>4, <1>p, <1>w, <2>3 DEF Deliver, TakeRequest, Goal, IsSend, Request, Answer
    <3>2. /\ taken' = [taken EXCEPT ![m.call] = Append(@, now)]
          /\ RequestOf(m.call) \notin DOMAIN seen[CalleeOf[m.call]]
          /\ \A a \in Peer : a # CalleeOf[m.call] => seen'[a] = seen[a]
          /\ DOMAIN seen'[CalleeOf[m.call]] = DOMAIN seen[CalleeOf[m.call]] \cup {m}
          /\ \A x \in DOMAIN seen[CalleeOf[m.call]] \cup {m} :
                seen'[CalleeOf[m.call]][x] = IF x = m THEN now ELSE seen[CalleeOf[m.call]][x]
      BY Zenon, <1>w, <2>3, <3>1 DEF TakeRequest, Remember, Goal, RequestOf
    <3>3. TakenApart'
      BY Zenon, <1>p, <3>1, <3>2, ApartAfterAppend DEF Recalled
    <3>4. Taken(m.call)'
      <4>1. taken'[m.call] = Append(taken[m.call], now) /\ LastTaken(m.call)' = now
        BY <1>w, <3>1, <3>2 DEF LastTaken
      <4>2. Recalled(m.call)'
        BY Zenon, <3>1, <3>2, <4>1 DEF Recalled
      <4> QED
        BY <1>w, <2>1, <3>1, <4>1, <4>2 DEF IsSend
    <3>5. ASSUME NEW c \in Call, c # m.call PROVE Taken(c)'
      <4>1. taken'[c] = taken[c] /\ LastTaken(c)' = LastTaken(c)
        BY Zenon, <1>w, <3>2, <3>5 DEF LastTaken
      <4>2. RequestOf(c) # m
        BY <3>1, <3>5 DEF RequestOf
      <4>3. Recalled(c) /\ IsSend(c) => Recalled(c)'
        BY Zenon, <2>1, <3>2, <4>1, <4>2 DEF Recalled, IsSend
      <4> QED
        BY Zenon, <1>p, <2>1, <4>1, <4>3
    <3> QED
      BY Zenon, <1>q, <2>1, <3>3, <3>4, <3>5
  <2>4. CASE TakeAnswer(m)
    <3>1. m.kind = "answer" /\ UNCHANGED taken
      BY Zenon, <2>4 DEF TakeAnswer
    <3>2. \A c \in Call : RequestOf(c) # m
      BY <3>1 DEF RequestOf
    <3>3. ASSUME NEW a \in Peer, NEW x \in DOMAIN seen[a], x # m
          PROVE  x \in DOMAIN seen'[a] /\ seen'[a][x] = seen[a][x]
      <4>1. CASE HasID(m)
        BY <1>w, <2>4, <3>3, <4>1 DEF TakeAnswer, Remember
      <4>2. CASE ~HasID(m)
        BY Zenon, <2>4, <4>2 DEF TakeAnswer
      <4> QED
        BY Zenon, <4>1, <4>2
    <3>4. ASSUME NEW c \in Call PROVE Taken(c)'
      <4>1. LastTaken(c)' = LastTaken(c)
        BY Zenon, <3>1 DEF LastTaken
      <4>2. Recalled(c) /\ IsSend(c) => Recalled(c)'
        BY Zenon, <2>1, <3>2, <3>3, <4>1 DEF Recalled, IsSend
      <4> QED
        BY Zenon, <1>p, <2>1, <3>1, <4>1, <4>2
    <3>5. TakenApart'
      BY Zenon, <1>p, <3>1 DEF TakenApart
    <3> QED
      BY Zenon, <1>q, <2>1, <3>4, <3>5
  <2> QED
    BY Zenon, <1>4, <2>2, <2>3, <2>4 DEF Deliver
<1>5. ASSUME NEW a \in Peer, CleanupDedup(a) PROVE DedupInv'
  <2>1. /\ UNCHANGED <<now, taken, wire>>
        /\ \A b \in Peer : b # a => seen'[b] = seen[b]
        /\ DOMAIN seen'[a] = {x \in DOMAIN seen[a] : now - seen[a][x] <= DedupTTL}
        /\ \A x \in DOMAIN seen'[a] : seen'[a][x] = seen[a][x]
    BY Zenon, <1>5, <1>w DEF CleanupDedup
  <2>2. ASSUME NEW c \in Call PROVE Taken(c)'
    <3>1. LastTaken(c)' = LastTaken(c)
      BY Zenon, <2>1 DEF LastTaken
    <3>2. taken[c] # <<>> => LastTaken(c) \in Nat
      BY <1>w DEF LastTaken
    <3>3. taken[c] # <<>> => now - LastTaken(c) > DedupTTL \/ now - LastTaken(c) <= DedupTTL
      BY <1>w, <3>2
    <3>4. taken[c] # <<>> /\ Recalled(c) /\ IsSend(c) => Recalled(c)'
      BY Zenon, <2>1, <3>1, <3>3 DEF Recalled, IsSend
    <3> QED
      BY Zenon, <1>p, <2>1, <3>1, <3>4
  <2>3. TakenApart'
    BY Zenon, <1>p, <2>1 DEF TakenApart
  <2> QED
    BY Zenon, <1>p, <1>q, <2>1, <2>2, <2>3
<1>6. ASSUME AgentTick PROVE DedupInv'
  <2>1. now' = now + 1 /\ UNCHANGED <<taken, seen, wire>>
    BY Zenon, <1>6 DEF AgentTick, Advance
  <2>2. ASSUME NEW c \in Call PROVE Taken(c)'
    <3>1. taken[c] # <<>> => LastTaken(c) \in Nat
      BY <1>w DEF LastTaken
    <3>2. LastTaken(c)' = LastTaken(c)
      BY Zenon, <2>1 DEF LastTaken
    <3>3. taken[c] # <<>> => /\ LastTaken(c) <= now => LastTaken(c) <= now'
                             /\ now - LastTaken(c) > DedupTTL => now' - LastTaken(c) > DedupTTL
      BY <1>w, <2>1, <3>1
    <3>4. taken[c] # <<>> /\ Recalled(c) => Recalled(c)'
      BY Zenon, <2>1, <3>2, <3>3 DEF Recalled
    <3> QED
      BY Zenon, <1>p, <2>1, <3>2, <3>3, <3>4
  <2>3. TakenApart'
    BY Zenon, <1>p, <2>1 DEF TakenApart
  <2> QED
    BY Zenon, <1>p, <1>q, <2>1, <2>2, <2>3
<1>7. ASSUME UNCHANGED <<now, seen, taken>>, wire' \subseteq wire PROVE DedupInv'
  BY Zenon, <1>p, <1>u, <1>7
<1>8. ASSUME \/ \E c \in Call : Refuse(c) \/ RegisterCall(c) \/ Wake(c) \/ EndPause(c) \/ Expire(c)
             \/ \E m \in wire : Lose(m)
             \/ \E m \in found : Post(m)
             \/ \E a \in Peer : LinkLost(a) \/ StopAgent(a) \/ DrainPendingChannels(a)
             \/ UNCHANGED agentVars
      PROVE  DedupInv'
  BY Zenon, <1>7, <1>8 DEF Refuse, RegisterCall, Wake, EndPause, Expire, Lose, Post, LinkLost, StopAgent,
     DrainPendingChannels, agentVars
<1> QED
  BY Zenon, <1>1, <1>2, <1>3, <1>4, <1>5, <1>6, <1>8 DEF AgentNext

\* However often and however late the network repeats a request, an agent takes it on
\* again only after the time for which isDuplicateMessage promises to remember it.
THEOREM RequestsTakenApart == AgentSpec => []TakenApart
<1>1. AgentInit => DedupInv
  BY AgentTypesInit DEF AgentInit, DedupInv, TakenApart
<1>2. DedupInv => TakenApart
  BY Zenon DEF DedupInv
<1> QED
  BY <1>1, <1>2, DedupStep, PTL DEF AgentSpec

-----------------------------------------------------------------------------
(* An agent's connections.                                                 *)

LinkSpec == LinkInit /\ [][LinkNext]_linkVars

\* A connection is in the channel, once, or it is not; this holds at any time.
ChannelExact ==
    /\ \A l \in Link : place[l] = "channel" <=> \E i \in DOMAIN connCh : connCh[i] = l
    /\ \A i, j \in DOMAIN connCh : connCh[i] = connCh[j] => i = j

\* As long as neither the agent nor its context has ended.
PeersHeld ==
    /\ listening
    /\ \A l \in Link : link[l] = "open" /\ place[l] = "peer" =>
          reading[l] # "no" /\ (l \in peers \/ (l \in Outbound /\ peers \cap Outbound # {}))
    /\ \A l \in Link : link[l] = "open" => place[l] # "lost"

LinksInv ==
    /\ LinkTypeOK
    /\ ChannelExact
    /\ \A l \in Link : link[l] = "none" => place[l] = "none"
    /\ \A l \in Link : place[l] = "caller" => l \in Outbound
    /\ \A l \in Outbound : link[l] = "open" => l \in pinging
    /\ ~CtxDone => PeersHeld

\* The loops and Stop take a connection only from one state to another that their code
\* names, and connCh holds no more than its capacity.
LEMMA LinkTypesStep == LinkTypeOK /\ [LinkNext]_linkVars => LinkTypeOK'
<1> SUFFICES ASSUME LinkTypeOK, [LinkNext]_linkVars PROVE LinkTypeOK'
  OBVIOUS
<1> USE DEF LinkTypeOK
<1>1. ASSUME NEW l \in Link, Upgrade(l) \/ MessageArrives(l) \/ PingEnds(l) \/ PeerLeaves(l)
      PROVE  LinkTypeOK'
  BY Zenon, <1>1 DEF Upgrade, MessageArrives, PingEnds, PeerLeaves
<1>2. ASSUME NEW l \in Link, HandOver(l) PROVE LinkTypeOK'
  <2>1. connCh' \in Seq(Link) /\ Len(connCh') <= ConnBuffer
    BY <1>2, LinksAssumption DEF HandOver
  <2>2. /\ link' \in [Link -> {"none", "open", "closed"}]
        /\ place' \in [Link -> {"none", "handler", "channel", "loop", "caller", "peer", "lost"}]
    BY Zenon, <1>2 DEF HandOver
  <2> QED
    BY Zenon, <1>2, <2>1, <2>2 DEF HandOver
<1>3. ASSUME NEW l \in Link, Dial(l) PROVE LinkTypeOK'
  BY Zenon, <1>3 DEF Dial, Fresh
<1>4. ASSUME NEW l \in Link, AddDialed(l) PROVE LinkTypeOK'
  BY Zenon, <1>4 DEF AddDialed, StartPeer
<1>5. ASSUME NEW l \in Link, ReceiveLoop(l) PROVE LinkTypeOK'
  BY Zenon, <1>5 DEF ReceiveLoop, ReceiveEnds
<1>6. ASSUME LoopTop \/ Accept PROVE LinkTypeOK'
  BY Zenon, <1>6 DEF LoopTop, Accept
<1>7. ASSUME AcceptReturns PROVE LinkTypeOK'
  <2>1. connCh # <<>> => Tail(connCh) \in Seq(Link) /\ Len(Tail(connCh)) = Len(connCh) - 1
    OBVIOUS
  <2>2. connCh' \in Seq(Link) /\ Len(connCh') <= ConnBuffer
    <3>1. connCh' = connCh \/ (connCh # <<>> /\ connCh' = Tail(connCh))
      BY Zenon, <1>7 DEF AcceptReturns
    <3>2. Len(connCh) \in Nat /\ ConnBuffer \in Nat
      BY LinksAssumption
    <3> HIDE DEF LinkTypeOK
    <3> QED
      BY <2>1, <3>1, <3>2 DEF LinkTypeOK
  <2>3. place' \in [Link -> {"none", "handler", "channel", "loop", "caller", "peer", "lost"}]
    BY Zenon, <1>7 DEF AcceptReturns
  <2> QED
    BY Zenon, <1>7, <2>2, <2>3 DEF AcceptReturns
<1>8. ASSUME AddAccepted PROVE LinkTypeOK'
  BY Zenon, <1>8 DEF AddAccepted, StartPeer
<1>9. ASSUME ContextEnds \/ StopCancels \/ CloseListener \/ ClosePeers PROVE LinkTypeOK'
  BY Zenon, <1>9 DEF ContextEnds, StopCancels, CloseListener, ClosePeers
<1>10. ASSUME UNCHANGED linkVars PROVE LinkTypeOK'
  BY Zenon, <1>10 DEF linkVars
<1> QED
  BY Zenon, <1>1, <1>2, <1>3, <1>4, <1>5, <1>6, <1>7, <1>8, <1>9, <1>10 DEF LinkNext

\* The handler of the listener puts a connection into the channel once, and Accept
\* takes out the one at its head.
LEMMA ChannelStep == LinksInv /\ [LinkNext]_linkVars => ChannelExact'
<1> SUFFICES ASSUME LinksInv, [LinkNext]_linkVars PROVE ChannelExact'
  OBVIOUS
<1>t. LinkTypeOK /\ ChannelExact /\ \A l \in Link : link[l] = "none" => place[l] = "none"
  BY Zenon DEF LinksInv
<1>s. place \in [Link -> {"none", "handler", "channel", "loop", "caller", "peer", "lost"}]
      /\ connCh \in Seq(Link)
  BY Zenon, <1>t DEF LinkTypeOK
<1>1. ASSUME UNCHANGED connCh, \A l \in Link : place'[l] = "channel" <=> place[l] = "channel"
      PROVE  ChannelExact'
  BY Zenon, <1>t, <1>1 DEF ChannelExact
<1>2. ASSUME NEW l \in Link, NEW p \in {"handler", "caller", "peer", "lost"}, UNCHANGED connCh,
             place[l] # "channel", place' = [place EXCEPT ![l] = p]
      PROVE  ChannelExact'
  BY Zenon, <1>s, <1>1, <1>2
<1>3. ASSUME NEW l \in Link, HandOver(l) PROVE ChannelExact'
  <2>1. CASE connCh' = Append(connCh, l) /\ place' = [place EXCEPT ![l] = "channel"]
    <3>1. /\ DOMAIN connCh' = 1 .. Len(connCh) + 1 /\ DOMAIN connCh = 1 .. Len(connCh)
          /\ connCh'[Len(connCh) + 1] = l
          /\ \A i \in 1 .. Len(connCh) : connCh'[i] = connCh[i]
      BY <1>s, <2>1
    <3>2. \A i \in DOMAIN connCh : connCh[i] # l
      BY Zenon, <1>t, <1>3 DEF ChannelExact, HandOver
    <3>3. \A k \in Link : place'[k] = "channel" <=> \E i \in DOMAIN connCh' : connCh'[i] = k
      BY <1>s, <1>t, <2>1, <3>1 DEF ChannelExact
    <3>4. \A i, j \in DOMAIN connCh' : connCh'[i] = connCh'[j] => i = j
      BY <1>t, <3>1, <3>2 DEF ChannelExact
    <3> QED
      BY Zenon, <3>3, <3>4 DEF ChannelExact
  <2>2. CASE UNCHANGED connCh /\ place' = [place EXCEPT ![l] = "lost"]
    BY Zenon, <1>2, <1>3, <2>2 DEF HandOver
  <2> QED
    BY Zenon, <1>3, <2>1, <2>2 DEF HandOver
<1>4. ASSUME AcceptReturns PROVE ChannelExact'
  <2>1. CASE connCh # <<>> /\ place' = [place EXCEPT ![Head(connCh)] = "loop"] /\ connCh' = Tail(connCh)
    <3>1. /\ DOMAIN connCh = 1 .. Len(connCh) /\ Len(connCh) \in Nat \ {0}
          /\ DOMAIN connCh' = 1 .. Len(connCh) - 1
          /\ \A i \in 1 .. Len(connCh) - 1 : connCh'[i] = connCh[i + 1]
          /\ Head(connCh) = connCh[1] /\ Head(connCh) \in Link
      BY <1>s, <2>1
    <3>2. \A i, j \in DOMAIN connCh : connCh[i] = connCh[j] => i = j
      BY Zenon, <1>t DEF ChannelExact
    <3>3. \A i, j \in DOMAIN connCh' : connCh'[i] = connCh'[j] => i = j
      BY <3>1, <3>2
    <3>4. ASSUME NEW k \in Link PROVE (\E i \in DOMAIN connCh' : connCh'[i] = k)
                                      <=> k # Head(connCh) /\ \E i \in DOMAIN connCh : connCh[i] = k
      <4>1. ASSUME NEW i \in DOMAIN connCh', connCh'[i] = k
            PROVE  k # Head(connCh) /\ \E j \in DOMAIN connCh : connCh[j] = k
        <5>1. i + 1 \in DOMAIN connCh /\ connCh[i + 1] = k /\ i + 1 # 1 /\ 1 \in DOMAIN connCh
          BY <3>1, <4>1
        <5> QED
          BY Zenon, <3>1, <3>2, <5>1
      <4>2. ASSUME NEW i \in DOMAIN connCh, connCh[i] = k, k # Head(connCh)
            PROVE  \E j \in DOMAIN connCh' : connCh'[j] = k
        <5>1. i - 1 \in DOMAIN connCh' /\ connCh'[i - 1] = k
          BY <3>1, <4>2
        <5> QED
          BY Zenon, <5>1
      <4> QED
        BY Zenon, <4>1, <4>2
    <3>5. \A k \in Link : place'[k] = "channel" <=> place[k] = "channel" /\ k # Head(connCh)
      BY Zenon, <1>s, <2>1, <3>1
    <3> QED
      BY Zenon, <1>t, <3>3, <3>4, <3>5 DEF ChannelExact
  <2>2. CASE UNCHANGED <<place, connCh>>
    BY Zenon, <1>1, <2>2
  <2> QED
    BY Zenon, <1>4, <2>1, <2>2 DEF AcceptReturns
<1>5. ASSUME NEW l \in Link, Upgrade(l) \/ Dial(l) \/ AddDialed(l) PROVE ChannelExact'
  BY Zenon, <1>t, <1>2, <1>5 DEF Upgrade, Dial, AddDialed, StartPeer, Fresh
<1>6. ASSUME AddAccepted PROVE ChannelExact'
  BY Zenon, <1>2, <1>6 DEF AddAccepted, StartPeer
<1>7. ASSUME \/ \E l \in Link : ReceiveLoop(l) \/ MessageArrives(l) \/ PingEnds(l) \/ PeerLeaves(l)
             \/ LoopTop \/ Accept \/ ContextEnds \/ StopCancels \/ CloseListener \/ ClosePeers
             \/ UNCHANGED linkVars
      PROVE  ChannelExact'
  BY Zenon, <1>1, <1>7 DEF ReceiveLoop, MessageArrives, PingEnds, PeerLeaves, LoopTop, Accept, ContextEnds,
     StopCancels, CloseListener, ClosePeers, linkVars
<1> QED
  BY Zenon, <1>3, <1>4, <1>5, <1>6, <1>7 DEF LinkNext

\* A connection that is open is in somebody's hands, or read from and in the peers
\* map, as long as the agent runs: PeersHeld after a step.
LEMMA PeersStep == LinksInv /\ [LinkNext]_linkVars /\ ~CtxDone' => PeersHeld'
<1> SUFFICES ASSUME LinksInv, [LinkNext]_linkVars, ~CtxDone' PROVE PeersHeld'
  OBVIOUS
<1>t. /\ link \in [Link -> {"none", "open", "closed"}]
      /\ place \in [Link -> {"none", "handler", "channel", "loop", "caller", "peer", "lost"}]
      /\ reading \in [Link -> {"no", "check", "read"}]
      /\ peers \subseteq Link
      /\ \A l \in Link : link[l] = "none" => place[l] = "none"
      /\ \A l \in Link : place[l] = "caller" => l \in Outbound
  BY Zenon DEF LinksInv, LinkTypeOK
<1>c. ~CtxDone
  BY Zenon DEF LinkNext, linkVars, CtxDone, Upgrade, HandOver, Dial, AddDialed, ReceiveLoop, MessageArrives,
     PingEnds, PeerLeaves, LoopTop, Accept, AcceptReturns, AddAccepted, ContextEnds, StopCancels,
     CloseListener, ClosePeers
<1>p. PeersHeld /\ listening /\ ~ended /\ stop = "no"
  BY Zenon, <1>c DEF LinksInv, PeersHeld, CtxDone
<1>1. ASSUME NEW l \in Link, Upgrade(l) \/ Dial(l) PROVE PeersHeld'
  BY Zenon, <1>t, <1>p, <1>1 DEF Upgrade, Dial, Fresh, PeersHeld
<1>2. ASSUME NEW l \in Link, HandOver(l) PROVE PeersHeld'
  BY Zenon, <1>t, <1>p, <1>2 DEF HandOver, PeersHeld
<1>3. ASSUME NEW l \in Link, AddDialed(l) PROVE PeersHeld'
  BY Zenon, <1>t, <1>p, <1>3 DEF AddDialed, StartPeer, PeersHeld
<1>4. ASSUME NEW l \in Link, ReceiveLoop(l) PROVE PeersHeld'
  <2>1. CASE reading' = [reading EXCEPT ![l] = "read"] /\ UNCHANGED <<peers, link, place, listening>>
    BY Zenon, <1>t, <1>p, <2>1 DEF PeersHeld
  <2>2. CASE /\ link' = [link EXCEPT ![l] = "closed"] /\ reading' = [reading EXCEPT ![l] = "no"]
             /\ peers' = peers \ ({l} \cap Inbound) /\ UNCHANGED <<place, listening>>
    <3>1. \A k \in Link : k # l => link'[k] = link[k] /\ reading'[k] = reading[k] /\ (k \in peers' <=> k \in peers)
      BY Zenon, <1>t, <2>2
    <3>2. peers' \cap Outbound = peers \cap Outbound
      <4>1. Inbound \cap Outbound = {}
        BY LinksAssumption DEF Inbound, Outbound
      <4> QED
        BY Zenon, <2>2, <4>1
    <3>3. link'[l] = "closed"
      BY Zenon, <1>t, <2>2
    <3> QED
      BY Zenon, <1>p, <2>2, <3>1, <3>2, <3>3 DEF PeersHeld
  <2> QED
    BY Zenon, <1>4, <1>c, <2>1, <2>2 DEF ReceiveLoop, ReceiveEnds
<1>5. ASSUME NEW l \in Link, MessageArrives(l) \/ PeerLeaves(l) PROVE PeersHeld'
  BY Zenon, <1>t, <1>p, <1>5 DEF MessageArrives, PeerLeaves, PeersHeld
<1>6. ASSUME AcceptReturns PROVE PeersHeld'
  BY Zenon, <1>t, <1>p, <1>6 DEF AcceptReturns, PeersHeld
<1>7. ASSUME AddAccepted PROVE PeersHeld'
  BY Zenon, <1>t, <1>p, <1>7 DEF AddAccepted, StartPeer, PeersHeld
<1>8. ASSUME \/ \E l \in Link : PingEnds(l)
             \/ LoopTop \/ Accept \/ UNCHANGED linkVars
      PROVE  PeersHeld'
  BY Zenon, <1>p, <1>8 DEF PingEnds, LoopTop, Accept, linkVars, PeersHeld
<1>9. ASSUME ContextEnds \/ StopCancels \/ CloseListener \/ ClosePeers PROVE PeersHeld'
  BY Zenon, <1>9, <1>p DEF ContextEnds, StopCancels, CloseListener, ClosePeers, CtxDone
<1> QED
  BY Zenon, <1>1, <1>2, <1>3, <1>4, <1>5, <1>6, <1>7, <1>8, <1>9 DEF LinkNext

\* The invariant of the connections after a step.
LEMMA LinksStep == LinksInv /\ [LinkNext]_linkVars => LinksInv'
<1> SUFFICES ASSUME LinksInv, [LinkNext]_linkVars PROVE LinksInv'
  OBVIOUS
<1>t. /\ link \in [Link -> {"none", "open", "closed"}]
      /\ place \in [Link -> {"none", "handler", "channel", "loop", "caller", "peer", "lost"}]
      /\ connCh \in Seq(Link) /\ pinging \subseteq Outbound
      /\ \A l \in Link : link[l] = "none" => place[l] = "none"
      /\ \A l \in Link : place[l] = "caller" => l \in Outbound
      /\ \A l \in Outbound : link[l] = "open" => l \in pinging
      /\ ChannelExact
  BY Zenon DEF LinksInv, LinkTypeOK
<1> DEFINE Known == \A l \in Link : link[l] = "none" => place[l] = "none"
           Dialed == \A l \in Link : place[l] = "caller" => l \in Outbound
           Pinged == \A l \in Outbound : link[l] = "open" => l \in pinging
<1>o. Inbound \cap Outbound = {} /\ Outbound \subseteq Link
  BY LinksAssumption DEF Inbound, Outbound, Link
<1>1. ASSUME NEW l \in Link, Upgrade(l) \/ Dial(l) PROVE Known' /\ Dialed' /\ Pinged'
  BY Zenon, <1>t, <1>o, <1>1 DEF Upgrade, Dial, Fresh
<1>2. ASSUME NEW l \in Link, HandOver(l) PROVE Known' /\ Dialed' /\ Pinged'
  BY Zenon, <1>t, <1>o, <1>2 DEF HandOver
<1>3. ASSUME NEW l \in Link, AddDialed(l) PROVE Known' /\ Dialed' /\ Pinged'
  BY Zenon, <1>t, <1>3 DEF AddDialed, StartPeer
<1>4. ASSUME NEW l \in Link, ReceiveLoop(l) \/ PeerLeaves(l) PROVE Known' /\ Dialed' /\ Pinged'
  <2>1. UNCHANGED <<place, pinging>> /\ (link' = link \/ link' = [link EXCEPT ![l] = "closed"])
    BY Zenon, <1>4 DEF ReceiveLoop, PeerLeaves
  <2> QED
    BY Zenon, <1>t, <1>o, <2>1
<1>5. ASSUME NEW l \in Link, PingEnds(l) PROVE Known' /\ Dialed' /\ Pinged'
  BY Zenon, <1>t, <1>5 DEF PingEnds
<1>6. ASSUME AcceptReturns PROVE Known' /\ Dialed' /\ Pinged'
  <2>1. ASSUME connCh # <<>> PROVE Head(connCh) \in Link /\ place[Head(connCh)] = "channel"
    BY <1>t, <2>1 DEF ChannelExact
  <2>2. UNCHANGED <<link, pinging>> /\ (place' = place \/ (connCh # <<>> /\ place' = [place EXCEPT ![Head(connCh)] = "loop"]))
    BY Zenon, <1>6 DEF AcceptReturns
  <2> QED
    BY Zenon, <1>t, <2>1, <2>2
<1>7. ASSUME AddAccepted PROVE Known' /\ Dialed' /\ Pinged'
  BY Zenon, <1>t, <1>7 DEF AddAccepted, StartPeer
<1>8. ASSUME ClosePeers PROVE Known' /\ Dialed' /\ Pinged'
  BY Zenon, <1>t, <1>o, <1>8 DEF ClosePeers
<1>9. ASSUME \/ \E l \in Link : MessageArrives(l)
             \/ LoopTop \/ Accept \/ ContextEnds \/ StopCancels \/ CloseListener
             \/ UNCHANGED linkVars
      PROVE  Known' /\ Dialed' /\ Pinged'
  BY Zenon, <1>t, <1>9 DEF MessageArrives, LoopTop, Accept, ContextEnds, StopCancels, CloseListener, linkVars
<1>10. Known' /\ Dialed' /\ Pinged'
  BY Zenon, <1>1, <1>2, <1>3, <1>4, <1>5, <1>6, <1>7, <1>8, <1>9 DEF LinkNext
<1>11. LinkTypeOK'
  BY Zenon, LinkTypesStep DEF LinksInv
<1> QED
  BY Zenon, <1>10, <1>11, ChannelStep, PeersStep DEF LinksInv

\* Until the agent stops or its context ends it loses sight of no connection, however
\* many come in and are dialled, and whatever the capacity of connCh.
THEOREM ConnectionsHeld == LinkSpec => []LinksHeld
<1>1. LinkInit => LinksInv
  <2> SUFFICES ASSUME LinkInit PROVE LinksInv
    OBVIOUS
  <2>1. Outbound \subseteq Link /\ ConnBuffer \in Nat
    BY Zenon, LinksAssumption DEF Link
  <2>2. LinkTypeOK
    <3>1. <<>> \in Seq(Link) /\ Len(<<>>) = 0
      OBVIOUS
    <3>2. connCh \in Seq(Link) /\ Len(connCh) <= ConnBuffer
      BY <2>1, <3>1 DEF LinkInit
    <3> QED
      BY Zenon, <3>2 DEF LinkInit, LinkTypeOK
  <2>3. ChannelExact /\ PeersHeld
    BY DEF LinkInit, ChannelExact, PeersHeld
  <2> QED
    BY Zenon, <2>1, <2>2, <2>3 DEF LinkInit, LinksInv
<1>2. LinksInv => LinksHeld
  BY Zenon DEF LinksInv, ChannelExact, PeersHeld, LinksHeld
<1> QED
  BY <1>1, <1>2, LinksStep, PTL DEF LinkSpec

-----------------------------------------------------------------------------
(* The audit log.                                                          *)

Ident(n) == [i \in 1 .. n |-> i]
Numbers(rows) == {e.n : e \in rows}

\* The numbers of rows that have been lost: at most one, and not the last.
Losses == IF damaged THEN {{d} : d \in 1 .. recorded - 1} ELSE {{}}

Numbered(rows, lost) ==
    /\ \A e \in rows : e.n \in Nat /\ e.ts \in Nat
    /\ \A e, f \in rows : e.n = f.n => e = f
    /\ Numbers(rows) = (1 .. recorded) \ lost

\* Every hash covers the events of all the rows up to its own, lost ones included.
Covering(rows) == \A e \in rows : e.hash = Ident(e.n)

\* The order of timestamps is that of the rows, and a recording that nothing has
\* overtaken has the latest timestamp and the latest hash.
InTime ==
    /\ Covering(log)
    /\ \A e, f \in log : e.n < f.n => e.ts <= f.ts
    /\ \A w \in Recorder : rec[w].at # "out" /\ rec[w].seen = recorded =>
          /\ \A e \in log : e.ts <= rec[w].ts
          /\ rec[w].at = "insert" => rec[w].prev = Ident(recorded)

RecTypes ==
    /\ recorded \in Nat /\ second \in Nat
    /\ DOMAIN rec = Recorder
    /\ \A w \in Recorder :
          /\ rec[w].at \in {"out", "read", "insert"} /\ rec[w].ts \in Nat /\ rec[w].seen \in Nat
          /\ rec[w].ts <= second /\ rec[w].seen <= recorded

RowsInv ==
    ~purged =>
        /\ \E lost \in Losses : Numbered(log, lost) /\ Numbered(pgLog, lost)
        /\ Covering(pgLog)
        /\ \A e \in log : e.ts <= second
        /\ ~overlapped /\ ~unread => InTime

ChainInv == RecTypes /\ RowsInv

-----------------------------------------------------------------------------
\* A hash follows another one exactly when its row comes next.
LEMMA HashFollows ==
    \A k, m \in Nat : auditHash(Ident(k), m) = Ident(m) <=> m = k + 1
<1> SUFFICES ASSUME NEW k \in Nat, NEW m \in Nat
             PROVE  auditHash(Ident(k), m) = Ident(m) <=> m = k + 1
  OBVIOUS
<1>1. Ident(k) \in Seq(Nat) /\ Len(Ident(k)) = k /\ Ident(m) \in Seq(Nat) /\ Len(Ident(m)) = m
  BY DEF Ident
<1>2. ASSUME auditHash(Ident(k), m) = Ident(m) PROVE m = k + 1
  BY <1>1, <1>2 DEF auditHash
<1>3. ASSUME m = k + 1 PROVE auditHash(Ident(k), m) = Ident(m)
  BY <1>1, <1>3 DEF auditHash, Ident
<1> QED BY Zenon, <1>2, <1>3

\* Before orders rows as their numbers do.
ByNumber(rows, column) == \A e, f \in rows : Before(column, e, f) <=> e.n < f.n

\* The last row is the one with the highest number.
LEMMA LastIs ==
    ASSUME NEW rows, NEW column, ByNumber(rows, column), \A e \in rows : e.n \in Nat,
           NEW e \in rows, \A f \in rows \ {e} : f.n < e.n
    PROVE  LastHash(rows, column) = e.hash
<1> DEFINE IsLast(c) == \A f \in rows \ {c} : Before(column, f, c)
           c == CHOOSE c \in rows : IsLast(c)
<1>1. IsLast(e)
  BY Zenon DEF ByNumber
<1>2. c \in rows /\ IsLast(c)
  BY Zenon, <1>1
<1>3. c = e
  <2>1. ASSUME c # e PROVE FALSE
    <3>1. Before(column, e, c)
      BY Zenon, <1>2, <2>1
    <3>2. e.n < c.n /\ c.n < e.n /\ e.n \in Nat /\ c.n \in Nat
      BY Zenon, <1>2, <2>1, <3>1 DEF ByNumber
    <3> QED BY <3>2
  <2> QED BY Zenon, <2>1
<1> QED BY Zenon, <1>3 DEF LastHash

\* What VerifyAuditChain takes for the hash before a row.
LEMMA HashBefore ==
    ASSUME NEW rows, NEW column, ByNumber(rows, column), Covering(rows), \A f \in rows : f.n \in Nat,
           NEW e \in rows, NEW k \in Nat, k < e.n, k = 0 \/ k \in Numbers(rows),
           \A f \in rows : f.n < e.n => f.n <= k /\ 0 < f.n,
           \A f, g \in rows : f.n = g.n => f = g
    PROVE  LastHash({f \in rows : Before(column, f, e)}, column) = Ident(k)
<1> DEFINE pre == {f \in rows : Before(column, f, e)}
<1>1. pre = {f \in rows : f.n < e.n}
  BY Zenon DEF ByNumber
<1>2. ByNumber(pre, column) /\ \A f \in pre : f \in rows /\ f.n \in Nat
  BY Zenon DEF ByNumber
<1> HIDE DEF pre
<1>3. CASE k = 0
  <2>1. \A f \in pre : FALSE
    BY <1>1, <1>2, <1>3
  <2>2. pre = {}
    BY Zenon, <2>1
  <2>3. Ident(0) = <<>>
    BY DEF Ident
  <2> QED BY Zenon, <1>3, <2>2, <2>3 DEF LastHash, pre
<1>4. CASE k # 0
  <2>1. PICK g \in rows : g.n = k
    BY Zenon, <1>4 DEF Numbers
  <2>2. g \in pre /\ \A f \in pre \ {g} : f.n < g.n
    BY <1>1, <1>2, <2>1
  <2>3. LastHash(pre, column) = g.hash
    BY Zenon, <1>2, <2>2, LastIs
  <2> QED BY Zenon, <2>1, <2>3 DEF Covering, pre
<1> QED BY Zenon, <1>3, <1>4

\* VerifyAuditChain passes exactly when no row is lost.
LEMMA Verified ==
    ASSUME NEW rows, NEW column, ByNumber(rows, column), Covering(rows),
           recorded \in Nat, NEW lost \in Losses, Numbered(rows, lost)
    PROVE  VerifyAuditChain(rows, column) <=> ~damaged
<1>1. \A f \in rows : f.n \in Nat /\ f.n \in 1 .. recorded /\ f.n \notin lost
  BY Zenon DEF Numbered, Numbers
<1>2. \A f, g \in rows : f.n = g.n => f = g
  BY Zenon DEF Numbered
<1>3. ASSUME ~damaged PROVE VerifyAuditChain(rows, column)
  <2>1. Numbers(rows) = 1 .. recorded
    BY Zenon, <1>3 DEF Losses, Numbered
  <2> SUFFICES ASSUME NEW e \in rows
               PROVE  e.hash = auditHash(LastHash({f \in rows : Before(column, f, e)}, column), e.n)
    BY Zenon DEF VerifyAuditChain
  <2>2. e.n - 1 \in Nat /\ e.n - 1 < e.n /\ (e.n - 1 = 0 \/ e.n - 1 \in Numbers(rows)) /\ e.n = (e.n - 1) + 1
    BY <1>1, <2>1
  <2>3. \A f \in rows : f.n < e.n => f.n <= e.n - 1 /\ 0 < f.n
    BY <1>1
  <2>4. LastHash({f \in rows : Before(column, f, e)}, column) = Ident(e.n - 1)
    BY Zenon, <1>1, <1>2, <2>2, <2>3, HashBefore
  <2> QED BY <1>1, <2>2, <2>4, HashFollows DEF Covering
<1>4. ASSUME damaged PROVE ~VerifyAuditChain(rows, column)
  <2>1. PICK d \in 1 .. recorded - 1 : lost = {d}
    BY Zenon, <1>4 DEF Losses
  <2>2. d \in Nat /\ d > 0 /\ d + 1 \in Numbers(rows) /\ (d - 1 = 0 \/ d - 1 \in Numbers(rows)) /\ d - 1 \in Nat
    BY <2>1 DEF Numbered
  <2>3. PICK e \in rows : e.n = d + 1
    BY Zenon, <2>2 DEF Numbers
  <2>4. \A f \in rows : f.n < e.n => f.n <= d - 1 /\ 0 < f.n
    BY <1>1, <2>1, <2>2, <2>3
  <2>5. LastHash({f \in rows : Before(column, f, e)}, column) = Ident(d - 1)
    BY <1>1, <1>2, <2>2, <2>3, <2>4, HashBefore
  <2>6. e.hash = Ident(e.n) /\ e.n # (d - 1) + 1 /\ e.n \in Nat
    BY <1>1, <2>2, <2>3 DEF Covering
  <2>7. e.hash # auditHash(Ident(d - 1), e.n)
    BY Zenon, <2>2, <2>6, HashFollows
  <2> QED BY Zenon, <2>5, <2>7 DEF VerifyAuditChain
<1> QED BY Zenon, <1>3, <1>4

\* Row numbers decide in both orders when timestamps grow with them.
LEMMA OrderIsThat ==
    ASSUME NEW rows, \A e \in rows : e.n \in Nat /\ e.ts \in Nat, \A e, f \in rows : e.n = f.n => e = f
    PROVE  /\ ByNumber(rows, "seq")
           /\ (\A e, f \in rows : e.n < f.n => e.ts <= f.ts) => ByNumber(rows, "ts")
<1>1. ByNumber(rows, "seq")
  BY Zenon DEF ByNumber, Before
<1>2. ASSUME \A e, f \in rows : e.n < f.n => e.ts <= f.ts PROVE ByNumber(rows, "ts")
  BY <1>2 DEF ByNumber, Before
<1> QED BY Zenon, <1>1, <1>2

\* The last row is never lost, so the next recording finds its hash.
LEMMA LastIsHeld ==
    ASSUME NEW rows, NEW column, ByNumber(rows, column), Covering(rows),
           recorded \in Nat, NEW lost \in Losses, Numbered(rows, lost)
    PROVE  LastHash(rows, column) = Ident(recorded)
<1>1. \A f \in rows : f.n \in Nat /\ f.n \in 1 .. recorded
  BY Zenon DEF Numbered, Numbers
<1>2. CASE recorded = 0
  <2>1. \A f \in rows : FALSE
    BY <1>1, <1>2
  <2>2. rows = {}
    BY Zenon, <2>1
  <2>3. Ident(0) = <<>>
    BY DEF Ident
  <2> QED BY Zenon, <1>2, <2>2, <2>3 DEF LastHash
<1>3. CASE recorded # 0
  <2>1. recorded \notin lost
    <3>1. ASSUME damaged PROVE recorded \notin lost
      BY <3>1 DEF Losses
    <3>2. ASSUME ~damaged PROVE recorded \notin lost
      BY Zenon, <3>2 DEF Losses
    <3> QED BY Zenon, <3>1, <3>2
  <2>2. recorded \in Numbers(rows)
    BY <1>3, <2>1 DEF Numbered
  <2>3. PICK e \in rows : e.n = recorded
    BY Zenon, <2>2 DEF Numbers
  <2>4. \A f \in rows \ {e} : f.n < e.n
    BY <1>1, <2>3 DEF Numbered
  <2>5. LastHash(rows, column) = e.hash
    BY Zenon, <1>1, <2>4, LastIs
  <2> QED BY Zenon, <2>3, <2>5 DEF Covering
<1> QED BY Zenon, <1>2, <1>3

-----------------------------------------------------------------------------
\* Beginning to record an event changes no row.
LEMMA BeginStep ==
    ASSUME ChainInv, NEW w \in Recorder, BeginRecord(w)
    PROVE  ChainInv'
<1>1. UNCHANGED <<log, pgLog, recorded, second, overlapped, unread, purged, damaged>>
  BY Zenon DEF BeginRecord
<1>3. /\ DOMAIN rec' = Recorder /\ rec'[w] = [at |-> "read", ts |-> second, prev |-> <<>>, seen |-> recorded]
      /\ \A x \in Recorder \ {w} : rec'[x] = rec[x]
  BY Zenon DEF ChainInv, RecTypes, BeginRecord
<1>4. RecTypes'
  BY <1>1, <1>3 DEF ChainInv, RecTypes
<1>5. RowsInv'
  <2> SUFFICES ASSUME ~purged
               PROVE  /\ \E lost \in Losses : Numbered(log, lost) /\ Numbered(pgLog, lost)
                      /\ Covering(pgLog)
                      /\ \A e \in log : e.ts <= second
                      /\ ~overlapped /\ ~unread => InTime'
    BY Zenon, <1>1 DEF RowsInv, Losses, Numbered, Numbers, Covering
  <2>1. ASSUME InTime, \A e \in log : e.ts <= second PROVE InTime'
    BY <1>1, <1>3, <2>1 DEF InTime, Covering
  <2> QED BY Zenon, <2>1 DEF ChainInv, RowsInv
<1> QED BY Zenon, <1>4, <1>5 DEF ChainInv

\* A recording reads the last hash, or fails to.
LEMMA ReadStep ==
    ASSUME ChainInv, NEW w \in Recorder, ReadLast(w)
    PROVE  ChainInv'
<1>1. UNCHANGED <<log, pgLog, recorded, second, overlapped, purged, damaged>>
  BY Zenon DEF ReadLast
<1>2. PICK h : /\ Holding(w, h)
               /\ ~unread' => ~unread /\ h = LastHash(log, "ts")
  <2>1. CASE Holding(w, LastHash(log, "ts")) /\ unread' = unread
    BY Zenon, <2>1
  <2>2. CASE Holding(w, <<>>) /\ unread' = TRUE
    BY Zenon, <2>2
  <2> QED BY Zenon, <2>1, <2>2 DEF ReadLast
<1>3. /\ DOMAIN rec' = Recorder
      /\ rec'[w] = [at |-> "insert", ts |-> rec[w].ts, prev |-> h, seen |-> rec[w].seen]
      /\ \A x \in Recorder \ {w} : rec'[x] = rec[x]
  BY Zenon, <1>2 DEF ChainInv, RecTypes, Holding
<1>4. RecTypes'
  BY <1>1, <1>3 DEF ChainInv, RecTypes
<1>5. RowsInv'
  <2> SUFFICES ASSUME ~purged
               PROVE  /\ \E lost \in Losses : Numbered(log, lost) /\ Numbered(pgLog, lost)
                      /\ Covering(pgLog)
                      /\ \A e \in log : e.ts <= second
                      /\ ~overlapped /\ ~unread' => InTime'
    BY Zenon, <1>1 DEF RowsInv, Losses, Numbered, Numbers, Covering
  <2>1. ASSUME ~overlapped, ~unread' PROVE InTime'
    <3>1. InTime /\ h = LastHash(log, "ts")
      BY Zenon, <1>2, <2>1 DEF ChainInv, RowsInv
    <3>2. PICK lost \in Losses : Numbered(log, lost)
      BY Zenon DEF ChainInv, RowsInv
    <3>3. ByNumber(log, "ts")
      BY Zenon, <3>1, <3>2, OrderIsThat DEF InTime, Numbered
    <3>4. h = Ident(recorded)
      BY Zenon, <3>1, <3>2, <3>3, LastIsHeld DEF ChainInv, RecTypes, InTime
    <3>5. rec[w].at # "out"
      BY Zenon DEF ReadLast
    <3> QED BY <1>1, <1>3, <3>1, <3>4, <3>5 DEF InTime, Covering
  <2> QED BY Zenon, <2>1 DEF ChainInv, RowsInv
<1> QED BY Zenon, <1>4, <1>5 DEF ChainInv

\* What one row more does to a table of consecutive rows.
LEMMA RowAdded ==
    ASSUME RecTypes, NEW rows, NEW lost \in Losses, Numbered(rows, lost), NEW e, e.ts \in Nat, e.n = recorded + 1,
           recorded' = recorded + 1, damaged' = damaged
    PROVE  /\ lost \in Losses'
           /\ \A e1, e2 \in rows \cup {e} : e1.n = e2.n => e1 = e2
           /\ \A e1 \in rows \cup {e} : e1.n \in Nat /\ e1.ts \in Nat
           /\ Numbers(rows \cup {e}) = (1 .. recorded') \ lost
<1>1. recorded \in Nat
  BY Zenon DEF RecTypes
<1>2. lost \in Losses' /\ recorded + 1 \notin lost
  <2>1. CASE damaged
    BY <1>1, <2>1 DEF Losses
  <2>2. CASE ~damaged
    BY Zenon, <1>1, <2>2 DEF Losses
  <2> QED BY Zenon, <2>1, <2>2
<1>3. \A f \in rows : f.n \in Nat /\ f.n <= recorded /\ f.ts \in Nat
  BY <1>1 DEF Numbered, Numbers
<1>4. \A e1, e2 \in rows \cup {e} : e1.n = e2.n => e1 = e2
  <2>1. \A f \in rows : f.n # e.n
    BY <1>1, <1>3
  <2> QED BY Zenon, <2>1 DEF Numbered
<1>5. Numbers(rows \cup {e}) = (1 .. recorded') \ lost
  <2>1. Numbers(rows \cup {e}) = Numbers(rows) \cup {e.n}
    BY Zenon DEF Numbers
  <2>2. (1 .. recorded') \ lost = ((1 .. recorded) \ lost) \cup {recorded + 1}
    BY <1>1, <1>2
  <2> QED BY Zenon, <2>1, <2>2 DEF Numbered
<1>6. \A e1 \in rows \cup {e} : e1.n \in Nat /\ e1.ts \in Nat
  <2>1. e.n \in Nat
    BY <1>1
  <2> QED BY Zenon, <1>3, <2>1
<1> QED BY Zenon, <1>2, <1>4, <1>5, <1>6

\* A row is added behind all the others, in both tables.
LEMMA InsertStep ==
    ASSUME ChainInv, NEW w \in Recorder, InsertEvent(w)
    PROVE  ChainInv'
<1> DEFINE e == [n |-> recorded + 1, ts |-> rec[w].ts, hash |-> auditHash(rec[w].prev, recorded + 1)]
           g == PgRecord(w)
<1>1. /\ UNCHANGED <<second, unread, purged, damaged>> /\ rec[w].at = "insert"
      /\ rec' = [rec EXCEPT ![w] = Out]
  BY Zenon DEF InsertEvent
<1>2. DOMAIN rec' = Recorder /\ rec'[w] = Out /\ \A x \in Recorder \ {w} : rec'[x] = rec[x]
  BY Zenon, <1>1 DEF ChainInv, RecTypes
<1>3. recorded' = recorded \/ recorded' = recorded + 1
  BY Zenon DEF InsertEvent
<1>4. RecTypes'
  BY <1>1, <1>2, <1>3 DEF ChainInv, RecTypes, Out
<1>5. CASE UNCHANGED <<log, pgLog, recorded, overlapped>>
  <2>1. ASSUME InTime PROVE InTime'
    BY <1>2, <1>5, <2>1 DEF InTime, Covering, Out
  <2>2. RowsInv'
    BY Zenon, <1>1, <1>5, <2>1 DEF ChainInv, RowsInv, Losses, Numbered, Numbers, Covering
  <2> QED BY Zenon, <1>4, <2>2 DEF ChainInv
<1>6. CASE /\ recorded' = recorded + 1 /\ log' = log \cup {e} /\ pgLog' = pgLog \cup {g}
           /\ overlapped' = (overlapped \/ rec[w].seen # recorded)
  <2> SUFFICES ASSUME ~purged PROVE RowsInv'
    BY Zenon, <1>1, <1>4 DEF ChainInv, RowsInv
  <2>1. PICK lost \in Losses : Numbered(log, lost) /\ Numbered(pgLog, lost)
    BY Zenon DEF ChainInv, RowsInv
  <2>2. e.n = recorded + 1 /\ e.ts = rec[w].ts /\ g.n = recorded + 1 /\ g.ts = rec[w].ts
        /\ g.hash = auditHash(LastHash(pgLog, "seq"), recorded + 1) /\ e.hash = auditHash(rec[w].prev, recorded + 1)
    BY Zenon DEF PgRecord
  <2>3. rec[w].ts \in Nat /\ recorded \in Nat /\ rec[w].ts <= second
    BY Zenon DEF ChainInv, RecTypes
  <2> HIDE DEF e, g
  <2>4. RecTypes
    BY Zenon DEF ChainInv
  <2>5. lost \in Losses' /\ Numbered(log, lost)'
    BY <1>1, <1>6, <2>1, <2>2, <2>3, <2>4, RowAdded DEF Numbered
  <2>6. Numbered(pgLog, lost)'
    BY <1>1, <1>6, <2>1, <2>2, <2>3, <2>4, RowAdded DEF Numbered
  <2>7. Covering(pgLog)'
    <3>1. Covering(pgLog) /\ ByNumber(pgLog, "seq")
      BY Zenon, <2>1, OrderIsThat DEF Numbered, ChainInv, RowsInv
    <3>2. LastHash(pgLog, "seq") = Ident(recorded)
      BY Zenon, <2>1, <2>3, <3>1, LastIsHeld
    <3>3. g.hash = Ident(g.n)
      BY <2>2, <2>3, <3>2, HashFollows
    <3> QED BY Zenon, <1>6, <3>1, <3>3 DEF Covering
  <2>8. \A f \in log' : f.ts <= second'
    <3>1. \A f \in log : f.ts <= second
      BY Zenon DEF ChainInv, RowsInv
    <3> QED BY Zenon, <1>1, <1>6, <2>2, <2>3, <3>1
  <2>9. ASSUME ~overlapped', ~unread' PROVE InTime'
    <3>1. ~overlapped /\ rec[w].seen = recorded
      BY Zenon, <1>6, <2>9
    <3>2. InTime
      BY Zenon, <1>1, <2>9, <3>1 DEF ChainInv, RowsInv
    <3>3. e.hash = Ident(e.n) /\ \A f \in log : f.ts <= e.ts /\ f.n <= recorded /\ f.n \in Nat
      <4>1. rec[w].prev = Ident(recorded) /\ \A f \in log : f.ts <= rec[w].ts
        BY Zenon, <1>1, <3>1, <3>2 DEF InTime
      <4>2. \A f \in log : f.n <= recorded /\ f.n \in Nat
        BY <2>1, <2>3 DEF Numbered, Numbers
      <4> QED BY <2>2, <2>3, <4>1, <4>2, HashFollows
    <3>4. Covering(log)'
      BY Zenon, <1>6, <3>2, <3>3 DEF InTime, Covering
    <3>5. \A f1, f2 \in log' : f1.n < f2.n => f1.ts <= f2.ts
      <4>1. \A f1, f2 \in log : f1.n < f2.n => f1.ts <= f2.ts
        BY Zenon, <3>2 DEF InTime
      <4>2. \A f \in log : ~(e.n < f.n)
        BY <2>2, <2>3, <3>3
      <4> QED BY <1>6, <2>2, <2>3, <3>3, <4>1, <4>2
    <3>6. \A x \in Recorder : rec'[x].at = "out" \/ rec'[x].seen # recorded'
      BY <1>2, <1>6, <2>3 DEF Out, ChainInv, RecTypes
    <3> QED BY Zenon, <3>4, <3>5, <3>6 DEF InTime
  <2> QED BY Zenon, <2>5, <2>6, <2>7, <2>8, <2>9 DEF RowsInv
<1> QED BY Zenon, <1>5, <1>6 DEF InsertEvent

\* A row that is not the last is lost from both tables.
LEMMA LoseStep ==
    ASSUME ChainInv, NEW e \in log, LoseRow(e)
    PROVE  ChainInv'
<1>1. /\ UNCHANGED <<recorded, second, rec, overlapped, unread, purged>> /\ damaged' = TRUE
      /\ ~damaged /\ log' = log \ {e} /\ pgLog' = {f \in pgLog : f.n # e.n}
      /\ \E f \in pgLog : Before("seq", e, f)
  BY Zenon DEF LoseRow
<1>2. RecTypes'
  BY Zenon, <1>1 DEF ChainInv, RecTypes
<1> SUFFICES ASSUME ~purged PROVE RowsInv'
  BY Zenon, <1>1, <1>2 DEF ChainInv, RowsInv
<1>3. recorded \in Nat /\ Numbered(log, {}) /\ Numbered(pgLog, {})
  <2>1. PICK lost \in Losses : Numbered(log, lost) /\ Numbered(pgLog, lost)
    BY Zenon DEF ChainInv, RowsInv
  <2>2. lost = {}
    BY Zenon, <1>1 DEF Losses
  <2> QED BY Zenon, <2>1, <2>2 DEF ChainInv, RecTypes
<1>4. e.n \in 1 .. recorded - 1
  <2>1. PICK f \in pgLog : e.n < f.n
    BY Zenon, <1>1 DEF Before
  <2>2. f.n \in 1 .. recorded /\ e.n \in 1 .. recorded
    BY Zenon, <1>3, <2>1 DEF Numbered, Numbers
  <2> QED BY <1>3, <2>1, <2>2
<1>5. {e.n} \in Losses'
  BY Zenon, <1>1, <1>4 DEF Losses
<1>6. Numbered(log, {e.n})' /\ Numbered(pgLog, {e.n})'
  <2>1. Numbers(log \ {e}) = Numbers(log) \ {e.n}
    BY Zenon, <1>3 DEF Numbered, Numbers
  <2>2. Numbers({f \in pgLog : f.n # e.n}) = Numbers(pgLog) \ {e.n}
    BY Zenon DEF Numbers
  <2> QED BY Zenon, <1>1, <1>3, <2>1, <2>2 DEF Numbered
<1>7. Covering(pgLog)' /\ \A f \in log' : f.ts <= second'
  <2>1. Covering(pgLog) /\ \A f \in log : f.ts <= second
    BY Zenon DEF ChainInv, RowsInv
  <2> QED BY Zenon, <1>1, <2>1 DEF Covering
<1>8. ASSUME ~overlapped', ~unread' PROVE InTime'
  <2>1. InTime
    BY Zenon, <1>1, <1>8 DEF ChainInv, RowsInv
  <2> QED BY Zenon, <1>1, <2>1 DEF InTime, Covering
<1> QED BY Zenon, <1>5, <1>6, <1>7, <1>8 DEF RowsInv

\* Time, purging, and steps of others.
LEMMA ChainOther ==
    ASSUME ChainInv, ChainTick \/ (\E t \in 1 .. MaxSecond : PurgeEvents(t)) \/ UNCHANGED chainVars
    PROVE  ChainInv'
<1>1. CASE ChainTick \/ UNCHANGED chainVars
  <2>1. /\ UNCHANGED <<log, pgLog, recorded, rec, overlapped, unread, purged, damaged>>
        /\ second \in Nat /\ (second' = second \/ second' = second + 1)
    BY Zenon, <1>1 DEF ChainTick, chainVars, ChainInv, RecTypes
  <2>2. RecTypes'
    BY <2>1 DEF ChainInv, RecTypes
  <2> SUFFICES ASSUME ~purged PROVE RowsInv'
    BY Zenon, <2>1, <2>2 DEF ChainInv, RowsInv
  <2>3. PICK lost \in Losses : Numbered(log, lost) /\ Numbered(pgLog, lost)
    BY Zenon DEF ChainInv, RowsInv
  <2>4. lost \in Losses' /\ Numbered(log, lost)' /\ Numbered(pgLog, lost)'
    BY Zenon, <2>1, <2>3 DEF Losses, Numbered, Numbers
  <2>5. \A f \in log' : f.ts <= second'
    <3>1. \A f \in log : f.ts <= second /\ f.ts \in Nat
      BY Zenon, <2>3 DEF ChainInv, RowsInv, Numbered
    <3> QED BY <2>1, <3>1
  <2>6. InTime => InTime'
    BY Zenon, <2>1 DEF InTime, Covering
  <2> QED BY Zenon, <2>1, <2>4, <2>5, <2>6 DEF ChainInv, RowsInv, Covering
<1>2. ASSUME NEW t \in 1 .. MaxSecond, PurgeEvents(t) PROVE ChainInv'
  <2>1. purged' = TRUE /\ UNCHANGED <<recorded, second, rec>>
    BY Zenon, <1>2 DEF PurgeEvents
  <2> QED BY Zenon, <2>1 DEF ChainInv, RecTypes, RowsInv
<1> QED BY Zenon, <1>1, <1>2

\* VerifyAuditChain passes a log that nobody has touched and finds that a row is
\* missing, however many events are recorded before and afterwards: in PostgreSQL always,
\* in SQLite when RecordEvents neither overlap nor fail to read the last hash.
THEOREM ChainIsTrusted == ChainSpec => []ChainTrusted
<1>1. ChainInit => ChainInv
  <2> SUFFICES ASSUME ChainInit PROVE ChainInv
    OBVIOUS
  <2>1. RecTypes
    BY DEF ChainInit, RecTypes, Out
  <2>2. log = {} /\ pgLog = {} /\ recorded = 0 /\ ~damaged
    BY Zenon DEF ChainInit
  <2>3. {} \in Losses /\ Numbered({}, {})
    BY <2>2 DEF Losses, Numbered, Numbers
  <2>4. InTime
    BY Zenon DEF ChainInit, InTime, Covering, Out
  <2> QED BY Zenon, <2>1, <2>2, <2>3, <2>4 DEF ChainInv, RowsInv, Covering
<1>2. ChainInv /\ [ChainNext]_chainVars => ChainInv'
  BY Zenon, BeginStep, ReadStep, InsertStep, LoseStep, ChainOther DEF ChainNext
<1>3. ChainInv => ChainTrusted
  <2> SUFFICES ASSUME ChainInv, ~purged
               PROVE  /\ VerifyAuditChain(pgLog, "seq") <=> ~damaged
                      /\ ~overlapped /\ ~unread => (VerifyAuditChain(log, "ts") <=> ~damaged)
    BY Zenon DEF ChainTrusted
  <2>1. PICK lost \in Losses : Numbered(log, lost) /\ Numbered(pgLog, lost)
    BY Zenon DEF ChainInv, RowsInv
  <2>2. recorded \in Nat /\ Covering(pgLog) /\ ByNumber(pgLog, "seq")
    BY Zenon, <2>1, OrderIsThat DEF ChainInv, RecTypes, RowsInv, Numbered
  <2>3. ASSUME ~overlapped, ~unread PROVE Covering(log) /\ ByNumber(log, "ts")
    BY Zenon, <2>1, <2>3, OrderIsThat DEF ChainInv, RowsInv, InTime, Numbered
  <2>4. VerifyAuditChain(pgLog, "seq") <=> ~damaged
    BY Zenon, <2>1, <2>2, Verified
  <2>5. ASSUME ~overlapped, ~unread PROVE VerifyAuditChain(log, "ts") <=> ~damaged
    BY Zenon, <2>1, <2>2, <2>3, <2>5, Verified
  <2> QED BY Zenon, <2>4, <2>5
<1> QED BY <1>1, <1>2, <1>3, PTL DEF ChainSpec

-----------------------------------------------------------------------------
(* The migrations.                                                         *)

Last == Len(Schema)
Way(v) == Schema[v].way

\* What the proof uses of the schemas.
SchemaShape ==
    /\ Last \in Nat \ {0}
    /\ \A v \in 1 .. Last :
          /\ Way(v) \in {"tx", "each", "plain"} /\ Len(Schema[v].stmts) \in Nat \ {0}
          /\ Way(v) = "each" => database = "billing"
          /\ Way(v) = "plain" <=> Single
          /\ database = "others" => Adds(v) = {}

\* All four schemas are of that shape.
LEMMA Shape ==
    ASSUME database \in Databases
    PROVE  SchemaShape
<1>1. CASE database = "billing"
  <2>1. Schema = migrations /\ Len(migrations) = 7 /\ ~Single
    BY Zenon, <1>1 DEF Schema, migrations, Single
  <2>2. \A v \in 1 .. 7 : migrations[v].way \in {"tx", "each"} /\ Len(migrations[v].stmts) \in Nat \ {0}
    <3> SUFFICES ASSUME NEW v \in 1 .. 7
                 PROVE  migrations[v].way \in {"tx", "each"} /\ Len(migrations[v].stmts) \in Nat \ {0}
      OBVIOUS
    <3>1. v \in {1, 3, 6} => migrations[v] = Tx(<<"make">>)
      BY DEF migrations
    <3>2. v \in {2, 5} => migrations[v] = Tx(<<"add">>)
      BY DEF migrations
    <3>3. v = 4 => migrations[v] = OneByOne(<<"add", "add", "add", "add", "make", "make">>)
      BY DEF migrations
    <3>4. v = 7 => migrations[v] = OneByOne(<<"add", "make", "make">>)
      BY DEF migrations
    <3> QED BY <3>1, <3>2, <3>3, <3>4 DEF Tx, OneByOne
  <2> QED BY SMTT(30), <1>1, <2>1, <2>2 DEF SchemaShape, Last, Way
<1>2. CASE database = "postgres"
  <2>1. Schema = pgMigrations /\ Len(pgMigrations) = 8 /\ ~Single
    BY <1>2 DEF Schema, pgMigrations, Single
  <2>2. \A v \in 1 .. 8 : pgMigrations[v].way = "tx" /\ Len(pgMigrations[v].stmts) \in Nat \ {0}
    BY DEF pgMigrations, Tx
  <2>4. Last = 8 /\ Last \in Nat \ {0}
    BY <2>1 DEF Last
  <2>5. \A v \in 1 .. Last : Way(v) = "tx" /\ Len(Schema[v].stmts) \in Nat \ {0}
    BY Zenon, <2>1, <2>2, <2>4 DEF Way
  <2> QED BY Zenon, <1>2, <2>1, <2>4, <2>5 DEF SchemaShape
<1>3. CASE database = "registry"
  <2>1. Schema = registryMigrations /\ Len(registryMigrations) = 6 /\ Single
    BY Zenon, <1>3 DEF Schema, registryMigrations, Single
  <2>2. \A v \in 1 .. 6 : registryMigrations[v].way = "plain" /\ Len(registryMigrations[v].stmts) \in Nat \ {0}
    <3> SUFFICES ASSUME NEW v \in 1 .. 6
                 PROVE  registryMigrations[v].way = "plain" /\ Len(registryMigrations[v].stmts) \in Nat \ {0}
      OBVIOUS
    <3>1. registryMigrations[v] = Plain("make") \/ registryMigrations[v] = Plain("add")
      BY DEF registryMigrations
    <3> QED BY <3>1 DEF Plain
  <2>4. Last = 6 /\ Last \in Nat \ {0}
    BY <2>1 DEF Last
  <2>5. \A v \in 1 .. Last : Way(v) = "plain" /\ Len(Schema[v].stmts) \in Nat \ {0}
    BY Zenon, <2>1, <2>2, <2>4 DEF Way
  <2> QED BY Zenon, <1>3, <2>1, <2>4, <2>5 DEF SchemaShape
<1>4. CASE database = "others"
  <2>1. Schema = otherMigrations /\ Len(otherMigrations) = 6 /\ Single
    BY <1>4 DEF Schema, otherMigrations, Single
  <2>2. \A v \in 1 .. 6 : /\ otherMigrations[v].way = "plain" /\ otherMigrations[v].stmts = <<"make">>
                           /\ Len(otherMigrations[v].stmts) \in Nat \ {0}
    BY DEF otherMigrations, Plain
  <2>3. \A v \in 1 .. 6 : Adds(v) = {}
    <3> SUFFICES ASSUME NEW v \in 1 .. 6, NEW s \in Adds(v) PROVE FALSE
      OBVIOUS
    <3>1. PICK k \in 1 .. Len(Schema[v].stmts) : s = <<v, k>> /\ Schema[v].stmts[s[2]] = "add"
      BY Zenon DEF Adds, Statements
    <3>2. k = 1 /\ s[2] = k /\ Schema[v].stmts = <<"make">>
      BY <2>1, <2>2, <3>1
    <3> QED BY <3>1, <3>2
  <2>4. Last = 6 /\ Last \in Nat \ {0}
    BY <2>1 DEF Last
  <2>5. \A v \in 1 .. Last : Way(v) = "plain" /\ Len(Schema[v].stmts) \in Nat \ {0}
    BY Zenon, <2>1, <2>2, <2>4 DEF Way
  <2> QED BY Zenon, <1>4, <2>1, <2>3, <2>4, <2>5 DEF SchemaShape
<1> QED BY Zenon, <1>1, <1>2, <1>3, <1>4 DEF Databases

-----------------------------------------------------------------------------
Ahead(p) == opener[p].at \in {"next", "each", "record"}

MigTypes ==
    /\ database \in Databases
    /\ DOMAIN opener = Opener
    /\ \A p \in Opener : /\ opener[p].at \in {"down", "next", "each", "record", "up", "failed"}
                         /\ opener[p].version \in Nat /\ opener[p].place \in Nat

\* The recorded versions are the first ones, each with all of its statements.
Recorded ==
    /\ \E m \in 0 .. Last : versions = 1 .. m
    /\ \A v \in versions : Statements(v) \subseteq applied

\* A statement of a version in a transaction comes with the version.  A column added on
\* its own is recorded, or about to be, unless a process has ended in between.
Attached ==
    \A v \in 1 .. Last \ versions :
        /\ Way(v) = "tx" => Statements(v) \cap applied = {}
        /\ Way(v) = "plain" /\ Adds(v) \cap applied # {} =>
              halfway \/ \E p \in Opener : opener[p].at = "record" /\ opener[p].version = v

\* Where an opening is, and that nothing but other openings can have moved the schema on.
OpeningOK(p) ==
    LET v == opener[p].version
    IN  /\ Ahead(p) => v \in 1 .. Last /\ 1 .. v - 1 \subseteq versions
        /\ Ahead(p) /\ p \notin disturbed /\ ~Single => versions = 1 .. v - 1
        /\ opener[p].at = "next" => opener[p].place = 1
        /\ opener[p].at = "each" =>
              /\ Way(v) = "each" /\ opener[p].place \in 1 .. Len(Schema[v].stmts)
              /\ \A k \in 1 .. opener[p].place - 1 : <<v, k>> \in applied
        /\ opener[p].at = "record" => Statements(v) \subseteq applied /\ Way(v) # "tx"
        /\ opener[p].at = "up" => versions = 1 .. Last
        /\ opener[p].at = "failed" => p \in disturbed \/ (halfway /\ database = "registry")

OneOpener ==
    Single => \A p, q \in Opener : opener[p].at # "down" /\ opener[q].at # "down" => p = q

MigInv ==
    /\ MigTypes /\ Recorded /\ Attached /\ OneOpener
    /\ \A p \in Opener : OpeningOK(p)

\* MAX(version) is the number of versions that are recorded.
LEMMA CurrentIs ==
    ASSUME NEW m \in Nat, versions = 1 .. m
    PROVE  Current = m
<1>1. CASE m = 0
  <2>1. versions = {}
    BY <1>1
  <2> QED BY Zenon, <1>1, <2>1 DEF Current
<1>2. CASE m # 0
  <2> DEFINE Top(v) == \A w \in versions : v >= w
             c == CHOOSE v \in versions : Top(v)
  <2>1. m \in versions /\ Top(m)
    BY <1>2
  <2>2. c \in versions /\ Top(c)
    BY Zenon, <2>1
  <2> HIDE DEF c
  <2>3. c = m
    BY <2>1, <2>2
  <2>4. versions # {}
    BY Zenon, <2>1
  <2> QED BY Zenon, <2>3, <2>4 DEF Current, c
<1> QED BY Zenon, <1>1, <1>2

\* A database keeps its kind, and with it its schema.
LEMMA SameSchema ==
    ASSUME database' = database
    PROVE  /\ Schema' = Schema /\ Last' = Last /\ Single' = Single
           /\ \A v : Way(v)' = Way(v) /\ Statements(v)' = Statements(v) /\ Adds(v)' = Adds(v)
<1>1. Schema' = Schema
  BY Zenon DEF Schema
<1> QED BY Zenon, <1>1 DEF Last, Way, Statements, Adds, Single

\* What a step of one opening does to the openings.
LEMMA Moved ==
    ASSUME MigTypes, NEW p \in Opener, NEW a, NEW v \in Nat, NEW k \in Nat, At(p, a, v, k),
           a \in {"down", "next", "each", "record", "up", "failed"}, database' = database
    PROVE  /\ opener'[p].at = a /\ opener'[p].version = v /\ opener'[p].place = k
           /\ \A q \in Opener \ {p} : opener'[q] = opener[q]
           /\ MigTypes'
<1>1. /\ opener'[p] = [at |-> a, version |-> v, place |-> k] /\ DOMAIN opener' = Opener
      /\ \A q \in Opener \ {p} : opener'[q] = opener[q]
  BY Zenon DEF At, MigTypes
<1> QED BY <1>1 DEF MigTypes

Consecutive(S, n) == \E k \in 0 .. n : S = 1 .. k

\* One more version behind the others leaves them consecutive.
LEMMA OneMore ==
    \A n \in Nat : \A m \in 0 .. n, v \in 1 .. n :
        1 .. v - 1 \subseteq 1 .. m => Consecutive((1 .. m) \cup {v}, n)
<1> SUFFICES ASSUME NEW n \in Nat, NEW m \in 0 .. n, NEW v \in 1 .. n, 1 .. v - 1 \subseteq 1 .. m
             PROVE  \E k \in 0 .. n : (1 .. m) \cup {v} = 1 .. k
  BY Zenon DEF Consecutive
<1>1. CASE v <= m
  BY <1>1
<1>2. CASE v > m
  <2>1. v = m + 1
    <3>1. v - 1 <= m
      BY <1>2
    <3> QED BY <1>2, <3>1
  <2>2. (1 .. m) \cup {m + 1} = 1 .. (m + 1)
    OBVIOUS
  <2> QED BY <2>1, <2>2
<1> QED BY <1>1, <1>2

\* Statements of different versions are different.
LEMMA Apart ==
    \A u, v : u # v => Statements(u) \cap Statements(v) = {} /\ \A k : <<v, k>> \notin Statements(u)
BY DEF Statements

\* An opening that stands still is not harmed by what another one does.
LEMMA Bystander ==
    ASSUME MigTypes, NEW q \in Opener, OpeningOK(q), opener'[q] = opener[q], database' = database,
           versions \subseteq versions', versions' \subseteq 1 .. Last, applied \subseteq applied',
           q \in disturbed => q \in disturbed', versions' # versions => q \in disturbed',
           halfway => halfway'
    PROVE  OpeningOK(q)'
<1> DEFINE v == opener[q].version
<1>1. /\ Schema' = Schema /\ Last' = Last /\ Single' = Single
      /\ \A u : Way(u)' = Way(u) /\ Statements(u)' = Statements(u)
  BY Zenon, SameSchema
<1>2. /\ (Ahead(q) => v \in 1 .. Last /\ 1 .. v - 1 \subseteq versions)'
      /\ (Ahead(q) /\ q \notin disturbed /\ ~Single => versions = 1 .. v - 1)'
      /\ (opener[q].at = "next" => opener[q].place = 1)'
  BY Zenon, <1>1 DEF OpeningOK, Ahead
<1>3. (opener[q].at = "each" =>
              /\ Way(v) = "each" /\ opener[q].place \in 1 .. Len(Schema[v].stmts)
              /\ \A k \in 1 .. opener[q].place - 1 : <<v, k>> \in applied)'
  BY Zenon, <1>1 DEF OpeningOK
<1>4. (opener[q].at = "record" => Statements(v) \subseteq applied /\ Way(v) # "tx")'
  BY Zenon, <1>1 DEF OpeningOK
<1>5. (opener[q].at = "up" => versions = 1 .. Last)'
  BY Zenon, <1>1 DEF OpeningOK
<1>6. (opener[q].at = "failed" => q \in disturbed \/ (halfway /\ database = "registry"))'
  BY Zenon DEF OpeningOK
<1> QED BY Zenon, <1>2, <1>3, <1>4, <1>5, <1>6 DEF OpeningOK

\* Where the step of an opening leaves it.
LEMMA Arrived ==
    ASSUME NEW p \in Opener, database' = database,
           LET v == opener'[p].version a == opener'[p].at
           IN  /\ a \in {"next", "each", "record"} => v \in 1 .. Last /\ 1 .. v - 1 \subseteq versions'
               /\ a \in {"next", "each", "record"} /\ p \notin disturbed' /\ ~Single => versions' = 1 .. v - 1
               /\ a = "next" => opener'[p].place = 1
               /\ a = "each" =>
                     /\ Way(v) = "each" /\ opener'[p].place \in 1 .. Len(Schema[v].stmts)
                     /\ \A k \in 1 .. opener'[p].place - 1 : <<v, k>> \in applied'
               /\ a = "record" => Statements(v) \subseteq applied' /\ Way(v) # "tx"
               /\ a = "up" => versions' = 1 .. Last
               /\ a = "failed" => p \in disturbed' \/ (halfway' /\ database = "registry")
    PROVE  OpeningOK(p)'
<1>1. /\ Schema' = Schema /\ Last' = Last /\ Single' = Single
      /\ \A u : Way(u)' = Way(u) /\ Statements(u)' = Statements(u)
  BY Zenon, SameSchema
<1> QED BY Zenon, <1>1 DEF OpeningOK, Ahead

\* Only one process opens a database of the registry, the queue or the conversations.
LEMMA StillOne ==
    ASSUME OneOpener, NEW p \in Opener, \A q \in Opener \ {p} : opener'[q] = opener[q], database' = database,
           opener[p].at # "down" \/ (Single => \A q \in Opener \ {p} : opener[q].at = "down")
    PROVE  OneOpener'
BY Zenon, SameSchema DEF OneOpener

\* A step that touches no version that is not recorded leaves statements and versions
\* together.
LEMMA StillAttached ==
    ASSUME Attached, database' = database, halfway => halfway', versions \subseteq versions',
           \A u \in 1 .. Last : u \notin versions' =>
               /\ Way(u) = "tx" \/ Way(u) = "plain" => Statements(u) \cap applied' \subseteq applied
               /\ \A q \in Opener : opener[q].at = "record" /\ opener[q].version = u /\ Way(u) = "plain"
                                    /\ Adds(u) # {} => opener'[q] = opener[q] \/ halfway'
    PROVE  Attached'
<1>1. /\ Last' = Last
      /\ \A u : Way(u)' = Way(u) /\ Statements(u)' = Statements(u) /\ Adds(u)' = Adds(u)
  BY Zenon, SameSchema
<1> SUFFICES ASSUME NEW u \in 1 .. Last, u \notin versions'
             PROVE  /\ Way(u) = "tx" => Statements(u) \cap applied' = {}
                    /\ Way(u) = "plain" /\ Adds(u) \cap applied' # {} =>
                          halfway' \/ \E p \in Opener : opener'[p].at = "record" /\ opener'[p].version = u
  BY Zenon, <1>1 DEF Attached
<1>2. /\ u \notin versions /\ Adds(u) \subseteq Statements(u)
      /\ Way(u) = "tx" \/ Way(u) = "plain" => Statements(u) \cap applied' \subseteq applied
  BY Zenon DEF Adds
<1>3. ASSUME Way(u) = "tx" PROVE Statements(u) \cap applied' = {}
  BY Zenon, <1>2, <1>3 DEF Attached
<1>4. ASSUME Way(u) = "plain", Adds(u) \cap applied' # {}
      PROVE  halfway' \/ \E p \in Opener : opener'[p].at = "record" /\ opener'[p].version = u
  <2>1. Adds(u) \cap applied # {} /\ Adds(u) # {}
    BY Zenon, <1>2, <1>4
  <2>2. halfway \/ \E p \in Opener : opener[p].at = "record" /\ opener[p].version = u
    BY Zenon, <1>2, <1>4, <2>1 DEF Attached
  <2>3. ASSUME NEW p \in Opener, opener[p].at = "record", opener[p].version = u
        PROVE  halfway' \/ (opener'[p].at = "record" /\ opener'[p].version = u)
    BY Zenon, <1>4, <2>1, <2>3
  <2> QED BY Zenon, <2>2, <2>3
<1> QED BY Zenon, <1>3, <1>4

\* An opening starts behind the versions it has found.
LEMMA OpenStep ==
    ASSUME MigInv, NEW p \in Opener, Open(p)
    PROVE  MigInv'
<1> DEFINE v == IF Single THEN 1 ELSE Current + 1
           a == IF v > Last THEN "up" ELSE "next"
<1>1. /\ UNCHANGED <<database, applied, versions, halfway>> /\ disturbed' = disturbed \ {p}
      /\ opener[p].at \in {"down", "failed"} /\ At(p, a, v, 1)
      /\ Single => \A q \in Opener \ {p} : opener[q].at = "down"
  BY Zenon DEF Open, Last
<1>2. SchemaShape /\ MigTypes
  BY Zenon, Shape DEF MigInv, MigTypes
<1>3. PICK m \in 0 .. Last : versions = 1 .. m
  BY Zenon DEF MigInv, Recorded
<1>4. m \in Nat /\ Last \in Nat \ {0} /\ m <= Last /\ Current = m
  BY <1>2, <1>3, CurrentIs DEF SchemaShape
<1>5. v \in Nat /\ v > 0 /\ (Single => v = 1) /\ (~Single => v = m + 1)
  BY <1>4
<1>6. a \in {"up", "next"} /\ (a = "up" => v > Last) /\ (a = "next" => v <= Last)
  BY <1>4, <1>5
<1> HIDE DEF v, a
<1>7. /\ opener'[p].at = a /\ opener'[p].version = v /\ opener'[p].place = 1
      /\ \A q \in Opener \ {p} : opener'[q] = opener[q]
      /\ MigTypes'
  BY Zenon, <1>1, <1>2, <1>5, <1>6, Moved
<1>8. OpeningOK(p)'
  <2>1. a = "next" => v \in 1 .. Last /\ 1 .. v - 1 \subseteq versions'
    BY <1>1, <1>3, <1>4, <1>5, <1>6
  <2>2. ~Single => versions' = 1 .. v - 1
    BY <1>1, <1>3, <1>4, <1>5
  <2>3. a = "up" => versions' = 1 .. Last
    <3>1. ASSUME a = "up" PROVE m = Last
      BY <1>4, <1>5, <1>6, <3>1
    <3> QED BY Zenon, <1>1, <1>3, <3>1
  <2> QED BY Zenon, <1>1, <1>6, <1>7, <2>1, <2>2, <2>3, Arrived
<1>9. \A q \in Opener \ {p} : OpeningOK(q)'
  <2> SUFFICES ASSUME NEW q \in Opener \ {p} PROVE OpeningOK(q)'
    OBVIOUS
  <2>1. versions \subseteq 1 .. Last
    BY <1>3, <1>4
  <2> QED BY Zenon, <1>1, <1>2, <1>7, <2>1, Bystander DEF MigInv
<1>10. OneOpener'
  BY Zenon, <1>1, <1>7, StillOne DEF MigInv
<1>11. Recorded' /\ Attached'
  <2>1. /\ Last' = Last
        /\ \A u : Way(u)' = Way(u) /\ Statements(u)' = Statements(u) /\ Adds(u)' = Adds(u)
    BY Zenon, <1>1, SameSchema
  <2>2. Recorded'
    BY Zenon, <1>1, <2>1 DEF MigInv, Recorded
  <2>3. \A q \in Opener : opener[q].at = "record" => opener'[q] = opener[q]
    BY Zenon, <1>1, <1>7
  <2>4. Attached'
    BY Zenon, <1>1, <2>3, StillAttached DEF MigInv
  <2> QED BY Zenon, <2>2, <2>4
<1> QED BY Zenon, <1>7, <1>8, <1>9, <1>10, <1>11 DEF MigInv

\* An opening gives up only because of another one, or of a column without its version.
LEMMA FailStep ==
    ASSUME MigInv, NEW p \in Opener, Fails(p), opener[p].at # "down",
           UNCHANGED <<database, applied, versions, disturbed, halfway>>,
           p \in disturbed \/ (halfway /\ database = "registry"),
           opener[p].at = "record" => Way(opener[p].version) # "plain"
    PROVE  MigInv'
<1>1. SchemaShape /\ MigTypes /\ opener[p].version \in Nat /\ versions \subseteq 1 .. Last
  BY Shape DEF MigInv, MigTypes, Recorded, SchemaShape
<1>2. /\ opener'[p].at = "failed" /\ \A q \in Opener \ {p} : opener'[q] = opener[q]
      /\ MigTypes'
  BY Zenon, <1>1, Moved DEF Fails
<1>3. OpeningOK(p)'
  BY Zenon, <1>2, Arrived
<1>4. \A q \in Opener \ {p} : OpeningOK(q)'
  BY Zenon, <1>1, <1>2, Bystander DEF MigInv
<1>5. OneOpener'
  BY Zenon, <1>2, StillOne DEF MigInv
<1>6. /\ Last' = Last
      /\ \A u : Way(u)' = Way(u) /\ Statements(u)' = Statements(u) /\ Adds(u)' = Adds(u)
  BY Zenon, SameSchema
<1>7. Recorded'
  BY Zenon, <1>6 DEF MigInv, Recorded
<1>8. \A q \in Opener : opener[q].at = "record" /\ Way(opener[q].version) = "plain" => opener'[q] = opener[q]
  BY Zenon, <1>2
<1>9. Attached'
  BY Zenon, <1>8, StillAttached DEF MigInv
<1> QED BY Zenon, <1>2, <1>3, <1>4, <1>5, <1>7, <1>9 DEF MigInv

\* With its version in, an opening goes on to the next one or is done.
LEMMA OnwardStep ==
    ASSUME MigInv, NEW p \in Opener, Onward(p), Ahead(p), database' = database,
           opener[p].version \in versions', versions \subseteq versions', versions' \subseteq 1 .. Last,
           p \notin disturbed' /\ ~Single => versions' = 1 .. opener[p].version
    PROVE  /\ opener'[p].at \in {"up", "next"} /\ \A q \in Opener \ {p} : opener'[q] = opener[q]
           /\ MigTypes' /\ OpeningOK(p)' /\ OneOpener'
<1> DEFINE v == opener[p].version
           a == IF v = Last THEN "up" ELSE "next"
<1>1. MigTypes /\ SchemaShape /\ v \in Nat /\ v + 1 \in Nat /\ v \in 1 .. Last /\ 1 .. v - 1 \subseteq versions /\ Last \in Nat
  BY Shape DEF MigInv, MigTypes, OpeningOK, SchemaShape
<1>2. At(p, a, v + 1, 1) /\ a \in {"up", "next"} /\ (a = "up" <=> v = Last)
  BY Zenon DEF Onward, Last
<1> HIDE DEF a, v
<1>3. /\ opener'[p].at = a /\ opener'[p].version = v + 1 /\ opener'[p].place = 1
      /\ \A q \in Opener \ {p} : opener'[q] = opener[q]
      /\ MigTypes'
  BY Zenon, <1>1, <1>2, Moved
<1>4. 1 .. v \subseteq versions' /\ (v + 1) - 1 = v
  <2>1. \A x \in 1 .. v : x \in 1 .. v - 1 \/ x = v
    BY <1>1
  <2> QED BY <1>1, <2>1 DEF v
<1>5. a = "next" => v + 1 \in 1 .. Last
  BY <1>1, <1>2
<1>6. a = "up" => versions' = 1 .. Last
  BY Zenon, <1>2, <1>4
<1>7. OpeningOK(p)'
  BY Zenon, <1>2, <1>3, <1>4, <1>5, <1>6, Arrived DEF v
<1>8. OneOpener'
  BY Zenon, <1>3, StillOne DEF MigInv, Ahead
<1> QED BY Zenon, <1>2, <1>3, <1>7, <1>8

\* The versions stay the first ones when one more is recorded with all its statements.
LEMMA RecordedMore ==
    ASSUME MigInv, NEW p \in Opener, Ahead(p), database' = database,
           versions' = versions \cup {opener[p].version}, applied \subseteq applied',
           Statements(opener[p].version) \subseteq applied'
    PROVE  Recorded' /\ versions' \subseteq 1 .. Last
<1> DEFINE v == opener[p].version
<1>1. SchemaShape /\ v \in 1 .. Last /\ 1 .. v - 1 \subseteq versions /\ Last \in Nat
  BY Zenon, Shape DEF MigInv, MigTypes, OpeningOK, SchemaShape
<1>2. PICK m \in 0 .. Last : versions = 1 .. m
  BY Zenon DEF MigInv, Recorded
<1>3. PICK k \in 0 .. Last : versions' = 1 .. k
  <2>1. versions' = (1 .. m) \cup {v} /\ 1 .. v - 1 \subseteq 1 .. m
    BY Zenon, <1>1, <1>2
  <2> HIDE DEF v
  <2>2. Consecutive((1 .. m) \cup {v}, Last)
    BY Zenon, <1>1, <2>1, OneMore
  <2> QED BY Zenon, <2>1, <2>2 DEF Consecutive
<1>4. \A u \in versions' : Statements(u) \subseteq applied'
  BY Zenon DEF MigInv, Recorded
<1>5. Last' = Last /\ \A u : Statements(u)' = Statements(u)
  BY Zenon, SameSchema
<1> QED BY SMTT(30), <1>1, <1>3, <1>4, <1>5 DEF Recorded

\* A version in a transaction.
LEMMA TxStep ==
    ASSUME MigInv, NEW p \in Opener, ApplyTx(p)
    PROVE  MigInv'
<1> DEFINE v == opener[p].version
<1>1. /\ UNCHANGED <<database, halfway>> /\ opener[p].at = "next" /\ Way(v) = "tx" /\ Ahead(p)
  BY Zenon DEF ApplyTx, Way, Ahead
<1>2. SchemaShape /\ MigTypes /\ v \in 1 .. Last /\ 1 .. v - 1 \subseteq versions /\ v \in Nat
  BY Zenon, <1>1, Shape DEF MigInv, MigTypes, OpeningOK
<1>3. CASE /\ Adds(v) \cap applied # {} \/ (database = "billing" /\ v \in versions)
           /\ Fails(p) /\ UNCHANGED <<applied, versions, disturbed>>
  <2>1. v \in versions
    <3>1. Adds(v) \subseteq Statements(v)
      BY Zenon DEF Adds
    <3>2. v \notin versions => Statements(v) \cap applied = {}
      BY Zenon, <1>1, <1>2 DEF MigInv, Attached
    <3> QED BY Zenon, <1>3, <3>1, <3>2
  <2>2. ~Single
    BY Zenon, <1>1, <1>2 DEF SchemaShape
  <2>3. p \in disturbed
    <3>1. versions # 1 .. v - 1
      BY <1>2, <2>1
    <3> QED BY Zenon, <1>1, <2>2, <3>1 DEF MigInv, OpeningOK
  <2> QED BY Zenon, <1>1, <1>3, <2>3, FailStep
<1>4. CASE Applying(p, Statements(v), {v}) /\ Onward(p)
  <2>1. /\ applied' = applied \cup Statements(v) /\ versions' = versions \cup {v}
        /\ disturbed' = disturbed \cup (Opener \ {p})
    BY Zenon, <1>4 DEF Applying
  <2>2. Recorded' /\ versions' \subseteq 1 .. Last
    BY Zenon, <1>1, <2>1, RecordedMore
  <2>3. p \notin disturbed' /\ ~Single => versions' = 1 .. v
    <3>1. ASSUME p \notin disturbed', ~Single PROVE versions' = 1 .. v
      <4>1. versions = 1 .. v - 1
        BY Zenon, <1>1, <2>1, <3>1 DEF MigInv, OpeningOK
      <4> QED BY <1>2, <2>1, <4>1
    <3> QED BY Zenon, <3>1
  <2>4. /\ opener'[p].at \in {"up", "next"} /\ \A q \in Opener \ {p} : opener'[q] = opener[q]
        /\ MigTypes' /\ OpeningOK(p)' /\ OneOpener'
    <3>1. v \in versions' /\ versions \subseteq versions'
      BY Zenon, <2>1
    <3> QED BY Zenon, <1>1, <1>4, <2>2, <2>3, <3>1, OnwardStep
  <2>5. \A q \in Opener \ {p} : OpeningOK(q)'
    <3>1. versions \subseteq versions' /\ applied \subseteq applied' /\ \A q \in Opener \ {p} : q \in disturbed'
      BY Zenon, <2>1
    <3> QED BY Zenon, <1>1, <1>2, <2>2, <2>4, <3>1, Bystander DEF MigInv
  <2>6. ASSUME NEW u \in 1 .. Last, u \notin versions' PROVE Statements(u) \cap applied' \subseteq applied
    <3>1. u # v
      BY Zenon, <2>1, <2>6
    <3>2. Statements(u) \cap Statements(v) = {}
      BY Zenon, <3>1, Apart
    <3> QED BY Zenon, <2>1, <3>2
  <2>7. versions \subseteq versions' /\ \A q \in Opener : opener[q].at = "record" => opener'[q] = opener[q]
    BY Zenon, <1>1, <2>1, <2>4
  <2>8. Attached'
    BY Zenon, <1>1, <2>6, <2>7, StillAttached DEF MigInv
  <2> QED BY Zenon, <2>2, <2>4, <2>5, <2>8 DEF MigInv
<1> QED BY Zenon, <1>3, <1>4 DEF ApplyTx

\* The versions of the billing database that are applied statement by statement.
LEMMA EachStep ==
    ASSUME MigInv, NEW p \in Opener, ApplyEach(p)
    PROVE  MigInv'
<1> DEFINE v == opener[p].version
           k == opener[p].place
           n == Len(Schema[v].stmts)
           a == IF k = n THEN "record" ELSE "each"
<1>1. /\ UNCHANGED <<database, halfway>> /\ opener[p].at \in {"next", "each"} /\ Way(v) = "each" /\ Ahead(p)
      /\ applied' = applied \cup {<<v, k>>} /\ versions' = versions /\ disturbed' = disturbed \cup (Opener \ {p})
      /\ At(p, a, v, k + 1)
  BY Zenon DEF ApplyEach, Way, Ahead, Applying
<1>2. SchemaShape /\ MigTypes /\ v \in 1 .. Last /\ 1 .. v - 1 \subseteq versions /\ v \in Nat
  BY ZenonT(40), <1>1, Shape DEF MigInv, MigTypes, OpeningOK
<1>3. n \in Nat \ {0} /\ k \in 1 .. n /\ \A j \in 1 .. k - 1 : <<v, j>> \in applied
  BY SMTT(30), <1>1, <1>2 DEF SchemaShape, MigInv, OpeningOK
<1>4. a \in {"record", "each"} /\ (a = "record" => k = n) /\ (a = "each" => k < n) /\ k + 1 \in Nat
  BY <1>3
<1>5. \A j \in 1 .. k : <<v, j>> \in applied'
  <2>1. \A j \in 1 .. k : j \in 1 .. k - 1 \/ j = k
    BY <1>3
  <2> QED BY Zenon, <1>1, <1>3, <2>1
<1>6. k = n => Statements(v) \subseteq applied'
  BY Zenon, <1>5 DEF Statements
<1>7. a = "each" => k + 1 \in 1 .. n /\ (k + 1) - 1 = k
  BY <1>3, <1>4
<1> HIDE DEF a
<1>8. /\ opener'[p].at = a /\ opener'[p].version = v /\ opener'[p].place = k + 1
      /\ \A q \in Opener \ {p} : opener'[q] = opener[q]
      /\ MigTypes'
  BY Zenon, <1>1, <1>2, <1>4, Moved
<1>9. p \notin disturbed' /\ ~Single => versions' = 1 .. v - 1
  BY Zenon, <1>1 DEF MigInv, OpeningOK
<1>10. OpeningOK(p)'
  BY ZenonT(40), <1>1, <1>2, <1>4, <1>5, <1>6, <1>7, <1>8, <1>9, Arrived
<1>11. versions \subseteq 1 .. Last /\ applied \subseteq applied'
  BY <1>1, <1>2 DEF MigInv, Recorded, SchemaShape
<1>12. \A q \in Opener \ {p} : OpeningOK(q)'
  BY Zenon, <1>1, <1>2, <1>8, <1>11, Bystander DEF MigInv
<1>13. OneOpener'
  BY Zenon, <1>1, <1>8, StillOne DEF MigInv, Ahead
<1>14. Recorded'
  <2>1. Last' = Last /\ \A u : Statements(u)' = Statements(u)
    BY Zenon, <1>1, SameSchema
  <2> QED BY Zenon, <1>1, <1>11, <2>1 DEF MigInv, Recorded
<1>15. Attached'
  <2>1. ASSUME NEW u \in 1 .. Last, u \notin versions', Way(u) = "tx" \/ Way(u) = "plain"
        PROVE  Statements(u) \cap applied' \subseteq applied
    <3>1. u # v
      BY Zenon, <1>1, <2>1
    <3>2. <<v, k>> \notin Statements(u)
      BY Zenon, <3>1, Apart
    <3> QED BY Zenon, <1>1, <3>2
  <2>2. \A q \in Opener : opener[q].at = "record" => opener'[q] = opener[q]
    BY Zenon, <1>1, <1>8
  <2> QED BY Zenon, <1>1, <2>1, <2>2, StillAttached DEF MigInv
<1> QED BY Zenon, <1>8, <1>10, <1>12, <1>13, <1>14, <1>15 DEF MigInv

\* The statements of the other databases, each a version of its own.
LEMMA PlainStep ==
    ASSUME MigInv, NEW p \in Opener, ApplyPlain(p)
    PROVE  MigInv'
<1> DEFINE v == opener[p].version
<1>1. /\ UNCHANGED <<database, halfway>> /\ opener[p].at = "next" /\ Way(v) = "plain" /\ Ahead(p)
  BY ZenonT(40) DEF ApplyPlain, Way, Ahead
<1>2. SchemaShape /\ MigTypes /\ v \in 1 .. Last /\ 1 .. v - 1 \subseteq versions /\ v \in Nat
      /\ versions \subseteq 1 .. Last
  <2>1. MigTypes /\ Recorded /\ OpeningOK(p)
    BY Zenon DEF MigInv
  <2>2. SchemaShape
    BY Zenon, <2>1, Shape DEF MigTypes
  <2>3. v \in 1 .. Last /\ 1 .. v - 1 \subseteq versions /\ v \in Nat
    BY Zenon, <1>1, <2>1 DEF OpeningOK, MigTypes
  <2>4. versions \subseteq 1 .. Last
    <3>1. PICK m \in 0 .. Last : versions = 1 .. m
      BY Zenon, <2>1 DEF Recorded
    <3>2. Last \in Nat
      BY Zenon, <2>2 DEF SchemaShape
    <3> QED BY SMTT(30), <3>1, <3>2
  <2> QED BY Zenon, <2>1, <2>2, <2>3, <2>4
<1>3. Single
  BY Zenon, <1>1, <1>2 DEF SchemaShape
<1>4. CASE v \in versions /\ Onward(p) /\ UNCHANGED <<applied, versions, disturbed>>
  <2>1. /\ opener'[p].at \in {"up", "next"} /\ \A q \in Opener \ {p} : opener'[q] = opener[q]
        /\ MigTypes' /\ OpeningOK(p)' /\ OneOpener'
    BY Zenon, <1>1, <1>2, <1>3, <1>4, OnwardStep
  <2>2. \A q \in Opener \ {p} : OpeningOK(q)'
    BY Zenon, <1>1, <1>2, <1>4, <2>1, Bystander DEF MigInv
  <2>3. Last' = Last /\ \A u : Statements(u)' = Statements(u)
    BY Zenon, <1>1, SameSchema
  <2>4. Recorded'
    BY Zenon, <1>4, <2>3 DEF MigInv, Recorded
  <2>5. \A q \in Opener : opener[q].at = "record" => opener'[q] = opener[q]
    BY Zenon, <1>1, <2>1
  <2>6. Attached'
    BY Zenon, <1>1, <1>4, <2>5, StillAttached DEF MigInv
  <2> QED BY Zenon, <2>1, <2>2, <2>4, <2>6 DEF MigInv
<1>5. CASE v \notin versions /\ Adds(v) \cap applied # {} /\ Fails(p) /\ UNCHANGED <<applied, versions, disturbed>>
  <2>1. halfway \/ \E q \in Opener : opener[q].at = "record" /\ opener[q].version = v
    BY Zenon, <1>1, <1>2, <1>5 DEF MigInv, Attached
  <2>2. \A q \in Opener : opener[q].at = "record" => q = p
    BY Zenon, <1>1, <1>3 DEF MigInv, OneOpener
  <2>3. halfway
    BY Zenon, <1>1, <2>1, <2>2
  <2>4. database = "registry"
    BY Zenon, <1>2, <1>3, <1>5 DEF SchemaShape, Single
  <2> QED BY Zenon, <1>1, <1>5, <2>3, <2>4, FailStep
<1>6. CASE v \notin versions /\ Adds(v) \cap applied = {} /\ Applying(p, Statements(v), {}) /\ At(p, "record", v, 1)
  <2>1. applied' = applied \cup Statements(v) /\ versions' = versions /\ disturbed' = disturbed \cup (Opener \ {p})
    BY Zenon, <1>6 DEF Applying
  <2>2. /\ opener'[p].at = "record" /\ opener'[p].version = v
        /\ \A q \in Opener \ {p} : opener'[q] = opener[q]
        /\ MigTypes'
    BY Zenon, <1>1, <1>2, <1>6, Moved
  <2>3. OpeningOK(p)'
    BY Zenon, <1>1, <1>2, <1>3, <2>1, <2>2, Arrived
  <2>4. \A q \in Opener \ {p} : OpeningOK(q)'
    <3>1. applied \subseteq applied' /\ disturbed \subseteq disturbed'
      BY Zenon, <2>1
    <3> QED BY Zenon, <1>1, <1>2, <2>1, <2>2, <3>1, Bystander DEF MigInv
  <2>5. OneOpener'
    BY Zenon, <1>1, <2>2, StillOne DEF MigInv
  <2>6. /\ Last' = Last
        /\ \A u : Way(u)' = Way(u) /\ Statements(u)' = Statements(u) /\ Adds(u)' = Adds(u)
    BY Zenon, <1>1, SameSchema
  <2>7. Recorded'
    BY Zenon, <2>1, <2>6 DEF MigInv, Recorded
  <2>8. Attached'
    <3> SUFFICES ASSUME NEW u \in 1 .. Last, u \notin versions
                 PROVE  /\ Way(u) = "tx" => Statements(u) \cap applied' = {}
                        /\ Way(u) = "plain" /\ Adds(u) \cap applied' # {} =>
                              halfway \/ \E q \in Opener : opener'[q].at = "record" /\ opener'[q].version = u
      BY Zenon, <1>1, <2>1, <2>6 DEF Attached
    <3>1. Way(u) # "tx"
      BY Zenon, <1>2, <1>3 DEF SchemaShape
    <3>2. CASE u = v
      BY Zenon, <2>2, <3>1, <3>2
    <3>3. CASE u # v
      <4>1. Adds(u) \cap applied' = Adds(u) \cap applied
        <5>1. Statements(u) \cap Statements(v) = {} /\ Adds(u) \subseteq Statements(u)
          BY Zenon, <3>3, Apart DEF Adds
        <5> QED BY Zenon, <2>1, <5>1
      <4>2. \A q \in Opener : opener[q].at = "record" => opener'[q] = opener[q]
        BY Zenon, <1>1, <2>2
      <4>3. Way(u) = "plain" /\ Adds(u) \cap applied # {} =>
                halfway \/ \E q \in Opener : opener[q].at = "record" /\ opener[q].version = u
        BY Zenon DEF MigInv, Attached
      <4> QED BY Zenon, <3>1, <4>1, <4>2, <4>3
    <3> QED BY Zenon, <3>2, <3>3
  <2> QED BY Zenon, <2>2, <2>3, <2>4, <2>5, <2>7, <2>8 DEF MigInv
<1> QED BY Zenon, <1>4, <1>5, <1>6 DEF ApplyPlain

\* The row of a version whose statements are in.
LEMMA RecordStep ==
    ASSUME MigInv, NEW p \in Opener, RecordVersion(p)
    PROVE  MigInv'
<1> DEFINE v == opener[p].version
<1>1. UNCHANGED <<database, halfway>> /\ opener[p].at = "record" /\ Ahead(p)
  BY Zenon DEF RecordVersion, Ahead
<1>2. SchemaShape /\ MigTypes /\ v \in 1 .. Last /\ 1 .. v - 1 \subseteq versions /\ v \in Nat
      /\ Statements(v) \subseteq applied
  BY Zenon, <1>1, Shape DEF MigInv, MigTypes, OpeningOK
<1>3. CASE database = "billing" /\ v \in versions /\ Fails(p) /\ UNCHANGED <<applied, versions, disturbed>>
  <2>1. ~Single /\ Way(v) # "plain"
    BY Zenon, <1>2, <1>3 DEF SchemaShape, Single
  <2>2. p \in disturbed
    <3>1. versions # 1 .. v - 1
      BY <1>2, <1>3
    <3> QED BY ZenonT(40), <1>1, <2>1, <3>1 DEF MigInv, OpeningOK
  <2> QED BY Zenon, <1>1, <1>3, <2>1, <2>2, FailStep
<1>4. CASE Applying(p, {}, {v}) /\ Onward(p)
  <2>1. /\ applied' = applied /\ versions' = versions \cup {v}
        /\ disturbed' = disturbed \cup (Opener \ {p})
    BY Zenon, <1>4 DEF Applying
  <2>2. Recorded' /\ versions' \subseteq 1 .. Last
    BY Zenon, <1>1, <1>2, <2>1, RecordedMore
  <2>3. p \notin disturbed' /\ ~Single => versions' = 1 .. v
    <3>1. ASSUME p \notin disturbed', ~Single PROVE versions' = 1 .. v
      <4>1. versions = 1 .. v - 1
        BY Zenon, <1>1, <2>1, <3>1 DEF MigInv, OpeningOK
      <4> QED BY <1>2, <2>1, <4>1
    <3> QED BY Zenon, <3>1
  <2>4. versions \subseteq versions' /\ v \in versions' /\ \A q \in Opener \ {p} : q \in disturbed'
    BY Zenon, <2>1
  <2>5. /\ opener'[p].at \in {"up", "next"} /\ \A q \in Opener \ {p} : opener'[q] = opener[q]
        /\ MigTypes' /\ OpeningOK(p)' /\ OneOpener'
    BY Zenon, <1>1, <1>4, <2>2, <2>3, <2>4, OnwardStep
  <2>6. \A q \in Opener \ {p} : OpeningOK(q)'
    BY Zenon, <1>1, <1>2, <2>1, <2>2, <2>4, <2>5, Bystander DEF MigInv
  <2>7. \A u \in 1 .. Last : u \notin versions' =>
            \A q \in Opener : opener[q].version = u => opener'[q] = opener[q]
    BY Zenon, <2>1, <2>5
  <2>8. Attached'
    BY Zenon, <1>1, <2>1, <2>4, <2>7, StillAttached DEF MigInv
  <2> QED BY Zenon, <2>2, <2>5, <2>6, <2>8 DEF MigInv
<1> QED BY Zenon, <1>3, <1>4 DEF RecordVersion

\* A process that ends leaves the database as it is.
LEMMA DieStep ==
    ASSUME MigInv, NEW p \in Opener, Die(p)
    PROVE  MigInv'
<1> DEFINE v == opener[p].version
<1>1. /\ UNCHANGED <<database, applied, versions, disturbed>> /\ opener[p].at # "down" /\ At(p, "down", 0, 1)
      /\ halfway => halfway'
      /\ opener[p].at = "record" /\ Way(v) = "plain" /\ Adds(v) # {} => halfway'
  BY Zenon DEF Die, Way
<1>2. SchemaShape /\ MigTypes /\ versions \subseteq 1 .. Last
  BY <1>1, Shape DEF MigInv, MigTypes, Recorded, SchemaShape
<1>3. /\ opener'[p].at = "down" /\ \A q \in Opener \ {p} : opener'[q] = opener[q]
      /\ MigTypes'
  BY Zenon, <1>1, <1>2, Moved
<1>4. OpeningOK(p)'
  BY Zenon, <1>1, <1>3, Arrived
<1>5. \A q \in Opener \ {p} : OpeningOK(q)'
  BY Zenon, <1>1, <1>2, <1>3, Bystander DEF MigInv
<1>6. OneOpener'
  BY Zenon, <1>1, <1>3, StillOne DEF MigInv
<1>7. Last' = Last /\ \A u : Statements(u)' = Statements(u)
  BY Zenon, <1>1, SameSchema
<1>8. Recorded'
  BY Zenon, <1>1, <1>7 DEF MigInv, Recorded
<1>9. Attached'
  BY Zenon, <1>1, <1>3, StillAttached DEF MigInv
<1> QED BY Zenon, <1>3, <1>4, <1>5, <1>6, <1>8, <1>9 DEF MigInv

\* Whatever processes open a database together and wherever they end (migrate.go), its
\* versions are whole and consecutive, a store that has opened finds all of them, and an
\* opening fails only beside another one, or where the registry was left halfway.
THEOREM SchemaIsWhole == MigrationSpec => []SchemaWhole
<1>1. MigrationInit => MigInv
  <2> SUFFICES ASSUME MigrationInit PROVE MigInv
    OBVIOUS
  <2>1. /\ MigTypes /\ versions = {} /\ applied = {}
        /\ \A p \in Opener : opener[p].at = "down"
    BY Zenon DEF MigrationInit, MigTypes
  <2>2. Recorded
    <3>1. Last \in Nat
      BY Zenon, <2>1, Shape DEF SchemaShape, MigTypes
    <3>2. versions = 1 .. 0 /\ 0 \in 0 .. Last
      BY <2>1, <3>1
    <3> QED BY Zenon, <2>1, <3>2 DEF Recorded
  <2>3. Attached /\ OneOpener
    BY Zenon, <2>1 DEF Attached, OneOpener
  <2>4. \A p \in Opener : OpeningOK(p)
    BY Zenon, <2>1 DEF OpeningOK, Ahead
  <2> QED BY Zenon, <2>1, <2>2, <2>3, <2>4 DEF MigInv
<1>2. MigInv /\ [MigrationNext]_migrationVars => MigInv'
  <2>1. ASSUME MigInv, UNCHANGED migrationVars PROVE MigInv'
    <3>1. UNCHANGED <<database, applied, versions, opener, disturbed, halfway>>
      BY Zenon, <2>1 DEF migrationVars
    <3>2. /\ Schema' = Schema /\ Last' = Last /\ Single' = Single
          /\ \A u : Way(u)' = Way(u) /\ Statements(u)' = Statements(u) /\ Adds(u)' = Adds(u)
      BY Zenon, <3>1, SameSchema
    <3>3. MigTypes' /\ Recorded' /\ OneOpener'
      BY Zenon, <2>1, <3>1, <3>2 DEF MigInv, MigTypes, Recorded, OneOpener
    <3>4. Attached'
      BY Zenon, <2>1, <3>1, StillAttached DEF MigInv
    <3>5. versions \subseteq 1 .. Last
      BY <2>1, Shape DEF MigInv, MigTypes, Recorded, SchemaShape
    <3>6. \A q \in Opener : OpeningOK(q)'
      BY Zenon, <2>1, <3>1, <3>5, Bystander DEF MigInv
    <3> QED BY Zenon, <3>3, <3>4, <3>6 DEF MigInv
  <2> QED BY Zenon, <2>1, OpenStep, TxStep, EachStep, PlainStep, RecordStep, DieStep DEF MigrationNext
<1>3. MigInv => SchemaWhole
  <2> SUFFICES ASSUME MigInv PROVE SchemaWhole
    OBVIOUS
  <2>1. PICK m \in 0 .. Last : versions = 1 .. m
    BY Zenon DEF MigInv, Recorded
  <2>2. Last \in Nat
    BY Zenon, Shape DEF SchemaShape, MigInv, MigTypes
  <2>3. \A v \in versions : 1 .. v \subseteq versions
    BY <2>1, <2>2
  <2>4. \A v \in versions : Statements(v) \subseteq applied
    BY Zenon DEF MigInv, Recorded
  <2>5. \A p \in Opener : /\ opener[p].at = "up" => versions = 1 .. Len(Schema)
                          /\ opener[p].at = "failed" => p \in disturbed \/ (halfway /\ database = "registry")
    BY Zenon DEF MigInv, OpeningOK, Last
  <2> QED BY Zenon, <2>3, <2>4, <2>5 DEF SchemaWhole
<1> QED BY <1>1, <1>2, <1>3, PTL DEF MigrationSpec

-----------------------------------------------------------------------------
\* What the billing database holds can be relied on (pkg/billing/store.go): a lost row of
\* the audit log is noticed, and the schema is whole.
THEOREM RecordsAreSound == ChainSpec /\ MigrationSpec => []RecordsSound
<1>1. ChainTrusted /\ SchemaWhole => RecordsSound
  BY Zenon DEF RecordsSound
<1> QED
  BY <1>1, ChainIsTrusted, SchemaIsWhole, PTL

-----------------------------------------------------------------------------
(***************************************************************************)
(* Signups: what is kept of one agrees with the steps its handler has      *)
(* taken, and a bill that is not open has been paid.                       *)
(***************************************************************************)
Account == [billing : {"active", "incomplete", "past_due"}, status : {"active", "suspended"}]

SignupTypes ==
    /\ SignupTypeOK
    /\ \A a \in Access : \A s, t \in uses[a].key : s = t
    /\ \A h \in hook : h.tenant \in DOMAIN accounts /\ h.account \in Account

\* The handler has an account behind it once PutTenant succeeded, and not before.
StepsKept(s) ==
    /\ signups[s].at \in {"new", "refused", "checkout", "tenant"} => s \notin DOMAIN accounts
    /\ signups[s].at \in {"key", "created"} => s \in DOMAIN accounts
    /\ signups[s].at = "created" => apiKeys[s] # "none"

\* Only the webhook of a completed checkout ends the wait for a payment.
PaidFirst ==
    /\ \A h \in hook : h.tenant \in paidUp
    /\ \A s \in PaidSignup \cap DOMAIN accounts : accounts[s].billing # "incomplete" => s \in paidUp
    /\ \A a \in Access : uses[a].at = "served" => uses[a].key \cap PaidSignup \subseteq paidUp

\* What a signup saw has no account of its address.
OneEach ==
    /\ \A s \in Signup : signups[s].at \in {"checkout", "tenant"} =>
          \A t \in signups[s].saw : SignupEmail[t] # SignupEmail[s]
    /\ \A s, t \in DOMAIN accounts : SignupEmail[s] = SignupEmail[t] => s = t

SignupInv ==
    /\ SignupTypes
    /\ \A s \in Signup : StepsKept(s)
    /\ PaidFirst
    /\ ~crossed => OneEach

\* What the parts of the invariant depend on.
LEMMA PaidFrame ==
    ASSUME PaidFirst, UNCHANGED <<accounts, uses, hook, paidUp>>
    PROVE  PaidFirst'
BY Zenon DEF PaidFirst

\* The accounts and the signups under way.
LEMMA OneFrame ==
    ASSUME OneEach, UNCHANGED <<signups, accounts>>
    PROVE  OneEach'
BY Zenon DEF OneEach

\* The accounts, their keys and the signups.
LEMMA KeptFrame ==
    ASSUME \A s \in Signup : StepsKept(s), UNCHANGED <<signups, accounts, apiKeys>>
    PROVE  \A s \in Signup : StepsKept(s)'
BY Zenon DEF StepsKept

\* The steps of signupHandler keep the invariant.
LEMMA SignupStep ==
    ASSUME SignupInv, NEW s \in Signup,
           LookUpEmail(s) \/ CreateCheckout(s) \/ PutTenant(s) \/ PutAPIKey(s)
    PROVE  SignupInv'
<1>1. CASE LookUpEmail(s)
  <2>1. SignupTypes'
    BY SMTT(30), <1>1 DEF LookUpEmail, SignupInv, SignupTypes, SignupTypeOK
  <2>2. \A t \in Signup : StepsKept(t)'
    BY <1>1 DEF LookUpEmail, SignupInv, SignupTypes, SignupTypeOK, StepsKept
  <2>3. PaidFirst'
    BY Zenon, <1>1, PaidFrame DEF LookUpEmail, SignupInv
  <2>4. ~crossed' => OneEach'
    <3> SUFFICES ASSUME ~crossed' PROVE OneEach'
      OBVIOUS
    <3>1. OneEach /\ accounts' = accounts
      BY Zenon, <1>1 DEF LookUpEmail, SignupInv
    <3>2. \/ signups' = [signups EXCEPT ![s].at = "refused"]
          \/ /\ GetTenantByEmail(SignupEmail[s]) = {}
             /\ signups' = [signups EXCEPT ![s] =
                   [at |-> IF s \in PaidSignup THEN "checkout" ELSE "tenant",
                    saw |-> DOMAIN accounts]]
      BY Zenon, <1>1 DEF LookUpEmail
    <3> QED BY <3>1, <3>2 DEF SignupInv, SignupTypes, SignupTypeOK, OneEach, GetTenantByEmail
  <2> QED BY Zenon, <2>1, <2>2, <2>3, <2>4 DEF SignupInv
<1>2. CASE CreateCheckout(s)
  <2>1. SignupTypes'
    BY <1>2 DEF CreateCheckout, SignupInv, SignupTypes, SignupTypeOK
  <2>2. \A t \in Signup : StepsKept(t)'
    BY <1>2 DEF CreateCheckout, SignupInv, SignupTypes, SignupTypeOK, StepsKept
  <2>3. PaidFirst'
    BY Zenon, <1>2, PaidFrame DEF CreateCheckout, SignupInv
  <2>4. ~crossed' => OneEach'
    <3> SUFFICES ASSUME ~crossed' PROVE OneEach'
      OBVIOUS
    <3>1. OneEach /\ accounts' = accounts
      BY Zenon, <1>2 DEF CreateCheckout, SignupInv
    <3> QED BY <1>2, <3>1 DEF CreateCheckout, SignupInv, SignupTypes, SignupTypeOK, OneEach
  <2> QED BY Zenon, <2>1, <2>2, <2>3, <2>4 DEF SignupInv
<1>3. CASE PutTenant(s)
  <2>1. SignupTypes'
    <3>1. /\ \/ signups' = [signups EXCEPT ![s].at = "key"]
             \/ signups' = [signups EXCEPT ![s].at = "failed"]
          /\ UNCHANGED <<apiKeys, uses, hook, paidUp>>
      BY Zenon, <1>3 DEF PutTenant
    <3>2. crossed' \in BOOLEAN
      BY Zenon, <1>3 DEF PutTenant, SignupInv, SignupTypes, SignupTypeOK
    <3>3. NewAccount(s) \in Account
      BY Zenon DEF NewAccount, Account
    <3>4. /\ DOMAIN accounts \subseteq DOMAIN accounts'
          /\ DOMAIN accounts' \subseteq DOMAIN accounts \cup {s}
          /\ \A t \in DOMAIN accounts' :
                accounts'[t] = NewAccount(s) \/ (t \in DOMAIN accounts /\ accounts'[t] = accounts[t])
      BY Zenon, <1>3 DEF PutTenant
    <3>5. signups' \in [Signup -> [at : {"new", "checkout", "tenant", "key", "created", "refused", "failed"},
                                   saw : SUBSET Signup]]
      BY <3>1 DEF SignupInv, SignupTypes, SignupTypeOK
    <3>6. DOMAIN accounts' \subseteq Signup /\ \A t \in DOMAIN accounts' : accounts'[t] \in Account
      BY Zenon, <3>3, <3>4 DEF SignupInv, SignupTypes, SignupTypeOK, Account
    <3> QED BY ZenonT(40), <3>1, <3>2, <3>4, <3>5, <3>6 DEF SignupInv, SignupTypes, SignupTypeOK, Account
  <2>2. \A t \in Signup : StepsKept(t)'
    BY <1>3 DEF PutTenant, SignupInv, SignupTypes, SignupTypeOK, StepsKept
  <2>3. PaidFirst'
    BY <1>3 DEF PutTenant, NewAccount, SignupInv, SignupTypes, SignupTypeOK, PaidFirst
  <2>4. ~crossed' => OneEach'
    <3> SUFFICES ASSUME ~crossed' PROVE OneEach'
      OBVIOUS
    <3>1. OneEach
      BY Zenon, <1>3 DEF PutTenant, SignupInv
    <3>2. \/ /\ DOMAIN accounts' = DOMAIN accounts \cup {s}
             /\ signups' = [signups EXCEPT ![s].at = "key"]
             /\ signups[s].saw = DOMAIN accounts
          \/ accounts' = accounts /\ signups' = [signups EXCEPT ![s].at = "failed"]
      BY Zenon, <1>3 DEF PutTenant
    <3>3. signups[s].at = "tenant"
      BY Zenon, <1>3 DEF PutTenant
    <3>4. SignupTypeOK
      BY Zenon DEF SignupInv, SignupTypes
    <3>5. \A t \in Signup : signups'[t].at \in {"checkout", "tenant"} =>
             signups'[t].saw = signups[t].saw /\ signups[t].at \in {"checkout", "tenant"}
      BY <3>2, <3>4 DEF SignupTypeOK
    <3>6. \A t \in DOMAIN accounts' : t \in DOMAIN accounts \/ (t = s /\ signups[s].saw = DOMAIN accounts)
      BY Zenon, <3>2
    <3> QED BY Zenon, <3>1, <3>3, <3>5, <3>6 DEF OneEach
  <2> QED BY Zenon, <2>1, <2>2, <2>3, <2>4 DEF SignupInv
<1>4. CASE PutAPIKey(s)
  <2>1. SignupTypes'
    <3>1. /\ signups' = [signups EXCEPT ![s].at = "created"]
                 \/ signups' = [signups EXCEPT ![s].at = "failed"]
          /\ apiKeys' = apiKeys \/ apiKeys' = [apiKeys EXCEPT ![s] = "valid"]
          /\ UNCHANGED <<accounts, uses, hook, paidUp, crossed>>
      BY Zenon, <1>4 DEF PutAPIKey
    <3> QED BY <3>1 DEF SignupInv, SignupTypes, SignupTypeOK
  <2>2. \A t \in Signup : StepsKept(t)'
    BY <1>4 DEF PutAPIKey, SignupInv, SignupTypes, SignupTypeOK, StepsKept
  <2>3. PaidFirst'
    BY Zenon, <1>4, PaidFrame DEF PutAPIKey, SignupInv
  <2>4. ~crossed' => OneEach'
    <3> SUFFICES ASSUME ~crossed' PROVE OneEach'
      OBVIOUS
    <3>1. OneEach /\ accounts' = accounts
      BY Zenon, <1>4 DEF PutAPIKey, SignupInv
    <3> QED BY <1>4, <3>1 DEF PutAPIKey, SignupInv, SignupTypes, SignupTypeOK, OneEach
  <2> QED BY Zenon, <2>1, <2>2, <2>3, <2>4 DEF SignupInv
<1> QED BY Zenon, <1>1, <1>2, <1>3, <1>4

\* So does the use of a key.
LEMMA UseStep ==
    ASSUME SignupInv, NEW a \in Access,
           Gate(a) \/ \E s \in Signup : ReadKey(a, s)
    PROVE  SignupInv'
<1>1. UNCHANGED <<signups, accounts, apiKeys, hook, paidUp, crossed>>
  BY Zenon DEF Gate, ReadKey
<1>2. (\A t \in Signup : StepsKept(t)') /\ (~crossed' => OneEach')
  BY Zenon, <1>1, KeptFrame, OneFrame DEF SignupInv
<1>3. CASE Gate(a)
  <2>1. PICK answer \in {"refused"} \cup {Verdict(accounts[s]) : s \in uses[a].key \cap DOMAIN accounts} :
             uses' = [uses EXCEPT ![a].at = answer]
    BY Zenon, <1>3 DEF Gate
  <2>2. answer \in {"refused", "unpaid", "suspended", "served"}
    BY Zenon, <2>1 DEF Verdict
  <2>3. SignupTypes'
    BY <1>1, <2>1, <2>2 DEF SignupInv, SignupTypes, SignupTypeOK
  <2>4. ASSUME answer = "served"
        PROVE  uses[a].key \cap PaidSignup \subseteq paidUp
    <3>1. PICK s \in uses[a].key \cap DOMAIN accounts : Verdict(accounts[s]) = "served"
      BY Zenon, <2>1, <2>4
    <3>2. accounts[s].billing = "active"
      BY Zenon, <3>1 DEF Verdict, SignupInv, SignupTypes, SignupTypeOK
    <3>3. s \in PaidSignup => s \in paidUp
      BY Zenon, <3>1, <3>2 DEF SignupInv, PaidFirst
    <3> QED BY Zenon, <3>1, <3>3 DEF SignupInv, SignupTypes
  <2>5. PaidFirst'
    BY <1>1, <2>1, <2>4 DEF SignupInv, SignupTypes, SignupTypeOK, PaidFirst
  <2> QED BY Zenon, <1>2, <2>3, <2>5 DEF SignupInv
<1>4. ASSUME NEW s \in Signup, ReadKey(a, s)
      PROVE  SignupInv'
  <2>1. SignupTypes'
    BY <1>1, <1>4 DEF ReadKey, SignupInv, SignupTypes, SignupTypeOK
  <2>2. PaidFirst'
    BY Zenon, <1>1, <1>4 DEF ReadKey, SignupInv, SignupTypes, SignupTypeOK, PaidFirst
  <2> QED BY ZenonT(40), <1>2, <2>1, <2>2 DEF SignupInv
<1> QED BY Zenon, <1>3, <1>4

\* And what administrators and webhooks do with the account.
LEMMA AdminStep ==
    ASSUME SignupInv,
           \/ \E s \in Signup : RevokeKey(s) \/ Suspend(s) \/ HookReads(s)
           \/ \E h \in hook : HookWrites(h)
           \/ UNCHANGED signupVars
    PROVE  SignupInv'
<1>1. UNCHANGED <<signups, uses, crossed>>
  BY Zenon DEF RevokeKey, Suspend, HookReads, HookWrites, signupVars
<1>2. ASSUME NEW s \in Signup, RevokeKey(s)
      PROVE  SignupInv'
  <2>1. SignupTypes' /\ \A t \in Signup : StepsKept(t)'
    BY Zenon, <1>1, <1>2 DEF RevokeKey, SignupInv, SignupTypes, SignupTypeOK, StepsKept
  <2>2. PaidFirst' /\ (~crossed' => OneEach')
    <3>1. UNCHANGED <<accounts, hook, paidUp>>
      BY Zenon, <1>2 DEF RevokeKey
    <3> QED BY Zenon, <1>1, <3>1, PaidFrame, OneFrame DEF SignupInv
  <2> QED BY Zenon, <2>1, <2>2 DEF SignupInv
<1>3. ASSUME NEW s \in Signup, Suspend(s)
      PROVE  SignupInv'
  <2>1. SignupTypes' /\ \A t \in Signup : StepsKept(t)'
    BY Zenon, <1>1, <1>3 DEF Suspend, SignupInv, SignupTypes, SignupTypeOK, StepsKept
  <2>2. PaidFirst' /\ (~crossed' => OneEach')
    <3>1. DOMAIN accounts' = DOMAIN accounts /\ UNCHANGED <<hook, paidUp>>
      BY Zenon, <1>3 DEF Suspend
    <3>2. \A t \in DOMAIN accounts : accounts'[t].billing = accounts[t].billing
      BY Zenon, <1>3 DEF Suspend, SignupInv, SignupTypes, SignupTypeOK
    <3> QED BY Zenon, <1>1, <3>1, <3>2 DEF SignupInv, PaidFirst, OneEach
  <2> QED BY Zenon, <2>1, <2>2 DEF SignupInv
<1>4. ASSUME NEW s \in Signup, HookReads(s)
      PROVE  SignupInv'
  <2>1. PICK from \in {"incomplete", "active"} :
             hook' = {[tenant |-> s, account |-> [accounts[s] EXCEPT !.billing =
                          IF from = "active" THEN "past_due" ELSE "active"]]}
    BY Zenon, <1>4 DEF HookReads
  <2>2. s \in DOMAIN accounts /\ paidUp' = paidUp \cup {s} /\ UNCHANGED <<accounts, apiKeys>>
    BY Zenon, <1>4 DEF HookReads
  <2>3. [accounts[s] EXCEPT !.billing = IF from = "active" THEN "past_due" ELSE "active"] \in Account
    BY Zenon, <2>2 DEF SignupInv, SignupTypes, SignupTypeOK, Account
  <2>4. SignupTypes'
    BY <1>1, <2>1, <2>2, <2>3 DEF SignupInv, SignupTypes, SignupTypeOK
  <2>5. PaidFirst'
    BY <1>1, <2>1, <2>2 DEF SignupInv, PaidFirst
  <2>6. (\A t \in Signup : StepsKept(t)') /\ (~crossed' => OneEach')
    BY Zenon, <1>1, <2>2, KeptFrame, OneFrame DEF SignupInv
  <2> QED BY Zenon, <2>4, <2>5, <2>6 DEF SignupInv
<1>5. ASSUME NEW h \in hook, HookWrites(h)
      PROVE  SignupInv'
  <2>1. h.tenant \in DOMAIN accounts /\ h.account \in Account /\ h.tenant \in paidUp
    BY Zenon, <1>5 DEF SignupInv, SignupTypes, PaidFirst
  <2>2. accounts' = [accounts EXCEPT ![h.tenant] = h.account] /\ hook' = {} /\ UNCHANGED <<apiKeys, paidUp>>
    BY Zenon, <1>5 DEF HookWrites
  <2>3. SignupTypes' /\ \A t \in Signup : StepsKept(t)'
    BY Zenon, <1>1, <2>1, <2>2 DEF SignupInv, SignupTypes, SignupTypeOK, StepsKept, Account
  <2>4. PaidFirst' /\ (~crossed' => OneEach')
    BY Zenon, <1>1, <2>1, <2>2 DEF SignupInv, PaidFirst, OneEach
  <2> QED BY Zenon, <2>3, <2>4 DEF SignupInv
<1>6. CASE UNCHANGED signupVars
  BY Zenon, <1>6 DEF signupVars, SignupInv, SignupTypes, SignupTypeOK, StepsKept, PaidFirst, OneEach
<1> QED BY Zenon, <1>2, <1>3, <1>4, <1>5, <1>6

\* The invariant holds at first.
LEMMA SignupStarts == ASSUME SignupInit PROVE SignupInv
<1>1. DOMAIN accounts = {}
  BY DEF SignupInit
<1>2. SignupTypes
  BY Zenon, <1>1 DEF SignupInit, SignupTypes, SignupTypeOK
<1>3. (\A s \in Signup : StepsKept(s)) /\ PaidFirst
  BY Zenon, <1>1 DEF SignupInit, StepsKept, PaidFirst
<1>4. OneEach
  BY Zenon, <1>1 DEF SignupInit, OneEach
<1> QED BY Zenon, <1>2, <1>3, <1>4 DEF SignupInv

\* What a signup was answered has an account behind it, the key of a paid plan waits
\* for the checkout, and an address has one account unless signups cross.
THEOREM AccountsAreSound == SignupSpec => [](SignupTypeOK /\ AccountsSound)
<1>1. SignupInit => SignupInv
  BY Zenon, SignupStarts
<1>2. SignupInv /\ [SignupNext]_signupVars => SignupInv'
  BY Zenon, SignupStep, UseStep, AdminStep DEF SignupNext
<1>3. SignupInv => SignupTypeOK /\ AccountsSound
  BY Zenon DEF SignupInv, SignupTypes, StepsKept, PaidFirst, OneEach, AccountsSound
<1> QED BY <1>1, <1>2, <1>3, PTL DEF SignupSpec

-----------------------------------------------------------------------------
(***************************************************************************)
(* Links: a link whose row is gone and that was not read twice is in the   *)
(* hands of one visit.                                                     *)
(***************************************************************************)
\* Visits that read a row, and those that have then got past the DELETE.
HasRead(v) == visits[v].at \in {"read", "mark", "verified", "failed"}
HasSpent(v) == visits[v].at \in {"mark", "verified", "failed"}

MailTypes ==
    /\ linksMade \in Nat /\ \A l \in links : l.n \in 1 .. linksMade
    /\ visits \in [Visit -> [at : {"new", "read", "expired", "mark", "verified", "refused",
                                   "failed"}, link : Nat]]
    /\ \A v \in Visit : visits[v].link <= linksMade
    /\ verified \in BOOLEAN /\ mailing \in Nat /\ copy \subseteq BOOLEAN

LinksSpent ==
    /\ \A v, w \in Visit : HasRead(v) /\ HasRead(w) /\ visits[v].link = visits[w].link =>
          v = w \/ visits[v].link \in reused
    /\ \A v \in Visit : HasSpent(v) =>
          visits[v].link \in reused \/ \A l \in links : l.n # visits[v].link
    /\ \A v \in Visit : visits[v].at = "verified" => verified

\* The limiter has an entry no older than the last link, or that link is long past.
ResendsApart ==
    /\ minute \in 0 .. MaxMinute /\ lastResend \subseteq 0 .. minute
    /\ resent \in Seq(0 .. minute)
    /\ \A i \in DOMAIN resent :
          /\ lastResend = {} => minute - resent[i] >= ResendWindow
          /\ \A t \in lastResend : resent[i] <= t
    /\ \A i, j \in DOMAIN resent : i < j => resent[j] - resent[i] >= ResendWindow

MailInv == MailTypes /\ LinksSpent /\ ResendsApart

\* What the parts depend on.
LEMMA SpentFrame ==
    ASSUME LinksSpent, UNCHANGED <<visits, links, reused, verified>>
    PROVE  LinksSpent'
BY Zenon DEF LinksSpent, HasRead, HasSpent

\* The limiter of resends and the links it has let through.
LEMMA ApartFrame ==
    ASSUME ResendsApart, UNCHANGED <<minute, lastResend, resent>>
    PROVE  ResendsApart'
BY Zenon DEF ResendsApart

\* A new link is nobody's yet.
LEMMA SendStep ==
    ASSUME MailInv, sendVerificationEmail
    PROVE  MailInv'
<1>1. UNCHANGED <<verified, visits, copy, lastResend, minute, resent, reused>>
  BY Zenon DEF sendVerificationEmail
<1>2. mailing > 0 /\ mailing' = mailing - 1
  BY Zenon DEF sendVerificationEmail
<1>3. \/ /\ linksMade' = linksMade + 1
         /\ \A l \in links' : l \in links \/ l.n = linksMade + 1
      \/ UNCHANGED <<linksMade, links>>
  BY DEF sendVerificationEmail
<1>4. MailTypes'
  BY <1>1, <1>2, <1>3 DEF MailInv, MailTypes
<1>5. \A v \in Visit : \A l \in links' : l \in links \/ l.n # visits[v].link
  BY <1>3 DEF MailInv, MailTypes
<1>6. LinksSpent'
  BY Zenon, <1>1, <1>5 DEF MailInv, LinksSpent, HasRead, HasSpent
<1> QED BY Zenon, <1>1, <1>4, <1>6, ApartFrame DEF MailInv

\* A visit that reads a link reads one that no visit has spent.
LEMMA OpenLinkStep ==
    ASSUME MailInv, NEW v \in Visit, NEW n \in 1 .. linksMade, OpenLink(v, n)
    PROVE  MailInv'
<1>1. UNCHANGED <<verified, mailing, links, linksMade, copy, lastResend, minute, resent>>
  BY Zenon DEF OpenLink
<1>2. PICK result \in {"refused", "expired", "read"} :
         /\ visits' = [visits EXCEPT ![v] = [at |-> result, link |-> n]]
         /\ result # "refused" => \E l \in links : l.n = n
  BY Zenon DEF OpenLink
<1>3. reused \subseteq reused' /\ \A u \in Visit : visits[u].link = n /\ visits[u].at = "read" => n \in reused'
  BY Zenon DEF OpenLink
<1>4. MailTypes'
  BY <1>1, <1>2 DEF MailInv, MailTypes
<1>5. /\ visits'[v].at = result /\ visits'[v].link = n
      /\ \A w \in Visit \ {v} : visits'[w] = visits[w]
  BY Zenon, <1>2 DEF MailInv, MailTypes
<1>6. ASSUME NEW w \in Visit \ {v}, HasRead(w), visits[w].link = n, result # "refused"
      PROVE  n \in reused'
  BY Zenon, <1>2, <1>3, <1>6 DEF MailInv, LinksSpent, HasRead, HasSpent
<1>7. HasRead(v)' => result # "refused"
  BY Zenon, <1>5 DEF HasRead
<1>8. \A w \in Visit \ {v} : (HasRead(w)' <=> HasRead(w)) /\ (HasSpent(w)' <=> HasSpent(w))
  BY Zenon, <1>5 DEF HasRead, HasSpent
<1>9. ~HasSpent(v)' /\ visits'[v].at # "verified"
  BY Zenon, <1>5 DEF HasSpent
<1>10. ASSUME NEW w \in Visit, NEW u \in Visit, HasRead(w)', HasRead(u)', visits'[w].link = visits'[u].link
       PROVE  w = u \/ visits'[w].link \in reused'
  <2>1. CASE w # v /\ u # v
    BY Zenon, <1>3, <1>5, <1>8, <1>10, <2>1 DEF MailInv, LinksSpent
  <2>2. CASE w = v /\ u # v
    BY Zenon, <1>5, <1>6, <1>7, <1>8, <1>10, <2>2
  <2>3. CASE u = v /\ w # v
    BY Zenon, <1>5, <1>6, <1>7, <1>8, <1>10, <2>3
  <2> QED BY Zenon, <2>1, <2>2, <2>3
<1>11. LinksSpent'
  BY Zenon, <1>1, <1>3, <1>5, <1>8, <1>9, <1>10 DEF MailInv, LinksSpent
<1> QED BY Zenon, <1>1, <1>4, <1>11, ApartFrame DEF MailInv

\* The DELETE leaves no row, or is counted among the failed ones.
LEMMA DeleteStep ==
    ASSUME MailInv, NEW v \in Visit, DeleteLink(v)
    PROVE  MailInv'
<1>1. UNCHANGED <<verified, mailing, linksMade, copy, lastResend, minute, resent>>
  BY Zenon DEF DeleteLink
<1>2. /\ visits[v].at \in {"read", "expired"}
      /\ visits' = [visits EXCEPT ![v].at = IF visits[v].at = "read" THEN "mark" ELSE "refused"]
  BY Zenon DEF DeleteLink, MailInv, MailTypes
<1>3. /\ links' \subseteq links /\ reused \subseteq reused'
      /\ visits[v].link \in reused' \/ \A l \in links' : l.n # visits[v].link
  BY Zenon DEF DeleteLink
<1>4. MailTypes'
  BY Zenon, <1>1, <1>2, <1>3 DEF MailInv, MailTypes
<1>5. /\ \A w \in Visit : visits'[w].link = visits[w].link
      /\ \A w \in Visit \ {v} : visits'[w] = visits[w]
      /\ visits'[v].at # "verified" /\ (HasRead(v)' => HasRead(v))
  BY Zenon, <1>2 DEF MailInv, MailTypes, HasRead
<1>6. \A w \in Visit \ {v} : (HasRead(w)' <=> HasRead(w)) /\ (HasSpent(w)' <=> HasSpent(w))
  BY Zenon, <1>5 DEF HasRead, HasSpent
<1>7. \A w \in Visit : HasRead(w)' => HasRead(w)
  BY Zenon, <1>5, <1>6
<1>8. \A w \in Visit : HasSpent(w)' => visits'[w].link \in reused' \/ \A l \in links' : l.n # visits'[w].link
  BY Zenon, <1>3, <1>5, <1>6 DEF MailInv, LinksSpent
<1>9. LinksSpent'
  BY Zenon, <1>1, <1>3, <1>5, <1>7, <1>8 DEF MailInv, LinksSpent
<1> QED BY Zenon, <1>1, <1>4, <1>9, ApartFrame DEF MailInv

\* What a visit has verified stays so.
LEMMA MarkStep ==
    ASSUME MailInv, NEW v \in Visit, MarkVerified(v)
    PROVE  MailInv'
<1>1. UNCHANGED <<mailing, links, linksMade, copy, lastResend, minute, resent, reused>>
  BY Zenon DEF MarkVerified
<1>2. /\ visits[v].at = "mark"
      /\ \/ visits' = [visits EXCEPT ![v].at = "verified"] /\ verified' = TRUE
         \/ visits' = [visits EXCEPT ![v].at = "failed"] /\ verified' = verified
  BY Zenon DEF MarkVerified
<1>3. MailTypes'
  BY Zenon, <1>1, <1>2 DEF MailInv, MailTypes
<1>4. \A w \in Visit : visits'[w].link = visits[w].link
  BY <1>2 DEF MailInv, MailTypes
<1>5. \A w \in Visit : (HasRead(w)' <=> HasRead(w)) /\ (HasSpent(w)' <=> HasSpent(w))
  BY Zenon, <1>2 DEF MailInv, MailTypes, HasRead, HasSpent
<1>6. \A w \in Visit : visits'[w].at = "verified" => visits[w].at = "verified" \/ verified' = TRUE
  BY Zenon, <1>2 DEF MailInv, MailTypes
<1>7. verified => verified'
  BY Zenon, <1>2
<1>8. LinksSpent'
  BY Zenon, <1>1, <1>4, <1>5, <1>6, <1>7 DEF MailInv, LinksSpent
<1> QED BY Zenon, <1>1, <1>3, <1>8, ApartFrame DEF MailInv

\* The limiter admits a resend when the last is a window ago, and forgets it no earlier.
LEMMA ResendStep ==
    ASSUME MailInv, Resend \/ Prune \/ MinutePasses
    PROVE  MailInv'
<1> USE MailAssumption
<1>1. UNCHANGED <<verified, links, linksMade, visits, copy, reused>>
  BY Zenon DEF Resend, Prune, MinutePasses
<1>2. mailing' = mailing \/ mailing' = mailing + 1
  BY Zenon DEF Resend, Prune, MinutePasses
<1>3. MailTypes'
  BY <1>1, <1>2 DEF MailInv, MailTypes
<1>4. CASE Resend
  <2>1. /\ minute' = minute /\ lastResend' = {minute}
        /\ \A t \in lastResend : minute - t >= ResendWindow
        /\ resent' = resent \/ resent' = Append(resent, minute)
    BY Zenon, <1>4 DEF Resend, ResendAllowed
  <2>2. minute \in Nat /\ resent \in Seq(0 .. minute) /\ lastResend \subseteq 0 .. minute
    BY DEF MailInv, ResendsApart
  <2>3. \A i \in DOMAIN resent : resent[i] \in 0 .. minute
    BY <2>2
  <2>4. \A i \in DOMAIN resent : minute - resent[i] >= ResendWindow
    <3> SUFFICES ASSUME NEW i \in DOMAIN resent PROVE minute - resent[i] >= ResendWindow
      OBVIOUS
    <3>1. CASE lastResend = {}
      BY Zenon, <3>1 DEF MailInv, ResendsApart
    <3>2. ASSUME NEW t \in lastResend PROVE minute - resent[i] >= ResendWindow
      <4>1. resent[i] <= t /\ minute - t >= ResendWindow
        BY Zenon, <3>2, <2>1 DEF MailInv, ResendsApart
      <4> QED BY <2>2, <2>3, <3>2, <4>1
    <3> QED BY Zenon, <3>1, <3>2
  <2>5. \A i, j \in DOMAIN resent : i < j => resent[j] - resent[i] >= ResendWindow
    BY Zenon DEF MailInv, ResendsApart
  <2>6. ASSUME resent' = resent PROVE ResendsApart'
    BY <2>1, <2>2, <2>3, <2>5, <2>6 DEF MailInv, ResendsApart
  <2>7. ASSUME resent' = Append(resent, minute) PROVE ResendsApart'
    <3>1. /\ resent' \in Seq(0 .. minute) /\ DOMAIN resent' = 1 .. Len(resent) + 1
          /\ DOMAIN resent = 1 .. Len(resent) /\ Len(resent) \in Nat
          /\ resent'[Len(resent) + 1] = minute
          /\ \A i \in DOMAIN resent : resent'[i] = resent[i]
      BY <2>2, <2>7
    <3>2. \A i \in DOMAIN resent' : resent'[i] <= minute
      BY <2>2, <2>3, <3>1
    <3>3. \A i, j \in DOMAIN resent' : i < j => resent'[j] - resent'[i] >= ResendWindow
      <4> SUFFICES ASSUME NEW i \in DOMAIN resent', NEW j \in DOMAIN resent', i < j
                   PROVE  resent'[j] - resent'[i] >= ResendWindow
        BY Zenon
      <4>1. i \in DOMAIN resent /\ (j \in DOMAIN resent \/ j = Len(resent) + 1)
        BY <3>1
      <4> QED BY Zenon, <2>4, <2>5, <3>1, <4>1
    <3> QED BY <2>1, <2>2, <3>1, <3>2, <3>3 DEF MailInv, ResendsApart
  <2> QED BY Zenon, <1>1, <1>3, <2>1, <2>6, <2>7, SpentFrame DEF MailInv
<1>5. CASE Prune
  <2>1. /\ minute' = minute /\ resent' = resent /\ lastResend' = {}
        /\ \E t \in lastResend : minute - t > ResendWindow
    BY Zenon, <1>5 DEF Prune
  <2>2. ResendsApart'
    BY <2>1 DEF MailInv, ResendsApart
  <2> QED BY Zenon, <1>1, <1>3, <2>2, SpentFrame DEF MailInv
<1>6. CASE MinutePasses
  <2>1. minute < MaxMinute /\ minute' = minute + 1 /\ UNCHANGED <<resent, lastResend>>
    BY Zenon, <1>6 DEF MinutePasses
  <2>2. ResendsApart'
    BY <2>1 DEF MailInv, ResendsApart
  <2> QED BY Zenon, <1>1, <1>3, <2>2, SpentFrame DEF MailInv
<1> QED BY Zenon, <1>4, <1>5, <1>6

\* A webhook writes a column the verification does not use.
LEMMA HookStep ==
    ASSUME MailInv, HookReadsTenant \/ HookWritesTenant \/ UNCHANGED mailVars
    PROVE  MailInv'
<1>1. UNCHANGED <<verified, mailing, links, linksMade, visits, lastResend, minute, resent, reused>>
  BY Zenon DEF HookReadsTenant, HookWritesTenant, mailVars
<1>2. copy' = copy \/ copy' = {} \/ copy' = {verified}
  BY Zenon DEF HookReadsTenant, HookWritesTenant, mailVars
<1>3. MailTypes'
  BY Zenon, <1>1, <1>2 DEF MailInv, MailTypes
<1> QED BY Zenon, <1>1, <1>3, SpentFrame, ApartFrame DEF MailInv

\* A link verifies once, what it verified stays so, and links are sent again no
\* oftener than once in a window.
THEOREM LinksWorkOnce == MailSpec => [](MailTypeOK /\ LinksOnce)
<1>1. MailInit => MailInv
  <2> SUFFICES ASSUME MailInit PROVE MailInv
    OBVIOUS
  <2>1. MailTypes
    <3>1. verified \in BOOLEAN /\ copy \subseteq BOOLEAN
      BY Zenon DEF MailInit
    <3> QED BY <3>1 DEF MailInit, MailTypes
  <2>3. LinksSpent
    BY Zenon DEF MailInit, LinksSpent, HasRead, HasSpent
  <2>2. ResendsApart
    BY MailAssumption DEF MailInit, ResendsApart
  <2> QED BY Zenon, <2>1, <2>2, <2>3 DEF MailInv
<1>2. MailInv /\ [MailNext]_mailVars => MailInv'
  BY Zenon, SendStep, OpenLinkStep, DeleteStep, MarkStep, ResendStep, HookStep DEF MailNext
<1>3. MailInv => MailTypeOK
  <2> SUFFICES ASSUME MailInv PROVE MailTypeOK
    OBVIOUS
  <2>1. visits \in [Visit -> [at : {"new", "read", "expired", "mark", "verified", "refused",
                                   "failed"}, link : 0 .. linksMade]]
    BY DEF MailInv, MailTypes
  <2>2. lastResend \subseteq 0 .. MaxMinute
    BY MailAssumption DEF MailInv, ResendsApart
  <2> QED BY Zenon, <2>1, <2>2 DEF MailInv, MailTypes, MailTypeOK
<1>4. MailInv => LinksOnce
  BY Zenon DEF MailInv, LinksSpent, ResendsApart, LinksOnce, HasRead
<1> QED BY <1>1, <1>2, <1>3, <1>4, PTL DEF MailSpec
-----------------------------------------------------------------------------
\* A tenant that signs up gets one account, pays before it uses what it pays for, and
\* verifies its address once (cmd/relay/signup.go, verify_email.go).
THEOREM SignupsAreSound == SignupSpec /\ MailSpec => []SignupsSound
<1>1. SignupTypeOK /\ AccountsSound /\ MailTypeOK /\ LinksOnce => SignupsSound
  BY Zenon DEF SignupsSound
<1> QED BY <1>1, AccountsAreSound, LinksWorkOnce, PTL
=============================================================================
