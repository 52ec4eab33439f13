----------------------------- MODULE ToolServer -----------------------------
(***************************************************************************)
(* The MCP server (pkg/mcp, cmd/mcp-server): the inbox of messages for its *)
(* agent, the list of tasks it has submitted to other agents, and the      *)
(* gateway that sends for a tenant under the tenant's own DID.  Users call *)
(* tools at the same time; a call is cut where it takes a lock or waits    *)
(* for another agent.                                                      *)
(***************************************************************************)
EXTENDS Naturals, Sequences, FiniteSets

CONSTANTS
    ToolUser,      \* sessions: each makes one call after another
    TenantOf,      \* the tenant of a session
    NoTenant,      \* anonymous, or an account without a DID seed
    RemoteTask,    \* IDs of tasks that other agents make
    MaxInbox,      \* messages the inbox keeps (1000 in the code)
    MaxIncoming,   \* bound: messages that come in
    MaxToolCalls   \* bound: calls of tools

ASSUME ToolAssumption == MaxInbox \in Nat \ {0} /\ MaxIncoming \in Nat /\ MaxToolCalls \in Nat

VARIABLES
    inbox,        \* message numbers, newest first
    marked,       \* messages whose Read flag is set
    arrived,      \* messages that have come in
    announcing,   \* stored, the notification not yet sent
    announced,    \* the clients have been notified
    erased,       \* deleted by a user
    shown,        \* what read_message answered: <<message, its Read flag>>
    miscounted,   \* message_count gave more unread messages than there can be
    session,      \* ToolUser -> [at, ref, total, since]
    toolCalls,    \* calls made
    remote,       \* RemoteTask -> "none" | "open" | "closed", at the other agent
    submitted,    \* tasks whose ID submit_task has returned
    tracked,      \* tasks the server lists
    confirmed,    \* tasks cancel_task has reported as cancelled
    identCache,   \* tenants whose identity is cached
    registered,   \* tenants for which registration was begun
    registering,  \* registrations under way
    attempts,     \* tenant -> register_subordinate calls begun
    senders       \* whose DID messages were sent under

inboxVars == <<inbox, marked, arrived, announcing, announced, erased, shown, miscounted>>
taskVars == <<remote, submitted, tracked, confirmed>>
gatewayVars == <<identCache, registered, registering, attempts, senders>>
toolVars == <<inboxVars, session, toolCalls, taskVars, gatewayVars>>

Tenants == {TenantOf[u] : u \in ToolUser} \ {NoTenant}
Ready == [at |-> "ready", ref |-> 0, total |-> 0, since |-> 0]
In(n) == \E i \in DOMAIN inbox : inbox[i] = n

ToolInit ==
    /\ inbox = <<>> /\ marked = {} /\ arrived = 0 /\ announcing = {} /\ announced = {}
    /\ erased = {} /\ shown = {} /\ miscounted = FALSE
    /\ session = [u \in ToolUser |-> Ready] /\ toolCalls = 0
    /\ remote = [t \in RemoteTask |-> "none"]
    /\ submitted = {} /\ tracked = {} /\ confirmed = {}
    /\ identCache = {} /\ registered = {} /\ registering = {}
    /\ attempts = [t \in Tenants |-> 0] /\ senders = {}

BeginTool(u) ==
    /\ session[u].at = "ready" /\ toolCalls < MaxToolCalls
    /\ toolCalls' = toolCalls + 1

Goto(u, s) == session' = [session EXCEPT ![u] = s]

(***************************************************************************)
(* The inbox                                                               *)
(***************************************************************************)

\* Mutant of Prepend: a full inbox takes no more.
PrependIfRoom(n) == IF Len(inbox) = MaxInbox THEN inbox ELSE <<n>> \o inbox

Prepend(n) == LET all == <<n>> \o inbox
              IN IF Len(all) > MaxInbox THEN SubSeq(all, 1, MaxInbox) ELSE all

\* HandleIncomingMessage, in the goroutine of the agent's handler, up to the unlock.
AddMessage ==
    /\ arrived < MaxIncoming /\ arrived' = arrived + 1
    /\ inbox' = Prepend(arrived')
    /\ announcing' = announcing \cup {arrived'}
    /\ UNCHANGED <<marked, announced, erased, shown, miscounted, session, toolCalls, taskVars, gatewayVars>>

NotifyMessageReceived(n) ==
    /\ n \in announcing
    /\ announcing' = announcing \ {n} /\ announced' = announced \cup {n}
    /\ UNCHANGED <<inbox, marked, arrived, erased, shown, miscounted, session, toolCalls, taskVars, gatewayVars>>

\* read_message, or the resource of one message.
GetMessage(u, n) ==
    /\ BeginTool(u)
    /\ Goto(u, IF In(n) THEN [Ready EXCEPT !.at = "mark", !.ref = n] ELSE Ready)
    /\ UNCHANGED <<inboxVars, taskVars, gatewayVars>>

\* MarkRead looks the message up again; the answer is made from the first lookup.
MarkRead(u) ==
    /\ session[u].at = "mark"
    /\ LET n == session[u].ref
       IN /\ marked' = IF In(n) THEN marked \cup {n} ELSE marked
          /\ shown' = shown \cup {<<n, n \in marked'>>}
    /\ Goto(u, Ready)
    /\ UNCHANGED <<inbox, arrived, announcing, announced, erased, miscounted, toolCalls, taskVars, gatewayVars>>

\* Delete takes out the first message with the ID.
TakenOut(i) == [j \in 1 .. Len(inbox) - 1 |-> IF j < i THEN inbox[j] ELSE inbox[j + 1]]

EraseMessage(u, n) ==
    /\ BeginTool(u)
    /\ \/ ~In(n) /\ UNCHANGED <<inbox, erased>>
       \/ \E i \in DOMAIN inbox :
             /\ inbox[i] = n /\ \A j \in 1 .. i - 1 : inbox[j] # n
             /\ inbox' = TakenOut(i) /\ erased' = erased \cup {n}
    /\ UNCHANGED <<marked, arrived, announcing, announced, shown, miscounted, session, taskVars, gatewayVars>>

\* message_count counts all messages, and then, under the lock anew, the unread.
CountTotal(u) ==
    /\ BeginTool(u)
    /\ Goto(u, [at |-> "count", ref |-> 0, total |-> Len(inbox), since |-> arrived])
    /\ UNCHANGED <<inboxVars, taskVars, gatewayVars>>

CountUnread(u) ==
    /\ session[u].at = "count"
    /\ LET unread == Cardinality({i \in DOMAIN inbox : inbox[i] \notin marked})
       IN miscounted' = (miscounted \/ unread > session[u].total + (arrived - session[u].since))
    /\ Goto(u, Ready)
    /\ UNCHANGED <<inbox, marked, arrived, announcing, announced, erased, shown, toolCalls, taskVars, gatewayVars>>

(***************************************************************************)
(* The gateway                                                             *)
(***************************************************************************)

\* Mutant of tenantIdentity: nobody remembers that a tenant is registered.
tenantIdentityAgain(u) ==
    LET t == TenantOf[u]
    IN /\ identCache' = identCache \cup ({t} \ {NoTenant})
       /\ registering' = registering \cup ({t} \ {NoTenant})
       /\ attempts' = IF t = NoTenant THEN attempts ELSE [attempts EXCEPT ![t] = @ + 1]
       /\ UNCHANGED registered

\* Under the bridge's lock: the first use of an identity starts its registration.
tenantIdentity(u) ==
    LET t == TenantOf[u]
        first == t # NoTenant /\ t \notin identCache
        begin == first /\ t \notin registered
    IN /\ identCache' = IF first THEN identCache \cup {t} ELSE identCache
       /\ registered' = IF begin THEN registered \cup {t} ELSE registered
       /\ registering' = IF begin THEN registering \cup {t} ELSE registering
       /\ attempts' = IF begin THEN [attempts EXCEPT ![t] = @ + 1] ELSE attempts

\* Send and SendAsync; without a tenant the message has the DID of the process.
SendFor(u) == tenantIdentity(u) /\ senders' = senders \cup {TenantOf[u]}

\* The call to the relay ends; an error is dropped and nothing is tried again.
registerSubordinate(t) ==
    /\ t \in registering /\ registering' = registering \ {t}
    /\ UNCHANGED <<inboxVars, session, toolCalls, taskVars, identCache, registered, attempts, senders>>

SendMessage(u) ==
    /\ BeginTool(u) /\ SendFor(u)
    /\ UNCHANGED <<inboxVars, session, taskVars>>

(***************************************************************************)
(* Tasks.  Only the answer to submit_task tells an ID.                     *)
(***************************************************************************)

SubmitTask(u) ==
    /\ BeginTool(u) /\ SendFor(u)
    /\ Goto(u, [Ready EXCEPT !.at = "submit"])
    /\ UNCHANGED <<inboxVars, taskVars>>

\* The other agent makes a task and its answer arrives; or it makes one and the
\* answer is lost or late; or the call fails.
SubmitReturns(u) ==
    /\ session[u].at = "submit" /\ Goto(u, Ready)
    /\ \/ \E t \in RemoteTask :
             /\ remote[t] = "none" /\ remote' = [remote EXCEPT ![t] = "open"]
             /\ \/ tracked' = tracked \cup {t} /\ submitted' = submitted \cup {t}
                \/ UNCHANGED <<tracked, submitted>>
       \/ UNCHANGED <<remote, tracked, submitted>>
    /\ UNCHANGED <<inboxVars, toolCalls, confirmed, gatewayVars>>

CancelRemote(u, t) ==
    /\ t \in submitted
    /\ BeginTool(u) /\ SendFor(u)
    /\ Goto(u, [Ready EXCEPT !.at = "cancel", !.ref = t])
    /\ UNCHANGED <<inboxVars, taskVars>>

\* Mutant of CancelReturns: an error is taken for an answer.
CancelReturnsAnyway(u) ==
    /\ session[u].at = "cancel" /\ Goto(u, [session[u] EXCEPT !.at = "untrack"])
    /\ UNCHANGED <<inboxVars, toolCalls, taskVars, gatewayVars>>

\* A task that is open is closed, whether or not the answer arrives; for one that
\* is closed, and when the call fails, there is an error.
CancelReturns(u) ==
    /\ session[u].at = "cancel"
    /\ LET t == session[u].ref
       IN \/ /\ remote[t] = "open" /\ remote' = [remote EXCEPT ![t] = "closed"]
             /\ Goto(u, [session[u] EXCEPT !.at = "untrack"]) \/ Goto(u, Ready)
          \/ Goto(u, Ready) /\ UNCHANGED remote
    /\ UNCHANGED <<inboxVars, toolCalls, submitted, tracked, confirmed, gatewayVars>>

UntrackTask(u) ==
    /\ session[u].at = "untrack" /\ Goto(u, Ready)
    /\ tracked' = tracked \ {session[u].ref} /\ confirmed' = confirmed \cup {session[u].ref}
    /\ UNCHANGED <<inboxVars, toolCalls, remote, submitted, gatewayVars>>

\* send_task_input leaves the list as it is, whatever the answer.
SendTaskInput(u, t) == t \in submitted /\ SendMessage(u)

\* The task ends by itself.
RemoteEnds(t) ==
    /\ remote[t] = "open" /\ remote' = [remote EXCEPT ![t] = "closed"]
    /\ UNCHANGED <<inboxVars, session, toolCalls, submitted, tracked, confirmed, gatewayVars>>

ToolNext ==
    \/ AddMessage \/ \E n \in announcing : NotifyMessageReceived(n)
    \/ \E u \in ToolUser :
          \/ \E n \in 1 .. arrived : GetMessage(u, n) \/ EraseMessage(u, n)
          \/ MarkRead(u) \/ CountTotal(u) \/ CountUnread(u) \/ SendMessage(u)
          \/ SubmitTask(u) \/ SubmitReturns(u) \/ CancelReturns(u) \/ UntrackTask(u)
          \/ \E t \in submitted : CancelRemote(u, t) \/ SendTaskInput(u, t)
    \/ \E t \in registering : registerSubordinate(t)
    \/ \E t \in RemoteTask : RemoteEnds(t)

ToolSpec == ToolInit /\ [][ToolNext]_toolVars

(***************************************************************************)
(* Properties                                                              *)
(***************************************************************************)

ToolTypeOK ==
    /\ inbox \in Seq(1 .. arrived) /\ Len(inbox) <= MaxInbox /\ arrived \in 0 .. MaxIncoming
    /\ \A set \in {marked, announcing, announced, erased} : set \subseteq 1 .. arrived
    /\ \A u \in ToolUser : session[u].at \in {"ready", "mark", "count", "submit", "cancel", "untrack"}
    /\ toolCalls \in 0 .. MaxToolCalls
    /\ remote \in [RemoteTask -> {"none", "open", "closed"}]
    /\ \A set \in {submitted, tracked, confirmed} : set \subseteq RemoteTask
    /\ \A set \in {identCache, registered, registering} : set \subseteq Tenants

\* A message a client was notified of can be read, unless a user deleted it or
\* MaxInbox newer ones have come.  The inbox stays in order, and nothing deleted
\* comes back.  An answer that shows a message as unread is about one that has left
\* the inbox meanwhile; and message_count exceeds its own total by no more than what
\* came in while it counted.
InboxSound ==
    /\ \A i, j \in DOMAIN inbox : i < j => inbox[i] > inbox[j]
    /\ \A n \in announced : In(n) \/ n \in erased \/ arrived - n >= MaxInbox
    /\ \A n \in erased : ~In(n)
    /\ \A n \in 1 .. arrived : <<n, FALSE>> \in shown => ~In(n)
    /\ ~miscounted

\* The list of tasks has every task whose ID a user was given, except those whose
\* cancellation was reported, which are over at the other agent; crossing
\* cancellations and lost answers do not bring one back.
TasksTracked ==
    /\ tracked = submitted \ confirmed
    /\ \A t \in confirmed : remote[t] = "closed"

\* However many calls of a tenant come at once, its keys are sent to the relay once,
\* no later than its first message is sent.
RegisteredOnce ==
    \A t \in Tenants : attempts[t] = IF t \in senders THEN 1 ELSE 0

\* What the tools of the MCP server tell their users is so: about messages
\* (InboxSound), tasks (TasksTracked) and the tenant they speak for (RegisteredOnce).
ToolsTruthful == InboxSound /\ TasksTracked /\ RegisteredOnce
=============================================================================
