------------------------------ MODULE MCStores ------------------------------
(***************************************************************************)
(* The stores for TLC: the queue in SQLite, the registry, conversations,   *)
(* the tasks of the A2A server and of the agent runner, what the MCP       *)
(* server keeps, and the stores of tenants and keys.  They share nothing,  *)
(* so a behaviour exercises one of them, `part', while the others rest in  *)
(* their initial states.                                                   *)
(***************************************************************************)
EXTENDS SQLiteQueue, Backends, A2ATasks, AgentRunner, ToolServer, TLC

CONSTANTS m1, m2, m3, i1, i2, a1, a2, a3, d1, d2, j1, j2, w1, w2, u1, u2, u3, ten

VARIABLE part

\* Two messages with one ID; an agent that comes back with a new ID.
SomeMailIds == m1 :> i1 @@ m2 :> i2 @@ m3 :> i1
SomeDIDs == a1 :> d1 @@ a2 :> d1 @@ a3 :> d2

\* Two message/send requests and a message/stream; a filter that tasks come to
\* match and cease to match.
SomeKinds == <<"send", "stream", "send">>
SomeFilters == {[NoFilter EXCEPT !.states = {"working", "completed"}]}

\* Two sessions of one tenant, and one of nobody.
SomeTenants == u1 :> ten @@ u2 :> ten @@ u3 :> NoTenant

vars == <<sqVars, regVars, convVars, a2aVars, runVars, toolVars, billingStoreVars, part>>

Init ==
    /\ SQInit /\ ConvInit /\ RegInit /\ A2AInit /\ RunInit /\ ToolInit
    /\ BillingStoreInit
    /\ part \in {"queue", "registry", "conversations", "a2a", "runner", "tools", "billing"}
    /\ part # "registry" => backend = "file"
    /\ part # "billing" => memory.tenants = Nothing
    /\ part # "runner" => \A j \in Job : worker[j] = w1
    /\ worker[j1] = w1

InQueue ==
    part = "queue" /\ UNCHANGED <<regVars, convVars, a2aVars, runVars, toolVars, billingStoreVars, part>>
InRegistry ==
    part = "registry" /\ UNCHANGED <<sqVars, convVars, a2aVars, runVars, toolVars, billingStoreVars, part>>
InConversations ==
    part = "conversations" /\ UNCHANGED <<sqVars, regVars, a2aVars, runVars, toolVars, billingStoreVars, part>>
InA2A ==
    part = "a2a" /\ UNCHANGED <<sqVars, regVars, convVars, runVars, toolVars, billingStoreVars, part>>
InRunner ==
    part = "runner" /\ UNCHANGED <<sqVars, regVars, convVars, a2aVars, toolVars, billingStoreVars, part>>
InTools ==
    part = "tools" /\ UNCHANGED <<sqVars, regVars, convVars, a2aVars, runVars, billingStoreVars, part>>
InBilling ==
    part = "billing" /\ UNCHANGED <<sqVars, regVars, convVars, a2aVars, runVars, toolVars, part>>

Next ==
    \/ InQueue /\ SQNext
    \/ InRegistry /\ RegNext
    \/ InConversations /\ ConvNext
    \/ InA2A /\ A2ANext
    \/ InRunner /\ RunNext
    \/ InTools /\ ToolNext
    \/ InBilling /\ BillingStoreNext

\* The tables, maps and indexes keep their types and primary keys.
TypesOK == SQTypeOK /\ RegTypeOK /\ ConvTypeOK /\ A2ATypeOK /\ RunTypeOK /\ ToolTypeOK
           /\ BillingStoreTypeOK

\* A method of the queue goes on, time passes, and the cleanup ticker gets the
\* mutex in spite of other callers (Go hands it to whoever waits longest).  The
\* goroutine of a job goes on, its unit ends, and systemd restarts the runner.  (Only
\* the variables of a part change in its steps.)
Spec ==
    /\ Init /\ [][Next]_vars
    /\ SF_sqVars(part = "queue" /\ SQCleanup)
    /\ WF_sqVars(part = "queue" /\ SQTick)
    /\ WF_sqVars(part = "queue" /\ (DeleteOne \/ Return \/ BuryDelete))
    /\ WF_runVars(part = "runner" /\ (FailOrphans \/ \E j \in Job : Proceed(j)))
=============================================================================
