------------------------------ MODULE TaskLife ------------------------------
(***************************************************************************)
(* What the agent runner promises the senders of tasks, whatever happens   *)
(* to its process: a task that was accepted ends once, the way it ended    *)
(* never changes, and its sender is told of that ending or of none.        *)
(***************************************************************************)
CONSTANT Task

VARIABLES
    life,   \* task -> what tasks/get reports, "none" before it is accepted
    told    \* task -> what tasks/result reported, or "none"

Ends == {"completed", "failed", "canceled"}

Steps ==
    {<<"none", "submitted">>, <<"submitted", "working">>}
        \cup ({"submitted", "working"} \X Ends)

Init ==
    /\ life = [t \in Task |-> "none"]
    /\ told = [t \in Task |-> "none"]

\* Several tasks may end at a time: those of a process that is gone.
Next ==
    \A t \in Task :
        /\ life'[t] = life[t] \/ <<life[t], life'[t]>> \in Steps
        /\ \/ told'[t] = told[t]
           \/ told[t] = "none" /\ life[t] \in Ends /\ told'[t] = life[t]

Spec == Init /\ [][Next]_<<life, told>>
=============================================================================
