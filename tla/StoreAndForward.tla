-------------------------- MODULE StoreAndForward ---------------------------
(***************************************************************************)
(* What the relay promises about one message, whatever happens to the      *)
(* connections, the buffers and the queue: at every moment it is in one    *)
(* place, it moves only forward through the relay (a message in hand may   *)
(* go back to the queue), and once it has reached the recipient, or has    *)
(* been given up, it stays there.  So it is delivered at most once.        *)
(***************************************************************************)
CONSTANT Msg

VARIABLE place

Moves ==
    {<<"sender", "routing">>,
     <<"routing", "queue">>, <<"routing", "buffer">>, <<"routing", "lost">>,
     <<"queue", "batch">>, <<"queue", "lost">>,
     <<"batch", "buffer">>, <<"batch", "queue">>, <<"batch", "lost">>,
     <<"buffer", "recipient">>, <<"buffer", "lost">>}

Init == place = [m \in Msg |-> "sender"]

\* One step of the relay may move several messages, each by one move.
Next == \A m \in Msg : place'[m] = place[m] \/ <<place[m], place'[m]>> \in Moves

Spec == Init /\ [][Next]_place
=============================================================================
