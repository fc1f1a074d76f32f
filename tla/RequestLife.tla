---------------------------- MODULE RequestLife ----------------------------
(***************************************************************************)
(* What pc_*_request and pc_*_notify promise about one message, whatever   *)
(* the transport does: a call either fails, and then nothing more happens  *)
(* to the message, or it opens the message, which is completed at most     *)
(* once and never opened again.  A call that opened its message may still  *)
(* fail as long as the message has not been completed.                     *)
(***************************************************************************)
CONSTANT Msgs

VARIABLE life   \* where each message stands

LifeStage == {"new", "open", "completed", "rejected"}

LifeStep == {<<"new", "open">>, <<"new", "rejected">>,
             <<"open", "completed">>, <<"open", "rejected">>}

Init == life = [m \in Msgs |-> "new"]

\* One step may move several messages: a reset completes all that are open,
\* and the callbacks it runs may open others.
Next ==
    /\ life' \in [Msgs -> LifeStage]
    /\ \A m \in Msgs : life'[m] = life[m] \/ <<life[m], life'[m]>> \in LifeStep

Spec == Init /\ [][Next]_life

=============================================================================
