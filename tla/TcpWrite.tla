------------------------------ MODULE TcpWrite ------------------------------
(***************************************************************************)
(* The TCP transport: what tcp__write_async_cb hands to uv_write, how the  *)
(* end of a write, the timeout check and a reset take items out of the     *)
(* queues, and what follows for every message of the client.               *)
(***************************************************************************)
EXTENDS WriteQueues

\* Mutant: tcp__reset forgets resp_pending_queue.
QueuedButResp == connPending \cup writeWait \cup writing

\* Everything the transport keeps in a write item.
Queued == connPending \cup writeWait \cup writing \cup respPending

-----------------------------------------------------------------------------
(* The write path on the uv thread.                                        *)

\* tcp__write_async_cb with nothing to do yet.
WriteNotNow ==
    /\ uvpc = "loop"
    /\ writeAsync
    /\ tstate = "NOT_CONN" \/ isWriting
    /\ writeAsync' = FALSE
    /\ UNCHANGED <<linkVars, msgVars, connPending, writeWait, writing, respPending,
                   written, isWriting, checkTimer>>

\* need_check of tcp__write_async_cb.
NeedCheck == StillPending # {} \/ ToWrite \cap Timed # {}

\* tcp__write_async_cb with an empty write_wait queue.
WriteNothing ==
    /\ uvpc = "loop"
    /\ writeAsync
    /\ tstate # "NOT_CONN" /\ ~isWriting
    /\ ToWrite = {}
    /\ writeAsync' = FALSE
    /\ checkTimer' = (checkTimer \/ NeedCheck)
    /\ UNCHANGED <<linkVars, msgVars, connPending, writeWait, writing, respPending,
                   written, isWriting>>

\* tcp__write_async_cb hands the whole write_wait queue to uv_write.
WriteStart ==
    /\ uvpc = "loop"
    /\ writeAsync
    /\ tstate # "NOT_CONN" /\ ~isWriting
    /\ ToWrite # {}
    /\ SocketOpen
    /\ writeAsync' = FALSE
    /\ connPending' = StillPending
    /\ writeWait' = {}
    /\ writing' = writing \cup ToWrite
    /\ written' = written \cup ToWrite
    /\ isWriting' = TRUE
    /\ checkTimer' = (checkTimer \/ NeedCheck)
    /\ UNCHANGED <<linkVars, msgVars, respPending>>

\* Mutant: the error of uv_write is ignored, as tls__write_to_tcp does.
WriteRefusedIgnored ==
    /\ uvpc = "loop"
    /\ writeAsync
    /\ tstate # "NOT_CONN" /\ ~isWriting
    /\ ToWrite # {}
    /\ writeAsync' = FALSE
    /\ connPending' = StillPending
    /\ writeWait' = {}
    /\ writing' = writing \cup ToWrite
    /\ UNCHANGED <<linkVars, msgVars, respPending, written, isWriting, checkTimer>>

\* uv_write refuses: everything in the writing queue is failed at once.
WriteRefused ==
    /\ uvpc = "loop"
    /\ writeAsync
    /\ tstate # "NOT_CONN" /\ ~isWriting
    /\ ToWrite # {}
    /\ SocketOpen => WriteFails
    /\ \E nested \in Nested(writing \cup ToWrite) :
         /\ Complete(writing \cup ToWrite, nested)
         /\ connPending' = StillPending \cup ToConnPending(nested)
         /\ writeWait' = ToWriteWait(nested)
         /\ writeAsync' = Wakes(nested)
    /\ writing' = {}
    /\ UNCHANGED <<linkVars, respPending, written, isWriting, checkTimer>>

\* Mutant: every item of a finished write goes to resp_pending.
WriteDoneKeepsAll ==
    /\ uvpc = "loop"
    /\ isWriting
    /\ isWriting' = FALSE
    /\ respPending' = respPending \cup writing
    /\ writing' = {}
    /\ writeAsync' = TRUE
    /\ UNCHANGED <<linkVars, msgVars, connPending, writeWait, written, checkTimer>>

\* tcp__write_done_cb after a successful write: requests wait for their
\* response, notifies are released without a callback.
WriteDone ==
    /\ uvpc = "loop"
    /\ isWriting
    /\ writing # {} => tstate \in {"HANDSHAKEING", "DONE"}
    /\ isWriting' = FALSE
    /\ respPending' = respPending \cup (writing \cap Reqs)
    /\ writing' = {}
    /\ Complete(writing \cap Notifies, {})
    /\ writeAsync' = TRUE
    /\ UNCHANGED <<linkVars, connPending, writeWait, written, checkTimer>>

\* tcp__write_done_cb after a failed or cancelled write.
WriteDoneError ==
    /\ uvpc = "loop"
    /\ isWriting
    /\ WriteFails
    /\ isWriting' = FALSE
    /\ writing' = {}
    /\ \E nested \in Nested(writing) :
         /\ Complete(writing, nested)
         /\ connPending' = connPending \cup ToConnPending(nested)
         /\ writeWait' = writeWait \cup ToWriteWait(nested)
    /\ writeAsync' = TRUE
    /\ UNCHANGED <<linkVars, respPending, written, checkTimer>>

\* tcp__write_check_timeout_cb looks at three of the four queues.
Checked == connPending \cup writeWait \cup respPending

\* The timer is started again when a timed item is left in a queue it looks
\* at; a nested message is seen only if its queue has still to be looked at.
Rearm(nested) ==
    IF Checked \cap (Timed \ expired) # {} THEN {TRUE}
    ELSE {FALSE, NestedAccepted /\ nested \cap Timed # {}}

\* Mutant: a late item is completed but stays in write_wait_queue.
CheckTimeoutKeeps ==
    /\ uvpc = "loop"
    /\ checkTimer
    /\ LET late == Checked \cap expired
       IN \E nested \in Nested(late) :
            /\ Complete(late, nested)
            /\ connPending' = (connPending \ late) \cup ToConnPending(nested)
            /\ writeWait' = writeWait \cup ToWriteWait(nested)
            /\ respPending' = respPending \ late
            /\ writeAsync' = (writeAsync \/ Wakes(nested))
            /\ checkTimer' \in Rearm(nested)
    /\ UNCHANGED <<linkVars, writing, written, isWriting>>

CheckTimeout ==
    /\ uvpc = "loop"
    /\ checkTimer
    /\ LET late == Checked \cap expired
       IN \E nested \in Nested(late) :
            /\ Complete(late, nested)
            /\ connPending' = (connPending \ late) \cup ToConnPending(nested)
            /\ writeWait' = (writeWait \ late) \cup ToWriteWait(nested)
            /\ respPending' = respPending \ late
            /\ writeAsync' = (writeAsync \/ Wakes(nested))
            /\ checkTimer' \in Rearm(nested)
    /\ UNCHANGED <<linkVars, writing, written, isWriting>>

\* tcp__reset under wq_mutex: everything queued is failed with RESET.
Reset ==
    /\ ResetFlush
    /\ \E nested \in Nested(Queued) :
         /\ Complete(Queued, nested)
         /\ connPending' = ToConnPending(nested)
         /\ writeWait' = ToWriteWait(nested)
         /\ writeAsync' = (writeAsync \/ Wakes(nested))
    /\ writing' = {}
    /\ respPending' = {}
    /\ written' = {}
    /\ checkTimer' = FALSE
    /\ UNCHANGED isWriting

-----------------------------------------------------------------------------
\* tcp__write_async_cb.
WriteHandler == WriteNotNow \/ WriteNothing \/ WriteStart \/ WriteRefused

\* The steps that end a reset once it has begun.
ResetSteps == Reset \/ ResetTail

Next ==
    \/ UserStep
    \/ \E m \in Msgs : Expire(m) \/ Response(m)
    \/ WriteHandler \/ WriteDone \/ WriteDoneError
    \/ CheckTimeout \/ SendHeartbeat
    \/ ConnHandler \/ Handshake \/ HandshakeAck
    \/ LinkHandler
    \/ ResetSteps

Spec == Init /\ [][Next]_vars

\* The uv loop visits every ready async and every due timer in each of its
\* iterations, so each handler that stays ready, or becomes ready again and
\* again, runs.  A read holds finitely many packages.  User threads finish the
\* calls they are in.  Neither the user nor the network nor the server owes
\* anything.
UvFairness ==
    /\ WF_vars(ResetSteps)
    /\ SF_vars(FeedEnd /\ UNCHANGED <<queueVars, msgVars>>)
    /\ SF_vars(DisconnectAsync /\ UNCHANGED <<queueVars, msgVars>>)
    /\ SF_vars(CleanupAsync /\ UNCHANGED <<queueVars, msgVars>>)
    /\ SF_vars(WriteHandler)
    /\ SF_vars(CheckTimeout)

CallFairness == \A m \in Msgs : WF_vars(SendStep(m)) /\ WF_vars(Expire(m))

FairSpec == Spec /\ UvFairness /\ CallFairness

\* A network and a server that make progress: connections are established,
\* handshakes answered and writes finished.  Responses are still not owed.
NetworkFairness ==
    /\ SF_vars(ConnHandler)
    /\ SF_vars(Handshake)
    /\ SF_vars(HandshakeAck)
    /\ SF_vars(WriteDone)

LiveNetSpec == FairSpec /\ NetworkFairness

-----------------------------------------------------------------------------
(* Properties.                                                             *)

\* A write item is linked into one queue at a time: the queues are intrusive
\* lists, and moving an item without unlinking it would corrupt both.
OneQueue ==
    /\ connPending \cap writeWait = {}
    /\ connPending \cap writing = {}
    /\ connPending \cap respPending = {}
    /\ writeWait \cap writing \cap Msgs = {}
    /\ writeWait \cap respPending = {}
    /\ writing \cap respPending = {}

\* Every message the client keeps is kept by the transport too, unless its
\* call is still on its way there: no message is left without anyone who
\* could ever complete it.
NoLostMessage ==
    \A m \in held : call[m] \in {"sending", "encoded"} \/ m \in Queued

\* An item the transport still keeps for a message already completed is one
\* whose response overtook the end of its own write.
OnlyAnsweredOrphans ==
    \A m \in (Queued \cap Msgs) \ held : m \in Reqs \cap (writing \cup respPending)

\* The writing queue holds items only while uv owns their buffers.
WritingInFlight == writing # {} => isWriting

\* pc_client_disconnect completes whatever the transport has at that moment.
DisconnectCompletes ==
    \A m \in Msgs : (discAsync /\ m \in Queued) ~> m \notin held

-----------------------------------------------------------------------------
(* What comments and assertions of the code say and its runs refute.       *)

\* tr_uv_tcp_aux.c:1026 and 1236: application data is sent only after the
\* acknowledgement of the handshake.
HandshakeFirst ==
    [][\A m \in Msgs : m \in written' \ written => "handshake_ack" \in written']_vars

\* pitaya_trans.h:73: a request that has a timeout and no response times out.
TimeoutFires == \A m \in Timed : m \in held ~> m \notin held

=============================================================================
