----------------------------- MODULE WriteQueues -----------------------------
(***************************************************************************)
(* The requests and notifies of one client, as far as its two libuv        *)
(* transports treat them alike: from the user's pc_*_request / pc_*_notify *)
(* call into the queues the transports share (conn_pending, write_wait,    *)
(* writing, resp_pending), and their completion by pc_trans_resp and       *)
(* pc_trans_sent.  TcpWrite and TlsWrite add how each transport writes.    *)
(*                                                                         *)
(* User threads run the steps of a call one at a time; the uv thread runs  *)
(* its handlers.  A handler that holds wq_mutex from its first to its last *)
(* access of the queues is one step, with the calls that user callbacks    *)
(* make from inside it (wq_mutex is recursive) as the set "nested".        *)
(*                                                                         *)
(* A queue is the set of its items: the order inside a queue reaches only  *)
(* the wire, and items put at the head leave in the same write as          *)
(* everything behind them.                                                 *)
(***************************************************************************)
EXTENDS Link

CONSTANTS
    Reqs,       \* requests: released by a response
    Notifies,   \* notifies: released once written
    Timed,      \* those with a timeout other than PC_WITHOUT_TIMEOUT
    Retriers,   \* those the user may send from inside a completion callback
    Heartbeat,  \* the server asks for heartbeats
    WriteFails  \* uv_write may report an error

Msgs == Reqs \cup Notifies
Internal == {"handshake", "handshake_ack", "heartbeat"}
Items == Msgs \cup Internal

ASSUME MsgAssumption ==
    /\ Reqs \cap Notifies = {}
    /\ Msgs \cap Internal = {}
    /\ Timed \subseteq Msgs
    /\ Retriers \subseteq Msgs
    /\ Heartbeat \in BOOLEAN
    /\ WriteFails \in BOOLEAN

VARIABLES
    call,         \* how far each message's pc_request / pc_notify call has come
    held,         \* the client's req_queue and notify_queue
    connPending,  \* conn_pending_queue
    writeWait,    \* write_wait_queue
    writing,      \* writing_queue
    respPending,  \* resp_pending_queue
    written,      \* items given to uv_write on the present connection
    isWriting,    \* is_writing
    writeAsync,   \* write_async has been sent and not yet run
    checkTimer,   \* check_timeout is active
    expired       \* messages whose timeout has passed

queueVars == <<connPending, writeWait, writing, respPending, written, isWriting,
               writeAsync, checkTimer>>
msgVars == <<call, held, expired>>
vars == <<linkVars, queueVars, msgVars>>

CallPlace == {"new", "sending", "encoded", "queued", "returned", "rejected"}

TypeOK ==
    /\ LinkTypeOK
    /\ call \in [Msgs -> CallPlace]
    /\ held \subseteq Msgs
    /\ connPending \subseteq Msgs
    /\ writeWait \subseteq Items
    /\ writing \subseteq Items
    /\ respPending \subseteq Reqs
    /\ written \subseteq Items
    /\ isWriting \in BOOLEAN
    /\ writeAsync \in BOOLEAN
    /\ checkTimer \in BOOLEAN
    /\ expired \subseteq Timed

Init ==
    /\ LinkInit
    /\ call = [m \in Msgs |-> "new"]
    /\ held = {}
    /\ connPending = {} /\ writeWait = {} /\ writing = {} /\ respPending = {}
    /\ written = {}
    /\ isWriting = FALSE /\ writeAsync = FALSE /\ checkTimer = FALSE
    /\ expired = {}

\* pc_client_state lets requests and notifies pass.
Accepting == cstate \in {"CONNECTING", "CONNECTED"}

-----------------------------------------------------------------------------
(* A call on a user thread.                                                *)

\* State check of the client; an accepted message joins the client's queue.
Call(m) ==
    /\ phase = "live"
    /\ call[m] = "new"
    /\ IF Accepting
       THEN /\ call' = [call EXCEPT ![m] = "sending"]
            /\ held' = held \cup {m}
       ELSE /\ call' = [call EXCEPT ![m] = "rejected"]
            /\ UNCHANGED held
    /\ UNCHANGED <<linkVars, queueVars, expired>>

\* tr_uv_tcp_send returned an error: the client takes the message back.
SendFails(m) ==
    /\ call' = [call EXCEPT ![m] = "rejected"]
    /\ held' = held \ {m}
    /\ UNCHANGED <<linkVars, queueVars, expired>>

\* tr_uv_tcp_send looks at the transport state without wq_mutex.
SendCheck(m) ==
    /\ call[m] = "sending"
    /\ IF tstate = "NOT_CONN"
       THEN SendFails(m)
       ELSE /\ call' = [call EXCEPT ![m] = "encoded"]
            /\ UNCHANGED <<linkVars, queueVars, held, expired>>

\* The message cannot be encoded.
SendEncodeFails(m) ==
    /\ call[m] = "sending"
    /\ tstate # "NOT_CONN"
    /\ SendFails(m)

\* Under wq_mutex: the transport state, read again, picks the queue.
SendEnqueue(m) ==
    /\ call[m] = "encoded"
    /\ call' = [call EXCEPT ![m] = "queued"]
    /\ IF tstate = "DONE"
       THEN /\ writeWait' = writeWait \cup {m}
            /\ UNCHANGED connPending
       ELSE /\ connPending' = connPending \cup {m}
            /\ UNCHANGED writeWait
    /\ UNCHANGED <<linkVars, held, writing, respPending, written, isWriting,
                   writeAsync, checkTimer, expired>>

\* Mutant: a transport found NOT_CONN only now still fails the call.
SendWakeFails(m) ==
    /\ call[m] = "queued"
    /\ IF tstate = "NOT_CONN"
       THEN SendFails(m)
       ELSE /\ call' = [call EXCEPT ![m] = "returned"]
            /\ writeAsync' = TRUE
            /\ UNCHANGED <<linkVars, held, connPending, writeWait, writing,
                           respPending, written, isWriting, checkTimer, expired>>

\* The last read of the transport state decides whether the uv thread is woken.
SendWake(m) ==
    /\ call[m] = "queued"
    /\ call' = [call EXCEPT ![m] = "returned"]
    /\ writeAsync' = (writeAsync \/ tstate # "NOT_CONN")
    /\ UNCHANGED <<linkVars, held, connPending, writeWait, writing, respPending,
                   written, isWriting, checkTimer, expired>>

\* Time passes for a message the transport has.
Expire(m) ==
    /\ m \in Timed \ expired
    /\ call[m] \in {"queued", "returned"}
    /\ expired' = expired \cup {m}
    /\ UNCHANGED <<linkVars, queueVars, call, held>>

-----------------------------------------------------------------------------
(* Completion.  pc_trans_resp and pc_trans_sent look the message up, remove *)
(* it and run its callback; the callbacks may send further messages.       *)

\* The sets of messages that callbacks of the messages in "acked" may send.
Nested(acked) ==
    IF acked \cap held = {} THEN {{}}
    ELSE SUBSET {m \in Retriers : call[m] = "new"}

\* A nested call runs to its end inside the handler: it is accepted by the
\* client and by the transport, or rejected by one of them.
NestedAccepted == Accepting /\ tstate # "NOT_CONN"

Complete(acked, nested) ==
    /\ call' = [m \in Msgs |->
                  IF m \notin nested THEN call[m]
                  ELSE IF NestedAccepted THEN "returned" ELSE "rejected"]
    /\ held' = IF NestedAccepted THEN (held \ acked) \cup nested ELSE held \ acked
    /\ UNCHANGED expired

\* Mutant: write_wait_queue is initialised after the callbacks have run.
ToWriteWaitLost(nested) == {}

\* Where nested messages go, and whether they wake the uv thread.
ToConnPending(nested) == IF NestedAccepted /\ tstate # "DONE" THEN nested ELSE {}
ToWriteWait(nested)   == IF NestedAccepted /\ tstate = "DONE" THEN nested ELSE {}
Wakes(nested)         == NestedAccepted /\ nested # {}

-----------------------------------------------------------------------------
(* What the two transports' write paths share.                              *)

\* The socket has a file descriptor, so uv_write accepts the buffers.
SocketOpen == dial = "pending" \/ tstate \in {"HANDSHAKEING", "DONE"}

\* Mutant: conn_pending_queue is spliced into write_wait but not emptied.
StillPendingAll == connPending

\* write_wait_queue after tcp__write_async_cb has moved conn_pending into it.
ToWrite == IF tstate = "DONE" THEN writeWait \cup connPending ELSE writeWait
StillPending == IF tstate = "DONE" THEN {} ELSE connPending

\* tcp__on_data_recieved with the response of a request of this connection.
\* Only resp_pending is searched for its write item.
Response(m) ==
    /\ uvpc = "loop"
    /\ tstate \in {"HANDSHAKEING", "DONE"}
    /\ m \in written \cap Reqs
    /\ \E nested \in Nested({m}) :
         /\ Complete({m}, nested)
         /\ connPending' = connPending \cup ToConnPending(nested)
         /\ writeWait' = writeWait \cup ToWriteWait(nested)
         /\ writeAsync' = (writeAsync \/ Wakes(nested))
    /\ respPending' = respPending \ {m}
    /\ UNCHANGED <<linkVars, writing, written, isWriting, checkTimer>>

\* tcp__heartbeat_timer_cb with a live server.
SendHeartbeat ==
    /\ Heartbeat
    /\ uvpc = "loop"
    /\ tstate = "DONE"
    /\ writeWait' = writeWait \cup {"heartbeat"}
    /\ writeAsync' = TRUE
    /\ UNCHANGED <<linkVars, msgVars, connPending, writing, respPending, written,
                   isWriting, checkTimer>>

-----------------------------------------------------------------------------
(* The connection's steps, with what they do to the queues.                *)

\* conn_async: what was written went to an earlier socket.
Redial ==
    /\ DialStart
    /\ written' = {}
    /\ UNCHANGED <<msgVars, connPending, writeWait, writing, respPending, isWriting,
                   writeAsync, checkTimer>>

\* pc_client_cleanup frees the client: no call may be under way.
Cleanup ==
    /\ UserCleanup
    /\ \A m \in Msgs : call[m] \in {"new", "returned", "rejected"}
    /\ UNCHANGED <<queueVars, msgVars>>

\* tcp__conn_done_cb: the handshake goes to the head of write_wait.
Handshake ==
    /\ DialUp
    /\ writeWait' = writeWait \cup {"handshake"}
    /\ writeAsync' = TRUE
    /\ UNCHANGED <<msgVars, connPending, writing, respPending, written, isWriting,
                   checkTimer>>

\* tcp__on_handshake_resp: the acknowledgement goes to the head of write_wait.
HandshakeAck ==
    /\ HandshakeOk
    /\ "handshake" \in written
    /\ writeWait' = writeWait \cup {"handshake_ack"}
    /\ writeAsync' = TRUE
    /\ UNCHANGED <<msgVars, connPending, writing, respPending, written, isWriting,
                   checkTimer>>

\* The steps of a call; a thread that has entered pc_request goes on.
SendStep(m) == SendCheck(m) \/ SendEncodeFails(m) \/ SendEnqueue(m) \/ SendWake(m)

\* tcp__conn_async_cb.
ConnHandler ==
    \/ Redial
    \/ (DialIgnored \/ DialError) /\ UNCHANGED <<queueVars, msgVars>>

\* Handlers that do nothing to the queues themselves: those of timers, asyncs
\* and the connect request, and those of the packages the server sends.
LoopHandler ==
    \/ ReconnDelay \/ DialTimeout \/ DialDown \/ ReadStartFails
    \/ HandshakeTimer \/ DisconnectAsync \/ CleanupAsync

PackageHandler == HandshakeBad \/ ProtoError \/ Kick

LinkHandler ==
    /\ LoopHandler \/ PackageHandler \/ Lost
    /\ UNCHANGED <<queueVars, msgVars>>

\* What follows the emptying of the queues by a reset.
ResetTail ==
    /\ \/ ResetEnd \/ ReconnBegin \/ ReconnDisabled \/ ReconnAnnounce
       \/ ReconnWait \/ ReconnGiveUp \/ ReconnGaveUp \/ FeedEnd
    /\ UNCHANGED <<queueVars, msgVars>>

\* pc_client_connect and pc_client_disconnect.
ConnectStep == UserConnect \/ ConnectRefused \/ ConnectTakenBack \/ UserDisconnect

UserStep ==
    \/ (EnterConnect \/ EnterDisconnect \/ ConnectStep) /\ UNCHANGED <<queueVars, msgVars>>
    \/ Cleanup
    \/ \E m \in Msgs : Call(m) \/ SendStep(m)

-----------------------------------------------------------------------------
(* Properties that do not depend on the transport.                         *)

\* The reset of tcp__cleanup_async_cb completes every message the client has:
\* what is left in its lists then has been sent by a callback of that reset
\* itself, and until the uv thread is joined nothing is added to it.
CleanupAcks ==
    /\ [][after = "cleanup" /\ uvpc = "reset" /\ uvpc' = "flushed"
            => \A m \in held' : call[m] = "new"]_vars
    /\ [][after = "cleanup" /\ uvpc = "flushed" => held' = held]_vars

\* The transport implements the life of a message that the API promises.
Life == [m \in Msgs |-> CASE call[m] = "new"      -> "new"
                          [] call[m] = "rejected" -> "rejected"
                          [] m \in held           -> "open"
                          [] OTHER                -> "completed"]
Abstract == INSTANCE RequestLife WITH life <- Life
ImplementsRequestLife == Abstract!Spec

\* The client does not stay DISCONNECTING, unless it is cleaned up meanwhile.
DisconnectEnds ==
    cstate = "DISCONNECTING" ~> (cstate # "DISCONNECTING" \/ phase = "joined")

\* pc_client_cleanup returns.
CleanupEnds == phase = "cleaning" ~> phase = "joined"

\* pc_pitaya.c:260-261: when the uv thread is joined, pc_client_cleanup finds the
\* client's lists empty.  False: cleanup_leaves.cfg.
NothingLeft == phase = "joined" => held = {}

=============================================================================
