-------------------------------- MODULE Link --------------------------------
(***************************************************************************)
(* The connection of one pitaya client, as far as its requests can tell:   *)
(* the client state that the pc_client_* calls read and write under        *)
(* state_mutex, the transport state that only the uv thread writes, and    *)
(* the place the uv thread has reached in a handler that runs in several   *)
(* observable steps (fire an event, reset, set NOT_CONN, reconnect).       *)
(*                                                                         *)
(* Each action is an operator over these variables alone: TcpWrite         *)
(* conjoins what the same handler does to the write queues.  Timers that   *)
(* only decide WHEN something happens (conn_timeout, the handshake timer,  *)
(* the heartbeat) appear as the failure they report.                       *)
(***************************************************************************)
EXTENDS Naturals

CONSTANTS
    EnableReconn,   \* client config enable_reconn
    Faults          \* which of AllFaults the environment and the user may cause

AllFaults == {"badOptions", "dialError", "readStart", "handshakeTimer", "lost",
              "protoError", "kick", "badHandshake", "retryLimit", "disconnect",
              "cleanup"}

ASSUME LinkAssumption == EnableReconn \in BOOLEAN /\ Faults \subseteq AllFaults

VARIABLES
    entered,      \* the pc_client_* calls that have read the client state
    cstate,       \* pc_client_t.state
    tstate,       \* tr_uv_tcp_transport_t.state
    dial,         \* the uv_connect_t: is_connecting is dial # "none"
    connAsync,    \* conn_async has been sent and not yet run
    reconnTimer,  \* reconn_delay_timer is active
    discAsync,    \* disconnect_async has been sent and not yet run
    uvpc,         \* where the uv thread is in its current handler
    after,        \* what follows the reset that is under way
    phase         \* progress of pc_client_cleanup

linkVars == <<entered, cstate, tstate, dial, connAsync, reconnTimer, discAsync,
              uvpc, after, phase>>

ClientState    == {"INITED", "CONNECTING", "CONNECTED", "DISCONNECTING"}
TransportState == {"NOT_CONN", "CONNECTING", "HANDSHAKEING", "DONE"}
UvPlace        == {"loop", "reset", "flushed", "reconn", "backoff", "announced",
                   "gaveup", "feed", "stopped"}
UserCall       == {"connect", "refused", "disconnect"}
AfterReset     == {"reconn", "stop", "reconnFeed", "stopFeed", "disconnect", "cleanup"}

LinkTypeOK ==
    /\ entered \subseteq UserCall
    /\ cstate \in ClientState
    /\ tstate \in TransportState
    /\ dial \in {"none", "pending", "cancelled"}
    /\ connAsync \in BOOLEAN
    /\ reconnTimer \in BOOLEAN
    /\ discAsync \in BOOLEAN
    /\ uvpc \in UvPlace
    /\ after \in AfterReset
    /\ phase \in {"live", "cleaning", "joined"}

LinkInit ==
    /\ entered = {}
    /\ cstate = "INITED"
    /\ tstate = "NOT_CONN"
    /\ dial = "none"
    /\ connAsync = FALSE /\ reconnTimer = FALSE /\ discAsync = FALSE
    /\ uvpc = "loop"
    /\ after = "stop"
    /\ phase = "live"

-----------------------------------------------------------------------------
(* The user's threads.                                                     *)

\* pc_client_connect and pc_client_disconnect read the client state under
\* state_mutex and write it under state_mutex, but not in one critical section.
EnterConnect ==
    /\ phase = "live"
    /\ cstate = "INITED"
    /\ "connect" \notin entered
    /\ entered' = entered \cup {"connect"}
    /\ UNCHANGED <<cstate, tstate, dial, connAsync, reconnTimer, discAsync, uvpc,
                   after, phase>>

EnterDisconnect ==
    /\ "disconnect" \in Faults
    /\ phase = "live"
    /\ cstate \in {"CONNECTING", "CONNECTED"}
    /\ "disconnect" \notin entered
    /\ entered' = entered \cup {"disconnect"}
    /\ UNCHANGED <<cstate, tstate, dial, connAsync, reconnTimer, discAsync, uvpc,
                   after, phase>>

\* The rest of pc_client_connect when the transport takes the request.
UserConnect ==
    /\ "connect" \in entered
    /\ entered' = entered \ {"connect"}
    /\ cstate' = "CONNECTING"
    /\ connAsync' = TRUE
    /\ UNCHANGED <<tstate, dial, reconnTimer, discAsync, uvpc, after, phase>>

\* tr_uv_tcp_connect rejects the handshake options: the client has been
\* CONNECTING and is put back to INITED.
ConnectRefused ==
    /\ "badOptions" \in Faults
    /\ "connect" \in entered
    /\ entered' = (entered \ {"connect"}) \cup {"refused"}
    /\ cstate' = "CONNECTING"
    /\ UNCHANGED <<tstate, dial, connAsync, reconnTimer, discAsync, uvpc, after, phase>>

ConnectTakenBack ==
    /\ "refused" \in entered
    /\ entered' = entered \ {"refused"}
    /\ cstate' = "INITED"
    /\ UNCHANGED <<tstate, dial, connAsync, reconnTimer, discAsync, uvpc, after, phase>>

\* The rest of pc_client_disconnect; the transport never refuses.
UserDisconnect ==
    /\ "disconnect" \in entered
    /\ entered' = entered \ {"disconnect"}
    /\ cstate' = "DISCONNECTING"
    /\ discAsync' = TRUE
    /\ UNCHANGED <<tstate, dial, connAsync, reconnTimer, uvpc, after, phase>>

\* pc_client_cleanup: cleanup_async is sent and the caller joins the uv thread.
\* It frees the client, so no call may be under way.
UserCleanup ==
    /\ "cleanup" \in Faults
    /\ phase = "live"
    /\ entered = {}
    /\ phase' = "cleaning"
    /\ UNCHANGED <<entered, cstate, tstate, dial, connAsync, reconnTimer, discAsync,
                   uvpc, after>>

-----------------------------------------------------------------------------
(* The uv thread, in its loop: handlers that end in one step.              *)

\* reconn_delay_timer expires.
ReconnDelay ==
    /\ uvpc = "loop"
    /\ reconnTimer
    /\ reconnTimer' = FALSE
    /\ connAsync' = TRUE
    /\ UNCHANGED <<entered, cstate, tstate, dial, discAsync, uvpc, after, phase>>

\* conn_async while a connect request is outstanding.
DialIgnored ==
    /\ uvpc = "loop"
    /\ connAsync
    /\ dial # "none"
    /\ connAsync' = FALSE
    /\ UNCHANGED <<entered, cstate, tstate, dial, reconnTimer, discAsync, uvpc, after,
                   phase>>

\* conn_async hands a connect request to uv.  The transport state that it
\* overwrites is not looked at.
DialStart ==
    /\ uvpc = "loop"
    /\ connAsync
    /\ dial = "none"
    /\ connAsync' = FALSE
    /\ tstate' = "CONNECTING"
    /\ dial' = "pending"
    /\ UNCHANGED <<entered, cstate, reconnTimer, discAsync, uvpc, after, phase>>

\* The connect request succeeds; TcpWrite queues the handshake.
DialUp ==
    /\ uvpc = "loop"
    /\ dial = "pending"
    /\ dial' = "none"
    /\ tstate' = "HANDSHAKEING"
    /\ UNCHANGED <<entered, cstate, connAsync, reconnTimer, discAsync, uvpc, after, phase>>

\* The server accepts the handshake; TcpWrite queues the acknowledgement.
HandshakeOk ==
    /\ uvpc = "loop"
    /\ tstate = "HANDSHAKEING"
    /\ tstate' = "DONE"
    /\ cstate' = "CONNECTED"
    /\ UNCHANGED <<entered, dial, connAsync, reconnTimer, discAsync, uvpc, after,
                   phase>>

-----------------------------------------------------------------------------
(* Handlers that fire an event, which sets the client state, and go on to  *)
(* reset the transport.  The user's handlers and other threads run in      *)
(* between.                                                                *)
(* The handler of a package is called from the loop of pc_pkg_parser_feed, *)
(* which goes on after it with the packages that are left of the read,     *)
(* although the connection they came on has been reset ("feed").           *)

Fire(fired, next) ==
    /\ cstate' = fired
    /\ uvpc' = "reset"
    /\ after' = next
    /\ UNCHANGED <<entered, connAsync, reconnTimer, discAsync, phase>>

BeginReset(fired, next) == uvpc = "loop" /\ Fire(fired, next)

\* A package of the connection, or of one that the same read has lost.
PackageRead ==
    \/ uvpc = "loop" /\ tstate \in {"HANDSHAKEING", "DONE"}
    \/ uvpc = "feed"

\* conn_async fails at once (no address, or uv_tcp_connect refuses).
DialError ==
    /\ "dialError" \in Faults
    /\ uvpc = "loop"
    /\ connAsync
    /\ dial = "none"
    /\ connAsync' = FALSE
    /\ tstate' = "CONNECTING"
    /\ cstate' = "INITED"
    /\ uvpc' = "reset"
    /\ after' = "reconn"
    /\ UNCHANGED <<entered, dial, reconnTimer, discAsync, phase>>

\* conn_timeout expires: the socket is closed, and the connect request will
\* report ECANCELED.
DialTimeout ==
    /\ "dialError" \in Faults
    /\ uvpc = "loop"
    /\ dial = "pending"
    /\ dial' = "cancelled"
    /\ UNCHANGED <<entered, cstate, tstate, connAsync, reconnTimer, discAsync, uvpc,
                   after, phase>>

\* The connect request fails, or was cancelled by conn_timeout or a reset.
DialDown ==
    /\ dial # "none"
    /\ dial = "pending" => "dialError" \in Faults
    /\ dial' = "none"
    /\ BeginReset("INITED", "reconn")
    /\ UNCHANGED tstate

\* The connect request succeeds but uv_read_start fails: no event is fired.
ReadStartFails ==
    /\ "readStart" \in Faults
    /\ dial = "pending"
    /\ dial' = "none"
    /\ tstate' = "HANDSHAKEING"
    /\ BeginReset(cstate, "reconn")

\* CONNECT_FAILED: the handshake answer is not the expected one.
HandshakeBad ==
    /\ "badHandshake" \in Faults
    /\ tstate = "HANDSHAKEING"
    /\ BeginReset("INITED", "stopFeed")
    /\ UNCHANGED <<tstate, dial>>

\* The handshake timer, which a reset does not stop, expires.
HandshakeTimer ==
    /\ "handshakeTimer" \in Faults
    /\ BeginReset("INITED", "reconn")
    /\ UNCHANGED <<tstate, dial>>

\* Read error, end of file or heartbeat timeout.
Lost ==
    /\ "lost" \in Faults
    /\ tstate \in {"HANDSHAKEING", "DONE"}
    /\ BeginReset("INITED", "reconn")
    /\ UNCHANGED <<tstate, dial>>

\* Mutant: after a PROTO_ERROR the client does not reconnect.
ProtoErrorStop ==
    /\ "protoError" \in Faults
    /\ PackageRead
    /\ Fire("CONNECTING", "stopFeed")
    /\ UNCHANGED <<tstate, dial>>

\* PROTO_ERROR: a data packet that cannot be decoded.  This event leaves the
\* client CONNECTING, so requests are still accepted.
ProtoError ==
    /\ "protoError" \in Faults
    /\ PackageRead
    /\ Fire("CONNECTING", "reconnFeed")
    /\ UNCHANGED <<tstate, dial>>

\* KICKED_BY_SERVER, then a reset and no reconnection.
Kick ==
    /\ "kick" \in Faults
    /\ PackageRead
    /\ Fire("INITED", "stopFeed")
    /\ UNCHANGED <<tstate, dial>>

\* disconnect_async: the reset comes first, the DISCONNECT event after it.
DisconnectAsync ==
    /\ discAsync
    /\ uvpc = "loop"
    /\ discAsync' = FALSE
    /\ uvpc' = "reset"
    /\ after' = "disconnect"
    /\ UNCHANGED <<entered, cstate, tstate, dial, connAsync, reconnTimer, phase>>

\* cleanup_async: the reset comes first, then the loop is stopped.
CleanupAsync ==
    /\ phase = "cleaning"
    /\ uvpc = "loop"
    /\ uvpc' = "reset"
    /\ after' = "cleanup"
    /\ UNCHANGED <<entered, cstate, tstate, dial, connAsync, reconnTimer, discAsync, phase>>

-----------------------------------------------------------------------------
(* The reset and what follows it.                                          *)

\* Mutant: reconn_delay_timer is left running.
ResetFlushDelay ==
    /\ uvpc = "reset"
    /\ dial' = IF dial = "pending" /\ tstate # "NOT_CONN" THEN "cancelled" ELSE dial
    /\ uvpc' = "flushed"
    /\ UNCHANGED <<entered, cstate, tstate, connAsync, reconnTimer, discAsync, after,
                   phase>>

\* tcp__reset up to the unlock of wq_mutex: timers stopped, socket closed
\* (a pending connect will report ECANCELED); TcpWrite empties the queues.
ResetFlush ==
    /\ uvpc = "reset"
    /\ reconnTimer' = FALSE
    /\ dial' = IF dial = "pending" /\ tstate # "NOT_CONN" THEN "cancelled" ELSE dial
    /\ uvpc' = "flushed"
    /\ UNCHANGED <<entered, cstate, tstate, connAsync, discAsync, after, phase>>

\* The handler that asked for the reset returns: to uv, or to the parser, which
\* may have packages left.
Return ==
    \/ uvpc' = "loop"
    \/ after \in {"stopFeed", "reconnFeed"} /\ uvpc' = "feed"

\* How that handler ends, once the transport is NOT_CONN.
EndStop ==
    /\ after \in {"stop", "stopFeed"}
    /\ Return
    /\ UNCHANGED <<entered, cstate, dial, phase>>

EndReconn ==
    /\ after \in {"reconn", "reconnFeed"}
    /\ uvpc' = "reconn"
    /\ UNCHANGED <<entered, cstate, dial, phase>>

\* Mutant: tcp__disconnect_async_cb does not fire the DISCONNECT event.
EndDisconnectSilent ==
    /\ after = "disconnect"
    /\ uvpc' = "loop"
    /\ UNCHANGED <<entered, cstate, dial, phase>>

EndDisconnect ==
    /\ after = "disconnect"
    /\ uvpc' = "loop"
    /\ cstate' = "INITED"
    /\ UNCHANGED <<dial, phase>>

\* Mutant: tcp__cleanup_async_cb does not stop the loop.
EndCleanupRunning ==
    /\ after = "cleanup"
    /\ uvpc' = "loop"
    /\ UNCHANGED <<entered, cstate, dial, phase>>

\* conn_done_cb is cleared and the loop stopped: the uv thread ends, and
\* pc_client_cleanup goes on.
EndCleanup ==
    /\ after = "cleanup"
    /\ uvpc' = "stopped"
    /\ phase' = "joined"
    /\ dial' = "none"
    /\ UNCHANGED cstate

\* The last assignment of tcp__reset, made without wq_mutex, and the end of
\* its handler.
ResetEnd ==
    /\ uvpc = "flushed"
    /\ tstate' = "NOT_CONN"
    /\ EndStop \/ EndReconn \/ EndDisconnect \/ EndCleanup
    /\ UNCHANGED <<entered, connAsync, reconnTimer, discAsync, after>>

\* tcp__reconn sets CONNECTING right after the reset.
ReconnBegin ==
    /\ uvpc = "reconn"
    /\ tstate' = "CONNECTING"
    /\ uvpc' = "backoff"
    /\ UNCHANGED <<entered, cstate, dial, connAsync, reconnTimer, discAsync, after, phase>>

\* Reconnection is disabled.  No event is fired.
ReconnDisabled ==
    /\ uvpc = "backoff"
    /\ ~EnableReconn
    /\ tstate' = "NOT_CONN"
    /\ Return
    /\ UNCHANGED <<entered, cstate, dial, connAsync, reconnTimer, discAsync, after,
                   phase>>

\* RECONNECT_STARTED, or the bare assignment of later attempts.
ReconnAnnounce ==
    /\ uvpc = "backoff"
    /\ EnableReconn
    /\ cstate' = "CONNECTING"
    /\ uvpc' = "announced"
    /\ UNCHANGED <<entered, tstate, dial, connAsync, reconnTimer, discAsync, after,
                   phase>>

\* The delay of the next attempt begins.
ReconnWait ==
    /\ uvpc = "announced"
    /\ reconnTimer' = TRUE
    /\ Return
    /\ UNCHANGED <<entered, cstate, tstate, dial, connAsync, discAsync, after, phase>>

\* RECONNECT_FAILED: the retries are used up.
ReconnGiveUp ==
    /\ "retryLimit" \in Faults
    /\ uvpc = "announced"
    /\ cstate' = "INITED"
    /\ uvpc' = "gaveup"
    /\ UNCHANGED <<entered, tstate, dial, connAsync, reconnTimer, discAsync, after,
                   phase>>

ReconnGaveUp ==
    /\ uvpc = "gaveup"
    /\ tstate' = "NOT_CONN"
    /\ Return
    /\ UNCHANGED <<entered, cstate, dial, connAsync, reconnTimer, discAsync, after,
                   phase>>

\* The parser has come to the end of the read.
FeedEnd ==
    /\ uvpc = "feed"
    /\ uvpc' = "loop"
    /\ UNCHANGED <<entered, cstate, tstate, dial, connAsync, reconnTimer, discAsync, after,
                   phase>>

=============================================================================
