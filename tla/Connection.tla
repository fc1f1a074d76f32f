----------------------------- MODULE Connection -----------------------------
(***************************************************************************)
(* The life cycle of a client's TCP connection: Link, with the timers, the *)
(* socket handle and the retry counter that Link leaves to chance.         *)
(*                                                                         *)
(* The server follows the protocol: it answers the handshake once per      *)
(* connection, and kicks and sends data only after that.  Whether what it  *)
(* sends comes in one read or in several is not up to it.                  *)
(*                                                                         *)
(* uv closes a socket at the end of the iteration in which uv_close was    *)
(* called: asyncs, and a timer started with 0, may be handled before that, *)
(* other timers are not.                                                   *)
(***************************************************************************)
EXTENDS Link, Backoff

CONSTANTS
    ConnTimeout,   \* conn_timeout # PC_WITHOUT_TIMEOUT
    Patient,       \* the user connects only when the transport is at rest
    MaxRetry,      \* reconn_max_retry; PC_ALWAYS_RETRY without "retryLimit"
    RetryCap       \* bound: reconn_times is not counted beyond this

ASSUME ConnectionAssumption ==
    /\ ConnTimeout \in BOOLEAN
    /\ Patient \in BOOLEAN
    /\ MaxRetry \in Nat
    /\ RetryCap \in Nat /\ RetryCap > MaxRetry

\* A fact of arithmetic that the provers do not know.
ASSUME PowerAssumption == \A n \in 0..RetryCap : 2 ^ n \in Nat \ {0}

VARIABLES
    timers,    \* which of conn_timeout, handshake_timer and hb_timer are active
    sock,      \* the uv_tcp_t
    retries,   \* reconn_times
    pause      \* what reconn_delay_timer was started with, 0 when it is not active

connVars == <<timers, sock, retries, pause>>
vars == <<linkVars, connVars>>

Timer == {"conn", "handshake", "heartbeat"}

TypeOK ==
    /\ LinkTypeOK
    /\ timers \subseteq Timer
    /\ ConnTimeout \/ timers \subseteq {"heartbeat"}
    /\ sock \in {"none", "open", "closing", "closed"}
    /\ retries \in 0..RetryCap

Init ==
    /\ LinkInit
    /\ timers = {}
    /\ sock = "none"
    /\ retries = 0
    /\ pause = 0

-----------------------------------------------------------------------------
(* The user's threads.                                                     *)

\* No handler of the uv thread is half done, and no connection is asked for,
\* being made, in use or closing.
AtRest ==
    /\ uvpc = "loop"
    /\ tstate = "NOT_CONN"
    /\ ~connAsync
    /\ dial = "none"
    /\ sock # "closing"

Connect ==
    /\ EnterConnect
    /\ Patient => AtRest
    /\ UNCHANGED connVars

\* The rest of a pc_client_connect or pc_client_disconnect.
CallStep ==
    /\ UserConnect \/ ConnectRefused \/ ConnectTakenBack \/ UserDisconnect
    /\ UNCHANGED connVars

UserStep ==
    \/ (EnterDisconnect \/ UserCleanup) /\ UNCHANGED connVars
    \/ CallStep

-----------------------------------------------------------------------------
(* Establishing a connection.                                              *)

\* conn_timeout is started if it is configured.
Dial ==
    /\ DialStart
    /\ sock' = "open"
    /\ timers' = IF ConnTimeout THEN timers \cup {"conn"} ELSE timers
    /\ UNCHANGED <<retries, pause>>

\* CONNECT_ERROR: no address, or uv_tcp_connect refuses the initialised handle.
DialRefused ==
    /\ DialError
    /\ sock' = "open"
    /\ UNCHANGED <<timers, retries, pause>>

ConnTimer ==
    /\ "conn" \in timers
    /\ DialTimeout
    /\ timers' = timers \ {"conn"}
    /\ sock' = "closing"
    /\ UNCHANGED <<retries, pause>>

\* Mutant: tcp__conn_done_cb leaves conn_timeout running.
DialFailedTimed ==
    /\ DialDown
    /\ sock' = IF dial = "cancelled" THEN "closed" ELSE sock
    /\ UNCHANGED <<timers, retries, pause>>

\* CONNECT_ERROR: a cancelled request is reported while its socket closes.
DialFailed ==
    /\ DialDown
    /\ timers' = timers \ {"conn"}
    /\ sock' = IF dial = "cancelled" THEN "closed" ELSE sock
    /\ UNCHANGED <<retries, pause>>

\* Mutant: the handshake timer is started whatever conn_timeout says.
DialledTimed ==
    /\ DialUp
    /\ timers' = (timers \ {"conn"}) \cup {"handshake"}
    /\ UNCHANGED <<sock, retries, pause>>

Dialled ==
    /\ DialUp
    /\ timers' = (timers \ {"conn"}) \cup (IF ConnTimeout THEN {"handshake"} ELSE {})
    /\ UNCHANGED <<sock, retries, pause>>

DialledUnread ==
    /\ ReadStartFails
    /\ timers' = timers \ {"conn"}
    /\ UNCHANGED <<sock, retries, pause>>

\* Mutant: tcp__on_handshake_resp leaves handshake_timer running.
HandshakeAcceptedTimed ==
    /\ HandshakeOk
    /\ retries' = 0
    /\ UNCHANGED <<timers, sock, pause>>

\* tcp__on_handshake_resp up to its first return or its end: the retries start
\* again from 0 even if the answer is a refusal.
HandshakeAccepted ==
    /\ HandshakeOk
    /\ retries' = 0
    /\ \E heartbeat \in SUBSET {"heartbeat"} :
         timers' = (timers \ {"handshake"}) \cup heartbeat
    /\ UNCHANGED <<sock, pause>>

HandshakeRefused ==
    /\ HandshakeBad
    /\ retries' = 0
    /\ timers' = timers \ {"handshake"}
    /\ UNCHANGED <<sock, pause>>

-----------------------------------------------------------------------------
(* Losing it.                                                              *)

\* CONNECT_ERROR.
HandshakeTimeout ==
    /\ "handshake" \in timers
    /\ HandshakeTimer
    /\ timers' = timers \ {"handshake"}
    /\ UNCHANGED <<sock, retries, pause>>

\* UNEXPECTED_DISCONNECT.
HeartbeatTimeout ==
    /\ "heartbeat" \in timers
    /\ Lost
    /\ UNCHANGED connVars

\* A read error: UNEXPECTED_DISCONNECT, or CONNECT_FAILED before the end of the
\* handshake.
ReadError ==
    /\ sock = "open"
    /\ Lost
    /\ UNCHANGED connVars

\* A package of an established connection, or one behind it in the same read:
\* KICKED_BY_SERVER or PROTO_ERROR.  Its handlers look at no state.
BadPacket ==
    /\ uvpc = "loop" => sock = "open" /\ tstate = "DONE"
    /\ Kick \/ ProtoError
    /\ UNCHANGED connVars

-----------------------------------------------------------------------------
(* Resetting and reconnecting.                                             *)

\* Mutant: the heartbeat timer is not stopped.
StoppedNoHeartbeat == {"conn"}

\* The timers tcp__reset stops, apart from reconn_delay_timer.
Stopped == {"conn", "heartbeat"}

ResetConn ==
    /\ ResetFlush
    /\ timers' = timers \ Stopped
    /\ sock' = IF tstate # "NOT_CONN" /\ sock = "open" THEN "closing" ELSE sock
    /\ pause' = 0
    /\ UNCHANGED retries

\* uv reports the close; a connect request is reported with it.
SockClosed ==
    /\ uvpc = "loop"
    /\ sock = "closing"
    /\ dial # "cancelled"
    /\ sock' = "closed"
    /\ UNCHANGED <<linkVars, timers, retries, pause>>

\* tcp__disconnect_async_cb and tcp__cleanup_async_cb forget the retries.
ResetDone ==
    /\ ResetEnd
    /\ retries' = IF after \in {"disconnect", "cleanup"} THEN 0 ELSE retries
    /\ UNCHANGED <<timers, sock, pause>>

Disabled ==
    /\ ReconnDisabled \/ ReconnGaveUp
    /\ retries' = 0
    /\ UNCHANGED <<timers, sock, pause>>

Announce ==
    /\ ReconnAnnounce
    /\ retries' = IF retries < RetryCap THEN retries + 1 ELSE retries
    /\ UNCHANGED <<timers, sock, pause>>

\* reconn_max_retry is PC_ALWAYS_RETRY unless the fault "retryLimit" sets it.
TooMany == "retryLimit" \in Faults /\ MaxRetry < retries

Retry ==
    /\ ~TooMany
    /\ ReconnWait
    /\ pause' \in Jittered(Timeout(retries))
    /\ UNCHANGED <<timers, sock, retries>>

GiveUp ==
    /\ TooMany
    /\ ReconnGiveUp
    /\ UNCHANGED connVars

\* reconn_delay_timer.
DelayOver ==
    /\ sock # "closing" \/ pause = 0
    /\ ReconnDelay
    /\ pause' = 0
    /\ UNCHANGED <<timers, sock, retries>>

Async ==
    /\ DialIgnored \/ DisconnectAsync \/ CleanupAsync \/ ReconnBegin
    /\ UNCHANGED connVars

-----------------------------------------------------------------------------
Dials == Dial \/ DialRefused

Fed == FeedEnd /\ UNCHANGED connVars

ResetStep == ResetConn \/ ResetDone \/ Disabled \/ Announce \/ Retry \/ GiveUp \/ Fed

Next ==
    \/ Connect \/ UserStep
    \/ Dials \/ ConnTimer \/ DialFailed \/ Dialled \/ DialledUnread
    \/ HandshakeAccepted \/ HandshakeRefused
    \/ HandshakeTimeout \/ HeartbeatTimeout \/ ReadError \/ BadPacket
    \/ SockClosed \/ ResetStep \/ DelayOver \/ Async

Spec == Init /\ [][Next]_vars

\* The uv loop: a handler and a read that have begun end, a closing socket is closed, a
\* connect request cancelled with it is reported, and the asyncs and the delay
\* timer run.  User threads finish their calls.  Neither the user nor the
\* network nor the server owes anything.
FairSpec ==
    /\ Spec
    /\ WF_vars(ResetStep)
    /\ SF_vars(Fed)
    /\ WF_vars(SockClosed)
    /\ WF_vars(DialFailed /\ dial = "cancelled")
    /\ SF_vars(Dials)
    /\ SF_vars(DelayOver)
    /\ SF_vars(Async)
    /\ WF_vars(CallStep)

-----------------------------------------------------------------------------
(* Properties.                                                             *)

\* pc_trans.c:130: CONNECT_ERROR comes to a client that is connecting or connected.
ConnectErrorExpected ==
    [][DialRefused \/ DialFailed \/ HandshakeTimeout
            => cstate \in {"CONNECTING", "DISCONNECTING", "CONNECTED"}]_vars

\* pc__trans_fire_event asserts the client state in which each event may come;
\* an event in another state tells the user something that is not the case.  Of
\* the packages of one read, this is about the first that is refused.
EventsExpected ==
    /\ ConnectErrorExpected
    /\ [][HandshakeAccepted => cstate = "CONNECTING"]_vars
    /\ [][HandshakeRefused \/ GiveUp \/ (ReadError /\ tstate # "DONE")
            => cstate \in {"CONNECTING", "DISCONNECTING"}]_vars
    /\ [][HeartbeatTimeout \/ (ReadError /\ tstate = "DONE")
            => cstate \in {"CONNECTED", "DISCONNECTING"}]_vars
    /\ [][BadPacket /\ uvpc = "loop" => cstate # "INITED"]_vars
    /\ [][BadPacket /\ Kick /\ uvpc = "loop"
            => cstate \in {"CONNECTED", "DISCONNECTING"}]_vars
    /\ [][ResetDone /\ after = "disconnect"
            => cstate \in {"CONNECTED", "DISCONNECTING"}]_vars
    /\ [][Announce /\ retries = 0 => cstate \in {"CONNECTING", "INITED"}]_vars

\* conn_timeout runs only while a connect request is outstanding, so that its
\* callback closes the socket it was started for.
ConnTimerDials == "conn" \in timers => dial = "pending"

\* A reconnection waits at least half the smaller of reconn_delay and
\* reconn_delay_max, and not longer than the larger of them and its jitter.
PauseBounded == reconnTimer => pause \in Shortest..Longest

\* Heartbeats are sent, and missed, only on an established connection.
HeartbeatDone == "heartbeat" \in timers /\ uvpc = "loop" => tstate = "DONE"

\* A new connect request never takes over a socket that is in use: there is at
\* most one connection attempt at a time, and none while there is a connection.
FreshSocket == [][Dials => sock \in {"none", "closed"}]_vars

\* With reconnection enabled, a client that is CONNECTING does not stay so
\* without a connection or an attempt at one, unless it is being cleaned up.
KeepsTrying ==
    cstate = "CONNECTING" ~> \/ cstate # "CONNECTING"
                             \/ dial = "pending" \/ tstate \in {"HANDSHAKEING", "DONE"}
                             \/ phase # "live"

\* pc_trans.c:151 and 165: every kick and every undecodable message comes to a
\* client that has a connection, or is making or ending one.  False: kick_in_read.cfg.
PackagesExpected ==
    /\ [][BadPacket => cstate # "INITED"]_vars
    /\ [][BadPacket /\ Kick => cstate \in {"CONNECTED", "DISCONNECTING"}]_vars

=============================================================================
