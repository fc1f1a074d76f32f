-------------------------- MODULE Connection_proofs --------------------------
(***************************************************************************)
(* What the runs of Connection show for one configuration each, proved for *)
(* every configuration, set of faults and retry limit.                     *)
(***************************************************************************)
EXTENDS Connection, Link_proofs

-----------------------------------------------------------------------------
(* Type correctness.                                                       *)

\* The user's threads change nothing of Connection's own variables.
LEMMA ConnTypeUser == TypeOK /\ (Connect \/ UserStep) => TypeOK'
<1> SUFFICES ASSUME TypeOK, Connect \/ UserStep
             PROVE  TypeOK'
  OBVIOUS
<1>1. LinkTypeOK'
  BY LinkTypeUser DEF TypeOK, Connect, UserStep, CallStep
<1>2. UNCHANGED connVars
  BY DEF Connect, UserStep, CallStep
<1> QED
  BY <1>1, <1>2 DEF TypeOK, connVars, Timer

\* A connection is made, ...
LEMMA ConnTypeDial ==
    ASSUME TypeOK,
           \/ Dials \/ ConnTimer \/ DialFailed \/ Dialled \/ DialledUnread
           \/ HandshakeAccepted \/ HandshakeRefused
    PROVE  TypeOK'
<1>1. LinkTypeOK'
  BY LinkTypeLoop DEF TypeOK, Dials, Dial, DialRefused, ConnTimer, DialFailed, Dialled,
     DialledUnread, HandshakeAccepted, HandshakeRefused
<1> USE ConnectionAssumption, <1>1 DEF TypeOK, Timer
<1>2. CASE Dial
  BY <1>2 DEF Dial
<1>3. CASE DialRefused
  BY <1>3 DEF DialRefused
<1>4. CASE ConnTimer
  BY <1>4 DEF ConnTimer
<1>5. CASE DialFailed
  BY <1>5 DEF DialFailed
<1>6. CASE Dialled
  BY <1>6 DEF Dialled
<1>7. CASE DialledUnread
  BY <1>7 DEF DialledUnread
<1>8. CASE HandshakeAccepted
  BY <1>8 DEF HandshakeAccepted
<1>9. CASE HandshakeRefused
  BY <1>9 DEF HandshakeRefused
<1> QED
  BY <1>2, <1>3, <1>4, <1>5, <1>6, <1>7, <1>8, <1>9 DEF Dials

\* ... lost, ...
LEMMA ConnTypeLost ==
    ASSUME TypeOK,
           \/ HandshakeTimeout \/ HeartbeatTimeout \/ ReadError \/ BadPacket
           \/ SockClosed \/ DelayOver \/ Async
    PROVE  TypeOK'
<1>1. CASE SockClosed
  BY <1>1 DEF SockClosed, TypeOK, LinkTypeOK, linkVars
<1>2. CASE Async
  BY <1>2, LinkTypeLoop, LinkTypeReset DEF TypeOK, Async, connVars
<1>3. CASE DelayOver
  BY <1>3, LinkTypeLoop DEF TypeOK, DelayOver, connVars
<1>4. CASE HandshakeTimeout
  BY <1>4, LinkTypeLoop DEF TypeOK, HandshakeTimeout
<1>5. CASE HeartbeatTimeout
  BY <1>5, LinkTypeLoop DEF TypeOK, HeartbeatTimeout, connVars
<1>6. CASE ReadError
  BY <1>6, LinkTypeLoop DEF TypeOK, ReadError, connVars
<1>7. CASE BadPacket
  BY <1>7, LinkTypeLoop DEF TypeOK, BadPacket, connVars
<1> QED
  BY <1>1, <1>2, <1>3, <1>4, <1>5, <1>6, <1>7

\* ... and reset.
LEMMA ConnTypeReset ==
    ASSUME TypeOK, ResetStep
    PROVE  TypeOK'
<1>1. LinkTypeOK'
  BY LinkTypeReset DEF TypeOK, ResetStep, ResetConn, ResetDone, Disabled, Announce, Retry,
     GiveUp, Fed
<1> USE ConnectionAssumption, <1>1 DEF TypeOK, Timer
<1>2. CASE ResetConn
  BY <1>2 DEF ResetConn
<1>3. CASE ResetDone
  BY <1>3 DEF ResetDone
<1>4. CASE Disabled
  BY <1>4 DEF Disabled
<1>5. CASE Announce
  BY <1>5 DEF Announce
<1>6. CASE Retry
  BY <1>6 DEF Retry, connVars
<1>7. CASE GiveUp
  BY <1>7 DEF GiveUp, connVars
<1>8. CASE Fed
  BY <1>8 DEF Fed, connVars
<1> QED
  BY <1>2, <1>3, <1>4, <1>5, <1>6, <1>7, <1>8 DEF ResetStep

LEMMA ConnTypeNext == TypeOK /\ [Next]_vars => TypeOK'
<1> SUFFICES ASSUME TypeOK, [Next]_vars
             PROVE  TypeOK'
  OBVIOUS
<1>1. CASE UNCHANGED vars
  BY <1>1 DEF TypeOK, LinkTypeOK, vars, linkVars, connVars
<1>2. CASE Next
  BY <1>2, ConnTypeUser, ConnTypeDial, ConnTypeLost, ConnTypeReset DEF Next
<1> QED
  BY <1>1, <1>2

LEMMA TypeInit == Init => TypeOK
<1> SUFFICES ASSUME Init
             PROVE  TypeOK
  OBVIOUS
<1>1. LinkTypeOK
  BY DEF Init, LinkInit, LinkTypeOK, ClientState, TransportState, UvPlace, AfterReset,
     UserCall
<1>2. timers \subseteq {} /\ sock = "none"
  BY DEF Init
<1>3. retries \in 0..RetryCap
  BY ConnectionAssumption DEF ConnectionAssumption, Init
<1> QED
  BY <1>1, <1>2, <1>3 DEF TypeOK, Timer

\* TypeOK holds for every configuration: in particular no timer but the
\* heartbeat's runs without a connect timeout.
THEOREM TypeCorrect == Spec => []TypeOK
  BY TypeInit, ConnTypeNext, PTL DEF Spec

-----------------------------------------------------------------------------
(* The connect timer.                                                      *)

\* What makes ConnTimerDials inductive: the reset that cancels a connect request
\* has stopped the timer.
ConnTimerInv ==
    /\ ConnTimerDials
    /\ uvpc = "flushed" => "conn" \notin timers

\* The callback of conn_timeout finds the connect request it was started for,
\* whatever the user, the network and the server do.
THEOREM ConnTimerOwned == Spec => []ConnTimerDials
<1>1. Init => ConnTimerInv
  BY DEF Init, ConnTimerInv, ConnTimerDials, LinkInit
<1>2. ConnTimerInv /\ [Next]_vars => ConnTimerInv'
  <2> SUFFICES ASSUME ConnTimerInv, [Next]_vars
               PROVE  ConnTimerInv'
    OBVIOUS
  <2> USE DEF ConnTimerInv, ConnTimerDials
  <2>1. CASE UNCHANGED vars
    BY <2>1 DEF vars, linkVars, connVars
  <2>2. CASE Connect \/ UserStep
    BY <2>2 DEF Connect, UserStep, CallStep, connVars, EnterConnect, EnterDisconnect,
       UserCleanup, UserConnect, ConnectRefused, ConnectTakenBack, UserDisconnect
  <2>3. CASE Dials \/ ConnTimer
    BY <2>3 DEF Dials, Dial, DialRefused, ConnTimer, DialStart, DialError, DialTimeout
  <2>4. CASE DialFailed \/ Dialled \/ DialledUnread
    BY <2>4 DEF DialFailed, Dialled, DialledUnread, DialDown, DialUp, ReadStartFails,
       BeginReset, Fire
  <2>5. CASE HandshakeAccepted \/ HandshakeRefused \/ HandshakeTimeout
    BY <2>5 DEF HandshakeAccepted, HandshakeRefused, HandshakeTimeout, HandshakeOk,
       HandshakeBad, HandshakeTimer, BeginReset, Fire
  <2>6. CASE HeartbeatTimeout \/ ReadError \/ BadPacket
    BY <2>6 DEF HeartbeatTimeout, ReadError, BadPacket, Lost, Kick, ProtoError,
       BeginReset, Fire, connVars
  <2>7. CASE SockClosed \/ DelayOver \/ Async
    BY <2>7 DEF SockClosed, DelayOver, Async, connVars, linkVars, ReconnDelay,
       DialIgnored, DisconnectAsync, CleanupAsync, ReconnBegin
  <2>8. CASE ResetConn
    BY <2>8 DEF ResetConn, ResetFlush, Stopped
  <2>9. CASE ResetDone
    BY <2>9 DEF ResetDone, ResetEnd, Return, EndStop, EndReconn, EndDisconnect, EndCleanup
  <2>10. CASE Disabled \/ Announce \/ Retry \/ GiveUp \/ Fed
    BY <2>10 DEF Disabled, Announce, Retry, GiveUp, Fed, connVars, Return,
       ReconnDisabled, ReconnGaveUp, ReconnAnnounce, ReconnWait, ReconnGiveUp, FeedEnd
  <2> QED
    BY <2>1, <2>2, <2>3, <2>4, <2>5, <2>6, <2>7, <2>8, <2>9, <2>10 DEF Next, ResetStep
<1>3. ConnTimerInv => ConnTimerDials
  BY DEF ConnTimerInv
<1> QED
  BY <1>1, <1>2, <1>3, PTL DEF Spec

-----------------------------------------------------------------------------
(* The reconnection delay.                                                 *)

\* The delay before the jitter lies between reconn_delay and reconn_delay_max.
LEMMA TimeoutRange ==
    ASSUME NEW times \in 1..RetryCap
    PROVE  Timeout(times) \in Shorter..Longer
<1> USE BackoffAssumption, ConnectionAssumption
<1>1. Factor \in Nat /\ Factor >= 1 /\ (Factor = 1 \/ Delay * Factor <= DelayMax)
  BY DEF Factor
<1>2. ASSUME NEW x \in Nat, x >= 1, x <= Factor
      PROVE  Delay * x \in Shorter..Longer
  <2>1. CASE Factor = 1
    <3>1. x = 1 /\ Delay * x = Delay
      BY <1>2, <2>1
    <3> QED
      BY <3>1 DEF Shorter, Longer
  <2>2. CASE Factor # 1
    <3>1. Delay * x <= Delay * Factor /\ Delay * x >= Delay /\ Delay * x \in Nat
      BY <1>1, <1>2
    <3>2. Delay * x <= DelayMax
      BY <1>1, <2>2, <3>1
    <3> QED
      BY <3>1, <3>2 DEF Shorter, Longer
  <2> QED
    BY <2>1, <2>2
<1>3. CASE Capped(times)
  BY <1>3 DEF Timeout, Shorter, Longer
<1>4. CASE ~Capped(times) /\ ~Exponential
  BY <1>1, <1>2, <1>4 DEF Timeout, Capped
<1>5. CASE ~Capped(times) /\ Exponential /\ times = 1
  <2>1. 2 ^ (times - 1) = 1
    BY <1>5
  <2> QED
    BY <2>1, <1>5 DEF Timeout, Shorter, Longer
<1>6. CASE ~Capped(times) /\ Exponential /\ times # 1
  <2>1. 2 ^ (times - 1) \in Nat \ {0}
    BY PowerAssumption
  <2>2. ~(Factor < 2 ^ (times - 1))
    BY <1>6 DEF Capped
  <2>3. 2 ^ (times - 1) >= 1 /\ 2 ^ (times - 1) <= Factor
    BY <2>1, <2>2, <1>1
  <2> QED
    BY <2>1, <2>3, <1>2, <1>6 DEF Timeout
<1> QED
  BY <1>3, <1>4, <1>5, <1>6

\* With the jitter it lies between Shortest and Longest.
LEMMA PauseRange ==
    ASSUME NEW times \in 1..RetryCap, NEW p \in Jittered(Timeout(times))
    PROVE  p \in Shortest..Longest
<1>1. Timeout(times) \in Shorter..Longer
  BY TimeoutRange
<1>2. Shorter \in Nat /\ Longer \in Nat
  BY BackoffAssumption DEF Shorter, Longer
<1>3. \A x \in Shorter..Longer : \A q \in Jittered(x) : q \in Shortest..Longest
  BY <1>2 DEF Jittered, Shortest, Longest
<1> QED
  BY <1>1, <1>3

\* What makes PauseBounded inductive: an attempt has been counted before its
\* delay begins.
PauseInv ==
    /\ PauseBounded
    /\ uvpc = "announced" => retries >= 1

\* A reconnection waits at least half the smaller of reconn_delay and
\* reconn_delay_max, and at most the larger of them and its jitter, for linear and
\* exponential backoff, every number of attempts and every two delays for which
\* the code can compute a wait at all: neither of them 0, and no wait of more
\* milliseconds than an int holds (BackoffAssumption).
THEOREM PauseIsBounded == Spec => []PauseBounded
<1>1. Init => PauseInv
  BY DEF Init, PauseInv, PauseBounded, LinkInit
<1>2. TypeOK /\ PauseInv /\ [Next]_vars => PauseInv'
  <2> SUFFICES ASSUME TypeOK, PauseInv, [Next]_vars
               PROVE  PauseInv'
    OBVIOUS
  <2> USE DEF PauseInv, PauseBounded
  <2>1. CASE UNCHANGED vars
    BY <2>1 DEF vars, linkVars, connVars
  <2>2. CASE Connect \/ UserStep
    BY <2>2 DEF Connect, UserStep, CallStep, connVars, EnterConnect, EnterDisconnect,
       UserCleanup, UserConnect, ConnectRefused, ConnectTakenBack, UserDisconnect
  <2>3. CASE Dials \/ ConnTimer
    BY <2>3 DEF Dials, Dial, DialRefused, ConnTimer, DialStart, DialError, DialTimeout,
       BeginReset, Fire
  <2>4. CASE DialFailed \/ Dialled \/ DialledUnread
    BY <2>4 DEF DialFailed, Dialled, DialledUnread, DialDown, DialUp, ReadStartFails,
       BeginReset, Fire
  <2>5. CASE HandshakeAccepted \/ HandshakeRefused \/ HandshakeTimeout
    BY <2>5 DEF HandshakeAccepted, HandshakeRefused, HandshakeTimeout, HandshakeOk,
       HandshakeBad, HandshakeTimer, BeginReset, Fire
  <2>6. CASE HeartbeatTimeout \/ ReadError \/ BadPacket
    BY <2>6 DEF HeartbeatTimeout, ReadError, BadPacket, Lost, Kick, ProtoError,
       BeginReset, Fire, connVars
  <2>7. CASE SockClosed \/ DelayOver \/ Async
    BY <2>7 DEF SockClosed, DelayOver, Async, connVars, linkVars, ReconnDelay,
       DialIgnored, DisconnectAsync, CleanupAsync, ReconnBegin, BeginReset, Fire
  <2>8. CASE ResetConn
    BY <2>8 DEF ResetConn, ResetFlush
  <2>9. CASE ResetDone \/ Disabled \/ GiveUp \/ Fed
    BY <2>9 DEF ResetDone, ResetEnd, Return, EndStop, EndReconn, EndDisconnect, EndCleanup,
       Disabled, GiveUp, Fed, connVars, ReconnDisabled, ReconnGaveUp, ReconnGiveUp,
       FeedEnd
  <2>10. CASE Announce
    BY <2>10, ConnectionAssumption DEF Announce, ReconnAnnounce, TypeOK
  <2>11. CASE Retry
    <3>1. retries \in 1..RetryCap
      BY <2>11 DEF Retry, ReconnWait, TypeOK
    <3>2. pause' \in Shortest..Longest
      BY <2>11, <3>1, PauseRange DEF Retry
    <3> QED
      BY <2>11, <3>2 DEF Retry, ReconnWait, Return
  <2> QED
    BY <2>1, <2>2, <2>3, <2>4, <2>5, <2>6, <2>7, <2>8, <2>9, <2>10, <2>11
       DEF Next, ResetStep
<1>3. PauseInv => PauseBounded
  BY DEF PauseInv
<1> QED
  BY <1>1, <1>2, <1>3, TypeCorrect, PTL DEF Spec

-----------------------------------------------------------------------------
(* One attempt at a time, for a user that connects only when the transport *)
(* is at rest.  A connection lost or given up before the handshake's answer *)
(* leaves handshake_timer running, which then strikes at a later connection: *)
(* with a connect timeout neither may happen (run conn_lost has both,      *)
(* without it).                                                            *)

Untimely == {"lost", "disconnect"}

\* The uv thread is in a handler that ends a connection and may start another,
\* or among packages of the connection it has ended.
Heading ==
    \/ uvpc \in {"reset", "flushed"} /\ after \in {"reconn", "reconnFeed", "stopFeed"}
    \/ uvpc \in {"reconn", "backoff", "announced", "gaveup", "feed"}

InUse == tstate \in {"HANDSHAKEING", "DONE"}

\* A connection is wanted, about to be made, waited for, being made, in use or
\* lost: no two of these at once.
OneAttempt ==
    /\ "connect" \in entered =>
         ~connAsync /\ ~reconnTimer /\ dial = "none" /\ ~InUse /\ ~Heading
    /\ connAsync => ~reconnTimer /\ dial = "none" /\ ~InUse /\ ~Heading
    /\ reconnTimer => dial = "none" /\ ~InUse
    /\ dial # "none" => ~InUse /\ ~Heading

\* Where the uv thread and the transport are in each case.
Placed ==
    /\ reconnTimer => tstate = "CONNECTING" /\ uvpc \in {"loop", "reset", "feed"}
    /\ reconnTimer /\ uvpc = "reset" => after # "reconn"
    /\ uvpc = "feed" => ~InUse
    /\ uvpc \in {"backoff", "announced"} => tstate = "CONNECTING"
    /\ dial = "pending" => tstate = "CONNECTING" /\ uvpc \in {"loop", "reset"}
    /\ sock = "open" =>
         /\ uvpc \in {"loop", "reset"}
         /\ dial = "pending" \/ InUse \/ (uvpc = "reset" /\ tstate = "CONNECTING" /\ after = "reconn")
    /\ "heartbeat" \in timers => tstate = "DONE" /\ uvpc \in {"loop", "reset"}

\* handshake_timer runs on a connection whose handshake is not answered, or
\* outlives it in a client that is being cleaned up.
HandshakeTimed ==
    "handshake" \in timers =>
        \/ uvpc = "loop" /\ tstate = "HANDSHAKEING"
        \/ uvpc \in {"reset", "flushed", "stopped"} /\ after = "cleanup"

\* Nothing of a disconnect that the user never asks for.
NoDisconnect ==
    "disconnect" \notin Faults =>
        "disconnect" \notin entered /\ ~discAsync /\ after # "disconnect"

IInv == TypeOK /\ OneAttempt /\ Placed /\ HandshakeTimed /\ NoDisconnect

\* IInv is inductive.
LEMMA OneAttemptNext ==
    ASSUME Patient, ConnTimeout => Faults \cap Untimely = {}, IInv, [Next]_vars
    PROVE  IInv'
<1>1. TypeOK'
  BY ConnTypeNext DEF IInv
<1>2. /\ LinkTypeOK
      /\ ConnTimeout \in BOOLEAN
      /\ ConnTimeout \/ timers \subseteq {"heartbeat"}
      /\ ConnTimeout => "lost" \notin Faults /\ "disconnect" \notin Faults
  BY ConnectionAssumption DEF IInv, TypeOK, Untimely
<1> SUFFICES OneAttempt' /\ Placed' /\ HandshakeTimed' /\ NoDisconnect'
  BY <1>1 DEF IInv
<1> USE <1>2
    DEF IInv, OneAttempt, Placed, HandshakeTimed, NoDisconnect, InUse, Heading, LinkTypeOK
<1>3. CASE UNCHANGED vars
  BY <1>3 DEF vars, linkVars, connVars
<1>4. CASE Connect
  BY <1>4 DEF Connect, AtRest, EnterConnect, connVars
<1>5. CASE UserStep
  BY <1>5 DEF UserStep, CallStep, connVars, EnterDisconnect, UserCleanup, UserConnect,
     ConnectRefused, ConnectTakenBack, UserDisconnect
<1>6. CASE Dial
  BY <1>6 DEF Dial, DialStart
<1>7. CASE DialRefused
  BY <1>7 DEF DialRefused, DialError
<1>8. CASE ConnTimer
  BY <1>8 DEF ConnTimer, DialTimeout
<1>9. CASE DialFailed
  BY <1>9 DEF DialFailed, DialDown, BeginReset, Fire
<1>10. CASE Dialled
  BY <1>10 DEF Dialled, DialUp
<1>11. CASE DialledUnread
  BY <1>11 DEF DialledUnread, ReadStartFails, BeginReset, Fire
<1>12. CASE HandshakeAccepted
  BY <1>12 DEF HandshakeAccepted, HandshakeOk
<1>13. CASE HandshakeRefused
  BY <1>13 DEF HandshakeRefused, HandshakeBad, BeginReset, Fire
<1>14. CASE HandshakeTimeout
  BY <1>14 DEF HandshakeTimeout, HandshakeTimer, BeginReset, Fire
<1>15. CASE HeartbeatTimeout \/ ReadError
  BY <1>15 DEF HeartbeatTimeout, ReadError, Lost, BeginReset, Fire, connVars
<1>16. CASE BadPacket
  BY <1>16 DEF BadPacket, Kick, ProtoError, PackageRead, Fire, connVars
<1>17. CASE SockClosed
  BY <1>17 DEF SockClosed, linkVars
<1>18. CASE ResetConn
  BY <1>18 DEF ResetConn, ResetFlush, Stopped
<1>19. CASE ResetDone
  BY <1>19 DEF ResetDone, ResetEnd, Return, EndStop, EndReconn, EndDisconnect, EndCleanup
<1>20. CASE Disabled
  BY <1>20 DEF Disabled, Return, ReconnDisabled, ReconnGaveUp
<1>21. CASE Announce
  BY <1>21 DEF Announce, ReconnAnnounce
<1>22. CASE Retry \/ GiveUp
  BY <1>22 DEF Retry, GiveUp, connVars, Return, ReconnWait, ReconnGiveUp
<1>23. CASE DelayOver
  BY <1>23 DEF DelayOver, ReconnDelay, connVars
<1>24. CASE Async
  BY <1>24 DEF Async, DialIgnored, DisconnectAsync, CleanupAsync, ReconnBegin, connVars
<1>25. CASE Fed
  BY <1>25 DEF Fed, FeedEnd, connVars
<1> QED
  BY <1>3, <1>4, <1>5, <1>6, <1>7, <1>8, <1>9, <1>10, <1>11, <1>12, <1>13, <1>14,
     <1>15, <1>16, <1>17, <1>18, <1>19, <1>20, <1>21, <1>22, <1>23, <1>24, <1>25
     DEF Next, Dials, ResetStep

\* IInv holds from the first state on.
LEMMA OneAttemptHolds ==
    ASSUME Patient, ConnTimeout => Faults \cap Untimely = {}
    PROVE  Spec => []IInv
<1>1. Init => IInv
  <2>1. Init => OneAttempt /\ Placed /\ HandshakeTimed /\ NoDisconnect
    BY DEF Init, LinkInit, OneAttempt, Placed, HandshakeTimed, NoDisconnect, InUse, Heading
  <2> QED
    BY <2>1, TypeInit DEF IInv
<1>2. IInv /\ [Next]_vars => IInv'
  BY OneAttemptNext
<1> QED
  BY <1>1, <1>2, PTL DEF Spec

\* What makes FreshSocket inductive beside IInv: a socket is gone before a
\* connection is asked for.
Ready == "connect" \in entered \/ connAsync => sock \in {"none", "closed"}

\* A reconnection that waits finds the socket closed.
LEMMA ReadyNext ==
    ASSUME IInv, PauseBounded, Shortest >= 1, Patient, Ready, [Next]_vars
    PROVE  Ready'
<1>1. LinkTypeOK /\ sock \in {"none", "open", "closing", "closed"}
  BY DEF IInv, TypeOK
<1>2. reconnTimer => pause # 0
  BY BackoffAssumption DEF PauseBounded, Shortest, Shorter
<1> USE <1>1 DEF IInv, OneAttempt, Placed, Ready, InUse, Heading, LinkTypeOK
<1>3. CASE UNCHANGED vars
  BY <1>3 DEF vars, linkVars, connVars
<1>4. CASE Connect
  BY <1>4 DEF Connect, AtRest, EnterConnect, connVars
<1>5. CASE UserStep
  BY <1>5 DEF UserStep, CallStep, connVars, EnterDisconnect, UserCleanup, UserConnect,
     ConnectRefused, ConnectTakenBack, UserDisconnect
<1>6. CASE Dials \/ ConnTimer
  BY <1>6 DEF Dials, Dial, DialRefused, ConnTimer, DialStart, DialError, DialTimeout
<1>7. CASE DialFailed \/ Dialled \/ DialledUnread
  BY <1>7 DEF DialFailed, Dialled, DialledUnread, DialDown, DialUp, ReadStartFails,
     BeginReset, Fire
<1>8. CASE HandshakeAccepted \/ HandshakeRefused \/ HandshakeTimeout
  BY <1>8 DEF HandshakeAccepted, HandshakeRefused, HandshakeTimeout, HandshakeOk,
     HandshakeBad, HandshakeTimer, BeginReset, Fire
<1>9. CASE HeartbeatTimeout \/ ReadError \/ BadPacket
  BY <1>9 DEF HeartbeatTimeout, ReadError, BadPacket, Lost, Kick, ProtoError,
     BeginReset, Fire, connVars
<1>10. CASE SockClosed \/ Async
  BY <1>10 DEF SockClosed, Async, connVars, linkVars, DialIgnored, DisconnectAsync,
     CleanupAsync, ReconnBegin
<1>11. CASE DelayOver
  BY <1>2, <1>11 DEF DelayOver, ReconnDelay
<1>12. CASE ResetConn
  BY <1>12 DEF ResetConn, ResetFlush
<1>13. CASE ResetDone
  BY <1>13 DEF ResetDone, ResetEnd
<1>14. CASE Disabled \/ Announce \/ Retry \/ GiveUp \/ Fed
  BY <1>14 DEF Disabled, Announce, Retry, GiveUp, Fed, connVars, ReconnDisabled,
     ReconnGaveUp, ReconnAnnounce, ReconnWait, ReconnGiveUp, FeedEnd
<1> QED
  BY <1>3, <1>4, <1>5, <1>6, <1>7, <1>8, <1>9, <1>10, <1>11, <1>12, <1>13, <1>14
     DEF Next, ResetStep

\* A connect request is only made when no socket is open or closing: at most one
\* attempt at a time, and none while there is a connection.  A reconnection may
\* not be allowed to wait for 0 seconds, as it is with a delay of 1.
THEOREM SingleAttempt ==
    ASSUME Patient, ConnTimeout => Faults \cap Untimely = {}, Shortest >= 1
    PROVE  Spec => FreshSocket
<1>1. Ready /\ [Next]_vars => [Dials => sock \in {"none", "closed"}]_vars
  BY DEF Ready, Dials, Dial, DialRefused, DialStart, DialError
<1>2. Init => Ready
  BY DEF Init, Ready
<1>3. IInv /\ PauseBounded /\ Ready /\ [Next]_vars => Ready'
  BY ReadyNext
<1>4. Spec => []IInv
  BY OneAttemptHolds
<1> QED
  BY <1>1, <1>2, <1>3, <1>4, PauseIsBounded, PTL DEF Spec, FreshSocket

\* The heartbeat timer runs on an established connection only.
THEOREM HeartbeatOwned ==
    ASSUME Patient, ConnTimeout => Faults \cap Untimely = {}
    PROVE  Spec => []HeartbeatDone
<1>1. IInv => HeartbeatDone
  BY DEF IInv, Placed, HeartbeatDone
<1>2. Spec => []IInv
  BY OneAttemptHolds
<1> QED
  BY <1>1, <1>2, PTL

-----------------------------------------------------------------------------
(* The events, for a user that connects only when the transport is at rest *)
(* and does not disconnect (run conn_lost has a user that does).           *)

\* What makes EventsExpected inductive: where the client state and the pieces of
\* the connection are in each place of the uv thread.
Settled ==
    /\ entered # {} => phase = "live" /\ uvpc = "loop" /\ tstate = "NOT_CONN"
    /\ "refused" \in entered =>
         /\ "connect" \notin entered
         /\ cstate = "CONNECTING"
         /\ ~connAsync /\ ~reconnTimer /\ dial = "none"
    /\ uvpc \in {"reset", "flushed"} =>
         /\ after # "stop"
         /\ after = "cleanup" => phase = "cleaning"
    /\ uvpc = "loop" =>
         /\ tstate = "DONE" => cstate = "CONNECTED"
         /\ connAsync \/ reconnTimer \/ dial # "none" \/ tstate = "HANDSHAKEING"
              => cstate = "CONNECTING"
    /\ uvpc = "feed" /\ reconnTimer => cstate = "CONNECTING"
    /\ Heading => cstate \in {"INITED", "CONNECTING"}
    /\ uvpc = "announced" => cstate = "CONNECTING"

\* Settled is inductive beside IInv.
LEMMA SettledNext ==
    ASSUME Patient, "disconnect" \notin Faults, ConnTimeout => "lost" \notin Faults,
           IInv, Settled, [Next]_vars
    PROVE  Settled'
<1>1. /\ LinkTypeOK
      /\ ConnTimeout \in BOOLEAN
      /\ ConnTimeout \/ timers \subseteq {"heartbeat"}
      /\ "disconnect" \notin entered /\ ~discAsync /\ after # "disconnect"
  BY ConnectionAssumption DEF IInv, TypeOK, NoDisconnect
<1>2. entered = {} \/ "connect" \in entered \/ "refused" \in entered
  BY <1>1 DEF LinkTypeOK, UserCall
<1> USE <1>1, <1>2 DEF IInv, OneAttempt, Placed, HandshakeTimed, Settled, InUse, Heading, LinkTypeOK
<1>3. CASE UNCHANGED vars
  BY <1>3 DEF vars, linkVars, connVars
<1>4. CASE Connect
  BY <1>4 DEF Connect, AtRest, EnterConnect, connVars
<1>5. CASE UserStep
  BY <1>5 DEF UserStep, CallStep, connVars, EnterDisconnect, UserCleanup, UserConnect,
     ConnectRefused, ConnectTakenBack, UserDisconnect
<1>6. CASE Dial
  BY <1>6 DEF Dial, DialStart
<1>7. CASE DialRefused
  BY <1>7 DEF DialRefused, DialError
<1>8. CASE ConnTimer
  BY <1>8 DEF ConnTimer, DialTimeout
<1>9. CASE DialFailed
  BY <1>9 DEF DialFailed, DialDown, BeginReset, Fire
<1>10. CASE Dialled
  BY <1>10 DEF Dialled, DialUp
<1>11. CASE DialledUnread
  BY <1>11 DEF DialledUnread, ReadStartFails, BeginReset, Fire
<1>12. CASE HandshakeAccepted
  BY <1>12 DEF HandshakeAccepted, HandshakeOk
<1>13. CASE HandshakeRefused
  BY <1>13 DEF HandshakeRefused, HandshakeBad, BeginReset, Fire
<1>14. CASE HandshakeTimeout
  BY <1>14 DEF HandshakeTimeout, HandshakeTimer, BeginReset, Fire
<1>15. CASE HeartbeatTimeout \/ ReadError
  BY <1>15 DEF HeartbeatTimeout, ReadError, Lost, BeginReset, Fire, connVars
<1>16. CASE BadPacket
  BY <1>16 DEF BadPacket, Kick, ProtoError, PackageRead, Fire, connVars
<1>17. CASE SockClosed
  BY <1>17 DEF SockClosed, linkVars
<1>18. CASE ResetConn
  BY <1>18 DEF ResetConn, ResetFlush, Stopped
<1>19. CASE ResetDone
  BY <1>19 DEF ResetDone, ResetEnd, Return, EndStop, EndReconn, EndDisconnect, EndCleanup
<1>20. CASE Disabled
  BY <1>20 DEF Disabled, Return, ReconnDisabled, ReconnGaveUp
<1>21. CASE Announce
  BY <1>21 DEF Announce, ReconnAnnounce
<1>22. CASE Retry \/ GiveUp
  BY <1>22 DEF Retry, GiveUp, connVars, Return, ReconnWait, ReconnGiveUp
<1>23. CASE DelayOver
  BY <1>23 DEF DelayOver, ReconnDelay, connVars
<1>24. CASE Async
  BY <1>24 DEF Async, DialIgnored, DisconnectAsync, CleanupAsync, ReconnBegin, connVars
<1>25. CASE Fed
  BY <1>25 DEF Fed, FeedEnd, connVars
<1> QED
  BY <1>3, <1>4, <1>5, <1>6, <1>7, <1>8, <1>9, <1>10, <1>11, <1>12, <1>13, <1>14,
     <1>15, <1>16, <1>17, <1>18, <1>19, <1>20, <1>21, <1>22, <1>23, <1>24, <1>25
     DEF Next, Dials, ResetStep

\* Every event but the DISCONNECT that the user asks for comes in a client state
\* in which pc__trans_fire_event expects it, for every combination of the faults
\* named here and with or without timeouts and reconnection.  Of the packages of
\* one read that is said of the first that is refused; those behind it come in
\* any state (kick_in_read.cfg).
THEOREM EventsAreExpected ==
    ASSUME Patient, "disconnect" \notin Faults, ConnTimeout => "lost" \notin Faults
    PROVE  Spec => EventsExpected
<1> DEFINE Step == IInv /\ Settled /\ [Next]_vars
<1>1. Spec => [](IInv /\ Settled)
  <2>1. Init => Settled
    BY DEF Init, LinkInit, Settled, InUse, Heading
  <2>2. IInv /\ Settled /\ [Next]_vars => Settled'
    BY SettledNext
  <2>3. ConnTimeout => Faults \cap Untimely = {}
    BY DEF Untimely
  <2>4. Spec => []IInv
    BY <2>3, OneAttemptHolds
  <2> QED
    BY <2>1, <2>2, <2>4, PTL DEF Spec
<1>2. IInv => "disconnect" \notin entered /\ ~discAsync /\ after # "disconnect"
  BY DEF IInv, NoDisconnect
<1>3. Step => [DialRefused \/ DialFailed \/ HandshakeTimeout
                 => cstate \in {"CONNECTING", "DISCONNECTING", "CONNECTED"}]_vars
  BY DEF IInv, HandshakeTimed, Settled, DialRefused, DialError, DialFailed, DialDown,
     HandshakeTimeout, HandshakeTimer, BeginReset, Fire
<1>4. Step => [HandshakeAccepted => cstate = "CONNECTING"]_vars
  BY DEF Settled, HandshakeAccepted, HandshakeOk
<1>5. Step => [HandshakeRefused \/ GiveUp \/ (ReadError /\ tstate # "DONE")
                 => cstate \in {"CONNECTING", "DISCONNECTING"}]_vars
  BY DEF Settled, HandshakeRefused, HandshakeBad, GiveUp, ReconnGiveUp, ReadError, Lost,
     BeginReset, Fire
<1>6. Step => [HeartbeatTimeout \/ (ReadError /\ tstate = "DONE")
                 => cstate \in {"CONNECTED", "DISCONNECTING"}]_vars
  BY DEF IInv, Placed, Settled, HeartbeatTimeout, ReadError, Lost, BeginReset, Fire
<1>7. Step => [BadPacket /\ uvpc = "loop" => cstate # "INITED"]_vars
  BY DEF Settled, BadPacket, Kick, ProtoError, Fire
<1>8. Step => [BadPacket /\ Kick /\ uvpc = "loop"
                 => cstate \in {"CONNECTED", "DISCONNECTING"}]_vars
  BY DEF Settled, BadPacket, Kick, Fire
<1>9. Step => [ResetDone /\ after = "disconnect"
                 => cstate \in {"CONNECTED", "DISCONNECTING"}]_vars
  BY <1>2
<1>10. Step => [Announce /\ retries = 0 => cstate \in {"CONNECTING", "INITED"}]_vars
  BY DEF Settled, Heading, Announce, ReconnAnnounce
<1> QED
  BY <1>1, <1>3, <1>4, <1>5, <1>6, <1>7, <1>8, <1>9, <1>10, PTL DEF Spec, EventsExpected,
     ConnectErrorExpected

=============================================================================
