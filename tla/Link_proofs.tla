---------------------------- MODULE Link_proofs ----------------------------
(***************************************************************************)
(* The steps of Link keep its variables within their types, whatever the   *)
(* modules built on Link do beside them.                                   *)
(***************************************************************************)
EXTENDS Link, TLAPS

\* Every step of the connection keeps the types of Link's variables: what the
\* user's threads do, ...
LEMMA LinkTypeUser ==
    ASSUME LinkTypeOK,
           \/ EnterConnect \/ EnterDisconnect \/ UserConnect \/ ConnectRefused
           \/ ConnectTakenBack \/ UserDisconnect \/ UserCleanup
    PROVE  LinkTypeOK'
<1> USE DEF LinkTypeOK, ClientState, TransportState, UvPlace, AfterReset, UserCall
<1>1. CASE EnterConnect
  BY <1>1 DEF EnterConnect
<1>2. CASE EnterDisconnect
  BY <1>2 DEF EnterDisconnect
<1>3. CASE UserConnect
  BY <1>3 DEF UserConnect
<1>4. CASE ConnectRefused
  BY <1>4 DEF ConnectRefused
<1>5. CASE ConnectTakenBack
  BY <1>5 DEF ConnectTakenBack
<1>6. CASE UserDisconnect
  BY <1>6 DEF UserDisconnect
<1>7. CASE UserCleanup
  BY <1>7 DEF UserCleanup
<1> QED
  BY <1>1, <1>2, <1>3, <1>4, <1>5, <1>6, <1>7

\* ... the uv thread's handlers, ...
LEMMA LinkTypeLoop ==
    ASSUME LinkTypeOK,
           \/ HandshakeTimer
           \/ ReconnDelay \/ DialIgnored \/ DialStart \/ DialUp
           \/ HandshakeOk \/ DialError \/ DialTimeout \/ DialDown
           \/ ReadStartFails \/ HandshakeBad \/ Lost \/ ProtoError
           \/ Kick \/ DisconnectAsync \/ CleanupAsync
    PROVE  LinkTypeOK'
<1> USE DEF LinkTypeOK, ClientState, TransportState, UvPlace, AfterReset, UserCall
<1>1. CASE ReconnDelay
  BY <1>1 DEF ReconnDelay
<1>2. CASE DialIgnored
  BY <1>2 DEF DialIgnored
<1>3. CASE DialStart
  BY <1>3 DEF DialStart
<1>4. CASE DialUp
  BY <1>4 DEF DialUp
<1>5. CASE HandshakeOk
  BY <1>5 DEF HandshakeOk
<1>6. CASE DialError
  BY <1>6 DEF DialError
<1>7. CASE DialTimeout
  BY <1>7 DEF DialTimeout
<1>8. CASE DialDown
  BY <1>8 DEF DialDown, BeginReset, Fire
<1>9. CASE ReadStartFails
  BY <1>9 DEF ReadStartFails, BeginReset, Fire
<1>10. CASE HandshakeBad
  BY <1>10 DEF HandshakeBad, BeginReset, Fire
<1>11. CASE Lost
  BY <1>11 DEF Lost, BeginReset, Fire
<1>12. CASE ProtoError
  BY <1>12 DEF ProtoError, Fire
<1>13. CASE Kick
  BY <1>13 DEF Kick, Fire
<1>14. CASE DisconnectAsync
  BY <1>14 DEF DisconnectAsync
<1>15. CASE CleanupAsync
  BY <1>15 DEF CleanupAsync
<1>16. CASE HandshakeTimer
  BY <1>16 DEF HandshakeTimer, BeginReset, Fire
<1> QED
  BY <1>1, <1>2, <1>3, <1>4, <1>5, <1>6, <1>7, <1>8, <1>9, <1>10,
     <1>11, <1>12, <1>13, <1>14, <1>15, <1>16

\* ... and the reset with all that follows it.
LEMMA LinkTypeReset ==
    ASSUME LinkTypeOK,
           \/ ResetFlush \/ ResetEnd \/ ReconnBegin \/ ReconnDisabled
           \/ ReconnAnnounce \/ ReconnWait \/ ReconnGiveUp \/ ReconnGaveUp
           \/ FeedEnd
    PROVE  LinkTypeOK'
<1> USE DEF LinkTypeOK, ClientState, TransportState, UvPlace, AfterReset, UserCall
<1>1. CASE ResetFlush
  BY <1>1 DEF ResetFlush
<1>2. CASE ResetEnd
  BY <1>2 DEF ResetEnd, Return, EndStop, EndReconn, EndDisconnect, EndCleanup
<1>3. CASE ReconnBegin
  BY <1>3 DEF ReconnBegin
<1>4. CASE ReconnDisabled
  BY <1>4 DEF ReconnDisabled, Return
<1>5. CASE ReconnAnnounce
  BY <1>5 DEF ReconnAnnounce
<1>6. CASE ReconnWait
  BY <1>6 DEF ReconnWait, Return
<1>7. CASE ReconnGiveUp
  BY <1>7 DEF ReconnGiveUp
<1>8. CASE ReconnGaveUp
  BY <1>8 DEF ReconnGaveUp, Return
<1>9. CASE FeedEnd
  BY <1>9 DEF FeedEnd
<1> QED
  BY <1>1, <1>2, <1>3, <1>4, <1>5, <1>6, <1>7, <1>8, <1>9

=============================================================================
