-------------------------- MODULE WriteQueues_proofs --------------------------
(***************************************************************************)
(* What the proofs about the two transports share: the types of the        *)
(* queues, the state of a cleanup, and the life of a message, under the    *)
(* steps of WriteQueues.                                                   *)
(***************************************************************************)
EXTENDS WriteQueues, Link_proofs

\* The client keeps a message exactly from its acceptance on.
CallHeld ==
    \A m \in Msgs :
        /\ call[m] \in {"new", "rejected"} => m \notin held
        /\ call[m] \in {"sending", "encoded"} => m \in held

\* The part that is about cleaning up: no call is under way, and the thread has
\* stopped exactly when it has been joined.
CleanupInv ==
    /\ phase # "live" => \A m \in Msgs : call[m] \in {"new", "returned", "rejected"}
    /\ phase = "joined" <=> uvpc = "stopped"
    /\ uvpc \in {"reset", "flushed"} /\ after = "cleanup" => phase = "cleaning"

-----------------------------------------------------------------------------
(* Type correctness.                                                       *)

\* Callbacks send only messages the user has not sent before.
LEMMA NestedNew ==
    ASSUME NEW acked, NEW nested \in Nested(acked)
    PROVE  /\ nested \subseteq Retriers
           /\ nested \subseteq Msgs
           /\ \A m \in nested : call[m] = "new"
BY MsgAssumption DEF Nested

\* Completing messages keeps the types of what the client records.
LEMMA CompleteType ==
    ASSUME TypeOK, NEW acked, NEW nested, nested \subseteq Msgs,
           Complete(acked, nested)
    PROVE  /\ call' \in [Msgs -> CallPlace]
           /\ held' \subseteq Msgs
           /\ expired' \subseteq Timed
BY DEF TypeOK, Complete, CallPlace

\* The queues nested messages go to are given only messages.
LEMMA NestedQueues ==
    ASSUME NEW nested
    PROVE  /\ ToConnPending(nested) \subseteq nested
           /\ ToWriteWait(nested) \subseteq nested
           /\ Wakes(nested) \in BOOLEAN
           /\ ToConnPending(nested) = {} \/ ToWriteWait(nested) = {}
           /\ ~NestedAccepted => /\ ToConnPending(nested) = {}
                                /\ ToWriteWait(nested) = {}
           /\ NestedAccepted => ToConnPending(nested) \cup ToWriteWait(nested) = nested
BY DEF ToConnPending, ToWriteWait, Wakes

\* The types as the steps of a call change them.
LEMMA CallType ==
    ASSUME TypeOK, NEW m \in Msgs
    PROVE  /\ Call(m) => TypeOK'
           /\ SendStep(m) => TypeOK'
           /\ Expire(m) => TypeOK'
<1> USE MsgAssumption DEF TypeOK, linkVars, queueVars, LinkTypeOK, CallPlace, Items
<1>1. Call(m) => TypeOK'
  BY DEF Call
<1>2. SendFails(m) => TypeOK'
  BY DEF SendFails
<1>3. SendCheck(m) => TypeOK'
  BY <1>2 DEF SendCheck
<1>4. SendEncodeFails(m) => TypeOK'
  BY <1>2 DEF SendEncodeFails
<1>5. SendEnqueue(m) => TypeOK'
  BY DEF SendEnqueue
<1>6. SendWake(m) => TypeOK'
  BY DEF SendWake
<1>7. Expire(m) => TypeOK'
  BY DEF Expire
<1> QED
  BY <1>1, <1>3, <1>4, <1>5, <1>6, <1>7 DEF SendStep

\* A request is a message, and what the write path moves are items.
LEMMA ToWriteType ==
    ASSUME TypeOK
    PROVE  ToWrite \subseteq Items /\ StillPending \subseteq Msgs
BY DEF TypeOK, ToWrite, StillPending, Items

\* The types as a response changes them.
LEMMA ResponseType ==
    ASSUME TypeOK, NEW m \in Msgs, Response(m)
    PROVE  TypeOK'
<1>1. PICK nested \in Nested({m}) :
        /\ Complete({m}, nested)
        /\ connPending' = connPending \cup ToConnPending(nested)
        /\ writeWait' = writeWait \cup ToWriteWait(nested)
        /\ writeAsync' = (writeAsync \/ Wakes(nested))
  BY DEF Response
<1>2. nested \subseteq Msgs
  BY NestedNew
<1>3. /\ call' \in [Msgs -> CallPlace]
      /\ held' \subseteq Msgs
      /\ expired' \subseteq Timed
  BY <1>1, <1>2, CompleteType
<1> QED
  BY <1>1, <1>2, <1>3, NestedQueues
  DEF Response, TypeOK, linkVars, LinkTypeOK, Items

\* The types as the connection's steps change them.
LEMMA ConnType ==
    ASSUME TypeOK
    PROVE  /\ ConnHandler => TypeOK'
           /\ Handshake => TypeOK'
           /\ HandshakeAck => TypeOK'
           /\ SendHeartbeat => TypeOK'
           /\ LinkHandler => TypeOK'
           /\ ResetTail => TypeOK'
           /\ Cleanup => TypeOK'
           /\ EnterConnect \/ EnterDisconnect \/ ConnectStep =>
                (UNCHANGED <<queueVars, msgVars>> => TypeOK')
<1> USE LinkTypeUser, LinkTypeLoop, LinkTypeReset DEF TypeOK, queueVars, msgVars
<1>1. ConnHandler => TypeOK'
  BY DEF ConnHandler, Redial
<1>2. Handshake => TypeOK'
  BY DEF Handshake, Items, Internal
<1>3. HandshakeAck => TypeOK'
  BY DEF HandshakeAck, Items, Internal
<1>4. LinkHandler => TypeOK'
  BY DEF LinkHandler, LoopHandler, PackageHandler
<1>5. ResetTail => TypeOK'
  BY DEF ResetTail
<1>6. Cleanup => TypeOK'
  BY DEF Cleanup
<1>7. EnterConnect \/ EnterDisconnect \/ ConnectStep =>
        (UNCHANGED <<queueVars, msgVars>> => TypeOK')
  BY DEF ConnectStep
<1>8. SendHeartbeat => TypeOK'
  BY DEF SendHeartbeat, Items, Internal, linkVars, LinkTypeOK
<1> QED
  BY <1>1, <1>2, <1>3, <1>4, <1>5, <1>6, <1>7, <1>8

-----------------------------------------------------------------------------
(* Cleaning up.                                                            *)

\* A handler that runs in the loop cannot disturb it: the calls it moves are
\* those its callbacks make, and they have returned.
LEMMA CleanupLoop ==
    ASSUME CleanupInv, uvpc = "loop", UNCHANGED linkVars,
           \A m \in Msgs : call'[m] = call[m] \/ call'[m] \in {"returned", "rejected"}
    PROVE  CleanupInv'
BY DEF CleanupInv, linkVars

\* Calls made by callbacks have returned when the handler ends.
LEMMA CleanupComplete ==
    ASSUME NEW acked, NEW nested, Complete(acked, nested)
    PROVE  \A m \in Msgs : call'[m] = call[m] \/ call'[m] \in {"returned", "rejected"}
BY DEF Complete

\* No call is under way, and none begins, once the client is being cleaned up.
LEMMA CleanupUser ==
    ASSUME TypeOK, CleanupInv
    PROVE  /\ UserStep => CleanupInv'
           /\ (\E m \in Msgs : Expire(m)) => CleanupInv'
<1> USE DEF CleanupInv
<1>1. ASSUME NEW m \in Msgs, Call(m)
      PROVE  CleanupInv'
  BY <1>1 DEF Call, linkVars
<1>2. ASSUME NEW m \in Msgs, SendStep(m)
      PROVE  CleanupInv'
  <2>1. phase = "live" /\ UNCHANGED linkVars
    BY <1>2 DEF SendStep, SendCheck, SendEncodeFails, SendFails, SendEnqueue, SendWake
  <2> QED
    BY <2>1 DEF linkVars
<1>3. (EnterConnect \/ EnterDisconnect \/ ConnectStep) /\ UNCHANGED msgVars => CleanupInv'
  BY DEF EnterConnect, EnterDisconnect, ConnectStep, UserConnect, ConnectRefused,
         ConnectTakenBack, UserDisconnect, msgVars
<1>4. Cleanup => CleanupInv'
  BY DEF Cleanup, UserCleanup, msgVars
<1>5. ASSUME NEW m \in Msgs, Expire(m)
      PROVE  CleanupInv'
  BY <1>5 DEF Expire, linkVars
<1> QED
  BY <1>1, <1>2, <1>3, <1>4, <1>5 DEF UserStep

\* The connection's steps before and after a reset.
LEMMA CleanupConn ==
    ASSUME TypeOK, CleanupInv
    PROVE  /\ ConnHandler => CleanupInv'
           /\ Handshake => CleanupInv'
           /\ HandshakeAck => CleanupInv'
           /\ SendHeartbeat => CleanupInv'
           /\ LinkHandler => CleanupInv'
           /\ ResetTail => CleanupInv'
           /\ (\E m \in Msgs : Response(m)) => CleanupInv'
<1> USE DEF CleanupInv, msgVars
<1>1. ConnHandler => CleanupInv'
  BY DEF ConnHandler, Redial, DialStart, DialIgnored, DialError
<1>2. Handshake => CleanupInv'
  BY DEF Handshake, DialUp
<1>3. HandshakeAck => CleanupInv'
  BY DEF HandshakeAck, HandshakeOk
<1>4. LinkHandler => CleanupInv'
  BY DEF LinkHandler, LoopHandler, PackageHandler, PackageRead, BeginReset, Fire,
         ReconnDelay, DialTimeout, DialDown, ReadStartFails, HandshakeBad,
         HandshakeTimer, Lost, ProtoError, Kick, DisconnectAsync, CleanupAsync
<1>5. SendHeartbeat => CleanupInv'
  BY DEF SendHeartbeat, linkVars
<1>6. ResetEnd /\ UNCHANGED msgVars => CleanupInv'
  BY DEF ResetEnd, Return, EndStop, EndReconn, EndDisconnect, EndCleanup
<1>7. /\ \/ ReconnBegin \/ ReconnDisabled \/ ReconnAnnounce
         \/ ReconnWait \/ ReconnGiveUp \/ ReconnGaveUp \/ FeedEnd
      /\ UNCHANGED msgVars
      => CleanupInv'
  BY DEF ReconnBegin, ReconnDisabled, ReconnAnnounce, ReconnWait, ReconnGiveUp,
         ReconnGaveUp, FeedEnd, Return
<1>8. (\E m \in Msgs : Response(m)) => CleanupInv'
  BY CleanupLoop, CleanupComplete DEF Response
<1> QED
  BY <1>1, <1>2, <1>3, <1>4, <1>5, <1>6, <1>7, <1>8 DEF ResetTail

-----------------------------------------------------------------------------
(* The life of a message.                                                  *)

\* Every message stands still or takes a step of its abstract life.
LifeMoves ==
    \A m \in Msgs : \/ Life'[m] = Life[m]
                    \/ <<Life[m], Life'[m]>> \in Abstract!LifeStep

\* A step that completes nothing and moves no call moves no life.
LEMMA LifeUnchanged ==
    ASSUME UNCHANGED <<call, held>>
    PROVE  LifeMoves
BY DEF Life, LifeMoves

\* Completing messages closes lives that are open and begins new ones.
LEMMA LifeComplete ==
    ASSUME TypeOK, CallHeld, NEW acked, NEW nested \in Nested(acked),
           Complete(acked, nested)
    PROVE  LifeMoves
<1>1. nested \subseteq Msgs /\ \A m \in nested : call[m] = "new"
  BY NestedNew
<1>2. \A m \in Msgs : call'[m] = IF m \notin nested THEN call[m]
                                ELSE IF NestedAccepted THEN "returned" ELSE "rejected"
  BY DEF Complete
<1>3. held' = IF NestedAccepted THEN (held \ acked) \cup nested ELSE held \ acked
  BY DEF Complete
<1> SUFFICES ASSUME NEW m \in Msgs
             PROVE  \/ Life'[m] = Life[m]
                    \/ <<Life[m], Life'[m]>> \in Abstract!LifeStep
  BY DEF LifeMoves
<1>4. CASE m \in nested
  BY <1>1, <1>2, <1>3, <1>4 DEF Life, Abstract!LifeStep
<1>5. CASE m \notin nested
  BY <1>2, <1>3, <1>5 DEF Life, CallHeld, Abstract!LifeStep
<1> QED
  BY <1>4, <1>5

\* The steps of a call: accepted, rejected, or taken back when the transport
\* refuses the message.
LEMMA LifeCall ==
    ASSUME TypeOK, CallHeld, NEW m \in Msgs
    PROVE  /\ Call(m) => LifeMoves
           /\ SendStep(m) => LifeMoves
<1> USE DEF LifeMoves, Life, Abstract!LifeStep, TypeOK, CallHeld
<1>1. Call(m) => LifeMoves
  BY DEF Call
<1>2. SendFails(m) /\ call[m] = "sending" => LifeMoves
  BY DEF SendFails
<1>3. SendCheck(m) => LifeMoves
  BY <1>2 DEF SendCheck
<1>4. SendEncodeFails(m) => LifeMoves
  BY <1>2 DEF SendEncodeFails
<1>5. SendEnqueue(m) => LifeMoves
  BY DEF SendEnqueue
<1>6. SendWake(m) => LifeMoves
  BY DEF SendWake
<1> QED
  BY <1>1, <1>3, <1>4, <1>5, <1>6 DEF SendStep

=============================================================================
