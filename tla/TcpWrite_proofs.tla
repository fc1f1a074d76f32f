--------------------------- MODULE TcpWrite_proofs ---------------------------
(***************************************************************************)
(* What the runs of TcpWrite show on small instances, proved for every set *)
(* of messages, every choice of faults and every configuration.            *)
(***************************************************************************)
EXTENDS TcpWrite, WriteQueues_proofs

\* A call that has not reached the queues has left no trace in them, and the
\* client keeps a message exactly from its acceptance on.
CallStage ==
    \A m \in Msgs :
        /\ call[m] \in {"new", "rejected"} => m \notin held
        /\ call[m] \in {"sending", "encoded"} => m \in held
        /\ call[m] \in {"new", "rejected", "sending", "encoded"} =>
             m \notin Queued \cup written

\* What uv has been given on this connection is not waiting to be given again.
WrittenOnce == written \cap Msgs \cap (connPending \cup writeWait) = {}

\* The part of the inductive invariant that is about messages and queues.
QueueInv ==
    /\ OneQueue
    /\ NoLostMessage
    /\ OnlyAnsweredOrphans
    /\ WritingInFlight
    /\ CallStage
    /\ WrittenOnce

IInv == TypeOK /\ QueueInv /\ CleanupInv

-----------------------------------------------------------------------------
(* Type correctness.                                                       *)

\* The types as the write path changes them.
LEMMA WriteType ==
    ASSUME TypeOK
    PROVE  /\ WriteHandler => TypeOK'
           /\ WriteDone => TypeOK'
           /\ WriteDoneError => TypeOK'
           /\ CheckTimeout => TypeOK'
<1> USE DEF TypeOK, linkVars, msgVars, LinkTypeOK
<1> Msgs \subseteq Items /\ Reqs \subseteq Msgs /\ Notifies \subseteq Msgs
  BY DEF Items, Msgs
<1>1. WriteNotNow => TypeOK'
  BY DEF WriteNotNow
<1>2. WriteNothing => TypeOK'
  BY ToWriteType DEF WriteNothing, NeedCheck
<1>3. WriteStart => TypeOK'
  BY ToWriteType DEF WriteStart, NeedCheck
<1>4. ASSUME WriteRefused
      PROVE  TypeOK'
  <2>1. PICK nested \in Nested(writing \cup ToWrite) :
          /\ Complete(writing \cup ToWrite, nested)
          /\ connPending' = StillPending \cup ToConnPending(nested)
          /\ writeWait' = ToWriteWait(nested)
          /\ writeAsync' = Wakes(nested)
    BY <1>4 DEF WriteRefused
  <2>2. nested \subseteq Msgs
    BY NestedNew
  <2>3. /\ call' \in [Msgs -> CallPlace]
        /\ held' \subseteq Msgs
        /\ expired' \subseteq Timed
    BY <2>1, <2>2, CompleteType
  <2> QED
    BY <1>4, <2>1, <2>2, <2>3, NestedQueues, ToWriteType DEF WriteRefused
<1>5. WriteDone => TypeOK'
  BY NestedQueues DEF WriteDone, Complete
<1>6. ASSUME WriteDoneError
      PROVE  TypeOK'
  <2>1. PICK nested \in Nested(writing) :
          /\ Complete(writing, nested)
          /\ connPending' = connPending \cup ToConnPending(nested)
          /\ writeWait' = writeWait \cup ToWriteWait(nested)
    BY <1>6 DEF WriteDoneError
  <2>2. nested \subseteq Msgs
    BY NestedNew
  <2>3. /\ call' \in [Msgs -> CallPlace]
        /\ held' \subseteq Msgs
        /\ expired' \subseteq Timed
    BY <2>1, <2>2, CompleteType
  <2> QED
    BY <1>6, <2>1, <2>2, <2>3, NestedQueues DEF WriteDoneError
<1>7. ASSUME CheckTimeout
      PROVE  TypeOK'
  <2> DEFINE late == Checked \cap expired
  <2>1. PICK nested \in Nested(late) :
          /\ Complete(late, nested)
          /\ connPending' = (connPending \ late) \cup ToConnPending(nested)
          /\ writeWait' = (writeWait \ late) \cup ToWriteWait(nested)
          /\ respPending' = respPending \ late
          /\ writeAsync' = (writeAsync \/ Wakes(nested))
          /\ checkTimer' \in Rearm(nested)
    BY <1>7 DEF CheckTimeout
  <2>2. nested \subseteq Msgs
    BY NestedNew
  <2>3. /\ call' \in [Msgs -> CallPlace]
        /\ held' \subseteq Msgs
        /\ expired' \subseteq Timed
    BY <2>1, <2>2, CompleteType
  <2>4. checkTimer' \in BOOLEAN
    BY <2>1 DEF Rearm
  <2> HIDE DEF late
  <2> QED
    BY <1>7, <2>1, <2>2, <2>3, <2>4, NestedQueues DEF CheckTimeout
<1> QED
  BY <1>1, <1>2, <1>3, <1>4, <1>5, <1>6, <1>7 DEF WriteHandler

\* The types as a reset changes them.
LEMMA ResetType ==
    ASSUME TypeOK, Reset
    PROVE  TypeOK'
<1>1. PICK nested \in Nested(Queued) :
        /\ Complete(Queued, nested)
        /\ connPending' = ToConnPending(nested)
        /\ writeWait' = ToWriteWait(nested)
        /\ writeAsync' = (writeAsync \/ Wakes(nested))
  BY DEF Reset
<1>2. nested \subseteq Msgs
  BY NestedNew
<1>3. /\ call' \in [Msgs -> CallPlace]
      /\ held' \subseteq Msgs
      /\ expired' \subseteq Timed
  BY <1>1, <1>2, CompleteType
<1> QED
  BY <1>1, <1>2, <1>3, NestedQueues, LinkTypeReset DEF Reset, TypeOK, Items

\* Type correctness is inductive by itself.
LEMMA TypeNext == TypeOK /\ [Next]_vars => TypeOK'
<1> SUFFICES ASSUME TypeOK, [Next]_vars
             PROVE  TypeOK'
  OBVIOUS
<1>1. CASE UserStep
  BY <1>1, CallType, ConnType DEF UserStep
<1>2. CASE \E m \in Msgs : Expire(m) \/ Response(m)
  BY <1>2, CallType, ResponseType
<1>3. CASE WriteHandler \/ WriteDone \/ WriteDoneError \/ CheckTimeout \/ SendHeartbeat
  BY <1>3, WriteType, ConnType
<1>4. CASE ConnHandler \/ Handshake \/ HandshakeAck \/ LinkHandler \/ ResetSteps
  BY <1>4, ConnType, ResetType DEF ResetSteps
<1>5. CASE UNCHANGED vars
  BY <1>5 DEF vars, linkVars, queueVars, msgVars, TypeOK, LinkTypeOK
<1> QED
  BY <1>1, <1>2, <1>3, <1>4, <1>5 DEF Next

\* Every variable keeps the type TcpWrite gives it.
THEOREM TypeCorrect == Spec => []TypeOK
<1>1. Init => TypeOK
  BY DEF Init, LinkInit, TypeOK, LinkTypeOK, ClientState, TransportState, UvPlace,
         AfterReset, CallPlace, UserCall
<1> QED
  BY <1>1, TypeNext, PTL DEF Spec

-----------------------------------------------------------------------------
(* The messages and the queues.                                            *)

\* Steps that move no message keep what is said of them.
LEMMA QueueUnchanged ==
    ASSUME QueueInv,
           UNCHANGED <<call, held, connPending, writeWait, writing, respPending,
                       written, isWriting>>
    PROVE  QueueInv'
BY DEF QueueInv, OneQueue, NoLostMessage, OnlyAnsweredOrphans, WritingInFlight,
       CallStage, WrittenOnce, Queued

\* What a handler that completes messages owes the queues, whichever of them
\* it empties: what leaves the queues is completed, what it completes leaves
\* them or is a request being written or waiting, and callbacks add only
\* messages that were new.
LEMMA Completion ==
    ASSUME TypeOK, QueueInv,
           NEW acked, acked \subseteq Queued \cup written,
           NEW nested \in Nested(acked), Complete(acked, nested),
           NEW C, C \subseteq connPending,
           NEW W, W \subseteq writeWait,
           connPending' = C \cup ToConnPending(nested),
           writeWait' = W \cup ToWriteWait(nested),
           writing' \subseteq writing,
           respPending' \subseteq respPending,
           written' \subseteq written,
           Queued \cap Msgs \subseteq C \cup W \cup writing' \cup respPending' \cup acked,
           (C \cup W) \cap acked \cap Msgs = {},
           (writing' \cup respPending') \cap acked \cap Msgs \subseteq Reqs,
           writing' # {} => isWriting'
    PROVE  QueueInv'
<1> nested \subseteq Msgs /\ \A m \in nested : call[m] = "new"
  BY NestedNew
<1> USE NestedQueues
<1>1. \A m \in Msgs : call[m] = "new" => m \notin Queued \cup written \cup held
  BY DEF QueueInv, CallStage
<1>2. \A m \in Msgs : call'[m] = IF m \notin nested THEN call[m]
                                ELSE IF NestedAccepted THEN "returned" ELSE "rejected"
  BY DEF Complete
<1>3. held' = IF NestedAccepted THEN (held \ acked) \cup nested ELSE held \ acked
  BY DEF Complete
<1>4. OneQueue'
  BY <1>1 DEF OneQueue, QueueInv, Queued, TypeOK
<1>5. NoLostMessage'
  BY <1>1, <1>2, <1>3 DEF NoLostMessage, QueueInv, Queued, TypeOK
<1>6. OnlyAnsweredOrphans'
  BY <1>1, <1>3 DEF OnlyAnsweredOrphans, QueueInv, Queued, TypeOK, OneQueue
<1>7. WritingInFlight'
  BY DEF WritingInFlight
<1>8. CallStage'
  <2> SUFFICES ASSUME NEW m \in Msgs
               PROVE  /\ call'[m] \in {"new", "rejected"} => m \notin held'
                      /\ call'[m] \in {"sending", "encoded"} => m \in held'
                      /\ call'[m] \in {"new", "rejected", "sending", "encoded"} =>
                           m \notin Queued' \cup written'
    BY DEF CallStage
  <2>1. CASE m \in nested
    BY <2>1, <1>1, <1>2, <1>3 DEF Queued
  <2>2. CASE m \notin nested
    BY <2>2, <1>2, <1>3 DEF Queued, QueueInv, CallStage, TypeOK
  <2> QED
    BY <2>1, <2>2
<1>9. WrittenOnce'
  BY <1>1 DEF WrittenOnce, QueueInv, TypeOK
<1> QED
  BY <1>4, <1>5, <1>6, <1>7, <1>8, <1>9 DEF QueueInv

\* The steps of a call.
LEMMA QueueCall ==
    ASSUME TypeOK, QueueInv, NEW m \in Msgs
    PROVE  /\ Call(m) => QueueInv'
           /\ SendStep(m) => QueueInv'
           /\ Expire(m) => QueueInv'
<1> USE DEF QueueInv, OneQueue, NoLostMessage, OnlyAnsweredOrphans, WritingInFlight,
            CallStage, WrittenOnce, Queued, queueVars
<1>1. Call(m) => QueueInv'
  BY DEF Call, TypeOK
<1>2. SendCheck(m) => QueueInv'
  BY DEF SendCheck, SendFails, TypeOK
<1>3. SendEncodeFails(m) => QueueInv'
  BY DEF SendEncodeFails, SendFails, TypeOK
<1>4. ASSUME SendEnqueue(m)
      PROVE  QueueInv'
  <2>1. m \in held /\ m \notin Queued \cup written
    BY <1>4 DEF SendEnqueue
  <2>2. /\ call' = [call EXCEPT ![m] = "queued"]
        /\ UNCHANGED <<held, writing, respPending, written, isWriting>>
    BY <1>4 DEF SendEnqueue
  <2>3. \/ writeWait' = writeWait \cup {m} /\ connPending' = connPending
        \/ connPending' = connPending \cup {m} /\ writeWait' = writeWait
    BY <1>4 DEF SendEnqueue
  <2> QED
    BY <2>1, <2>2, <2>3 DEF TypeOK
<1>5. SendWake(m) => QueueInv'
  BY DEF SendWake, TypeOK
<1>6. Expire(m) => QueueInv'
  BY DEF Expire
<1> QED
  BY <1>1, <1>2, <1>3, <1>4, <1>5, <1>6 DEF SendStep

\* An internal item may join write_wait at any time.
LEMMA QueueInternal ==
    ASSUME TypeOK, QueueInv, NEW i \in Internal,
           writeWait' = writeWait \cup {i},
           UNCHANGED <<call, held, connPending, writing, respPending, written,
                       isWriting>>
    PROVE  QueueInv'
<1> i \notin Msgs /\ Reqs \subseteq Msgs
  BY MsgAssumption DEF Msgs
<1> QED
  BY DEF QueueInv, OneQueue, NoLostMessage, OnlyAnsweredOrphans, WritingInFlight,
         CallStage, WrittenOnce, Queued, TypeOK

\* The write path.
LEMMA QueueWrite ==
    ASSUME TypeOK, QueueInv
    PROVE  /\ WriteHandler => QueueInv'
           /\ WriteDone => QueueInv'
           /\ WriteDoneError => QueueInv'
           /\ SendHeartbeat => QueueInv'
<1>1. WriteNotNow => QueueInv'
  BY QueueUnchanged DEF WriteNotNow, msgVars
<1>2. WriteNothing => QueueInv'
  BY QueueUnchanged DEF WriteNothing, msgVars
<1>3. WriteStart => QueueInv'
  BY DEF WriteStart, msgVars, ToWrite, StillPending, QueueInv, OneQueue, NoLostMessage,
         OnlyAnsweredOrphans, WritingInFlight, CallStage, WrittenOnce, Queued, TypeOK
<1>4. ASSUME WriteRefused
      PROVE  QueueInv'
  <2> DEFINE acked == writing \cup ToWrite
  <2>1. PICK nested \in Nested(acked) :
          /\ Complete(acked, nested)
          /\ connPending' = StillPending \cup ToConnPending(nested)
          /\ writeWait' = {} \cup ToWriteWait(nested)
    BY <1>4 DEF WriteRefused
  <2>2. writing' = {} /\ UNCHANGED <<respPending, written>>
    BY <1>4 DEF WriteRefused
  <2>3. /\ StillPending \subseteq connPending
        /\ StillPending \cap acked = {}
        /\ acked \subseteq Queued
        /\ Queued \subseteq StillPending \cup respPending \cup acked
        /\ respPending \cap acked = {}
    BY DEF StillPending, ToWrite, Queued, QueueInv, OneQueue
  <2> HIDE DEF acked
  <2> QED
    BY <2>1, <2>2, <2>3, Completion
<1>5. ASSUME WriteDone
      PROVE  QueueInv'
  <2>1. /\ call' = call
        /\ held' = held \ (writing \cap Notifies)
        /\ respPending' = respPending \cup (writing \cap Reqs)
        /\ writing' = {}
        /\ UNCHANGED <<connPending, writeWait, written>>
    BY <1>5 DEF WriteDone, Complete, TypeOK
  <2> USE <2>1, MsgAssumption DEF QueueInv, TypeOK, Queued, Msgs
  <2>2. OneQueue'
    BY DEF OneQueue
  <2>3. NoLostMessage'
    BY DEF NoLostMessage
  <2>4. OnlyAnsweredOrphans'
    BY DEF OnlyAnsweredOrphans, OneQueue
  <2>5. WritingInFlight'
    BY DEF WritingInFlight
  <2>6. CallStage'
    BY DEF CallStage
  <2>7. WrittenOnce'
    BY DEF WrittenOnce
  <2> QED
    BY <2>2, <2>3, <2>4, <2>5, <2>6, <2>7
<1>6. ASSUME WriteDoneError
      PROVE  QueueInv'
  <2>1. PICK nested \in Nested(writing) :
          /\ Complete(writing, nested)
          /\ connPending' = connPending \cup ToConnPending(nested)
          /\ writeWait' = writeWait \cup ToWriteWait(nested)
    BY <1>6 DEF WriteDoneError
  <2>2. writing' = {} /\ UNCHANGED <<respPending, written>>
    BY <1>6 DEF WriteDoneError
  <2>3. /\ writing \subseteq Queued
        /\ Queued \subseteq connPending \cup writeWait \cup respPending \cup writing
        /\ (connPending \cup writeWait) \cap writing \cap Msgs = {}
        /\ respPending \cap writing = {}
    BY DEF Queued, QueueInv, OneQueue
  <2> QED
    BY <2>1, <2>2, <2>3, Completion
<1>7. SendHeartbeat => QueueInv'
  BY QueueInternal DEF SendHeartbeat, msgVars, Internal
<1> QED
  BY <1>1, <1>2, <1>3, <1>4, <1>5, <1>6, <1>7 DEF WriteHandler

\* Timeouts and responses.
LEMMA QueueCheck ==
    ASSUME TypeOK, QueueInv, CheckTimeout
    PROVE  QueueInv'
<1> DEFINE late == Checked \cap expired
           C == connPending \ late
           W == writeWait \ late
<1>1. PICK nested \in Nested(late) :
        /\ Complete(late, nested)
        /\ connPending' = C \cup ToConnPending(nested)
        /\ writeWait' = W \cup ToWriteWait(nested)
        /\ respPending' = respPending \ late
  BY DEF CheckTimeout
<1>2. UNCHANGED <<writing, written, isWriting>>
  BY DEF CheckTimeout
<1>3. late \subseteq Queued /\ late \cap writing = {}
  BY MsgAssumption DEF Checked, Queued, QueueInv, OneQueue, TypeOK
<1>4. /\ C \subseteq connPending /\ W \subseteq writeWait
      /\ Queued \subseteq C \cup W \cup writing' \cup respPending' \cup late
      /\ (C \cup W) \cap late = {}
      /\ (writing' \cup respPending') \cap late = {}
      /\ writing' # {} => isWriting'
  BY <1>1, <1>2, <1>3 DEF Queued, QueueInv, WritingInFlight
<1> HIDE DEF late, C, W
<1> QED
  BY <1>1, <1>2, <1>3, <1>4, Completion

\* A response is only accepted for a request written on this connection, so
\* the request is in neither of the queues that wait to be written.
LEMMA QueueResponse ==
    ASSUME TypeOK, QueueInv, NEW m \in Msgs, Response(m)
    PROVE  QueueInv'
<1>1. PICK nested \in Nested({m}) :
        /\ Complete({m}, nested)
        /\ connPending' = connPending \cup ToConnPending(nested)
        /\ writeWait' = writeWait \cup ToWriteWait(nested)
  BY DEF Response
<1>2. /\ m \in Reqs /\ m \in written
      /\ respPending' = respPending \ {m}
      /\ UNCHANGED <<writing, written, isWriting>>
  BY DEF Response
<1>3. /\ (connPending \cup writeWait) \cap {m} = {}
      /\ writing # {} => isWriting
  BY <1>2 DEF QueueInv, WrittenOnce, WritingInFlight
<1>4. Queued \subseteq connPending \cup writeWait \cup writing' \cup respPending' \cup {m}
  BY <1>2 DEF Queued
<1> QED
  BY <1>1, <1>2, <1>3, <1>4, Completion

\* The connection's steps.
LEMMA QueueConn ==
    ASSUME TypeOK, QueueInv
    PROVE  /\ ConnHandler => QueueInv'
           /\ Handshake => QueueInv'
           /\ HandshakeAck => QueueInv'
           /\ LinkHandler => QueueInv'
           /\ ResetSteps => QueueInv'
           /\ Cleanup => QueueInv'
           /\ UNCHANGED <<queueVars, msgVars>> => QueueInv'
<1>1. UNCHANGED <<queueVars, msgVars>> => QueueInv'
  BY QueueUnchanged DEF queueVars, msgVars
<1>2. Redial => QueueInv'
  BY DEF Redial, msgVars, QueueInv, OneQueue, NoLostMessage, OnlyAnsweredOrphans,
         WritingInFlight, CallStage, WrittenOnce, Queued
<1>3. Handshake => QueueInv'
  BY QueueInternal DEF Handshake, msgVars, Internal
<1>4. HandshakeAck => QueueInv'
  BY QueueInternal DEF HandshakeAck, msgVars, Internal
<1>5. ASSUME Reset
      PROVE  QueueInv'
  <2> DEFINE none == {}
  <2>1. PICK nested \in Nested(Queued) :
          /\ Complete(Queued, nested)
          /\ connPending' = none \cup ToConnPending(nested)
          /\ writeWait' = none \cup ToWriteWait(nested)
    BY <1>5 DEF Reset
  <2>2. writing' = {} /\ respPending' = {} /\ written' = {}
    BY <1>5 DEF Reset
  <2>3. none \subseteq connPending /\ none \subseteq writeWait /\ none \cup none = {}
    OBVIOUS
  <2> HIDE DEF none
  <2> QED
    BY <2>1, <2>2, <2>3, Completion
<1> QED
  BY <1>1, <1>2, <1>3, <1>4, <1>5
  DEF ConnHandler, LinkHandler, ResetSteps, ResetTail, Cleanup

\* Every step of the system keeps QueueInv.
LEMMA QueueNext == TypeOK /\ QueueInv /\ [Next]_vars => QueueInv'
<1> SUFFICES ASSUME TypeOK, QueueInv, [Next]_vars
             PROVE  QueueInv'
  OBVIOUS
<1>1. CASE UserStep
  BY <1>1, QueueCall, QueueConn DEF UserStep
<1>2. CASE \E m \in Msgs : Expire(m) \/ Response(m)
  BY <1>2, QueueCall, QueueResponse
<1>3. CASE WriteHandler \/ WriteDone \/ WriteDoneError \/ CheckTimeout \/ SendHeartbeat
  BY <1>3, QueueWrite, QueueCheck
<1>4. CASE ConnHandler \/ Handshake \/ HandshakeAck \/ LinkHandler \/ ResetSteps
  BY <1>4, QueueConn
<1>5. CASE UNCHANGED vars
  BY <1>5, QueueConn DEF vars
<1> QED
  BY <1>1, <1>2, <1>3, <1>4, <1>5 DEF Next

-----------------------------------------------------------------------------
(* Cleaning up.                                                            *)

\* The handlers of the write path and of timeouts.
LEMMA CleanupLoopSteps ==
    ASSUME CleanupInv
    PROVE  /\ WriteHandler => CleanupInv'
           /\ WriteDone => CleanupInv'
           /\ WriteDoneError => CleanupInv'
           /\ CheckTimeout => CleanupInv'
<1> USE CleanupLoop, CleanupComplete
<1>1. WriteHandler => CleanupInv'
  BY DEF WriteHandler, WriteNotNow, WriteNothing, WriteStart, WriteRefused, msgVars
<1>2. WriteDone => CleanupInv'
  BY DEF WriteDone
<1>3. WriteDoneError => CleanupInv'
  BY DEF WriteDoneError
<1>4. CheckTimeout => CleanupInv'
  BY DEF CheckTimeout
<1> QED
  BY <1>1, <1>2, <1>3, <1>4

\* A reset while the client is being cleaned up moves no call of a user thread.
LEMMA CleanupReset ==
    ASSUME CleanupInv, Reset
    PROVE  CleanupInv'
<1>1. PICK nested \in Nested(Queued) : Complete(Queued, nested)
  BY DEF Reset
<1>2. /\ uvpc = "reset" /\ uvpc' = "flushed"
      /\ UNCHANGED <<after, phase>>
  BY DEF Reset, ResetFlush
<1> QED
  BY <1>1, <1>2, CleanupComplete DEF CleanupInv

\* Every step of the system keeps CleanupInv.
LEMMA CleanupNext == TypeOK /\ QueueInv /\ CleanupInv /\ [Next]_vars => CleanupInv'
<1> SUFFICES ASSUME TypeOK, QueueInv, CleanupInv, [Next]_vars
             PROVE  CleanupInv'
  OBVIOUS
<1>1. CASE UserStep
  BY <1>1, CleanupUser
<1>2. CASE \E m \in Msgs : Expire(m) \/ Response(m)
  BY <1>2, CleanupUser, CleanupConn
<1>3. CASE WriteHandler \/ WriteDone \/ WriteDoneError \/ CheckTimeout \/ SendHeartbeat
  BY <1>3, CleanupLoopSteps, CleanupConn
<1>4. CASE ConnHandler \/ Handshake \/ HandshakeAck \/ LinkHandler \/ ResetSteps
  BY <1>4, CleanupConn, CleanupReset DEF ResetSteps
<1>5. CASE UNCHANGED vars
  BY <1>5 DEF vars, linkVars, msgVars, CleanupInv
<1> QED
  BY <1>1, <1>2, <1>3, <1>4, <1>5 DEF Next

-----------------------------------------------------------------------------
(* The theorems.                                                           *)

\* IInv is inductive.
LEMMA Inductive == Spec => []IInv
<1>1. Init => IInv
  <2> SUFFICES ASSUME Init
               PROVE  IInv
    OBVIOUS
  <2>1. TypeOK
    BY DEF Init, LinkInit, TypeOK, LinkTypeOK, ClientState, TransportState, UvPlace,
           AfterReset, CallPlace, UserCall
  <2>2. QueueInv
    BY DEF Init, QueueInv, OneQueue, NoLostMessage, OnlyAnsweredOrphans,
           WritingInFlight, CallStage, WrittenOnce, Queued
  <2>3. CleanupInv
    BY DEF Init, LinkInit, CleanupInv
  <2> QED
    BY <2>1, <2>2, <2>3 DEF IInv
<1>2. IInv /\ [Next]_vars => IInv'
  BY TypeNext, QueueNext, CleanupNext DEF IInv
<1> QED
  BY <1>1, <1>2, PTL DEF Spec

\* No write item is ever linked into two of the transport's queues.
THEOREM OneQueueHolds == Spec => []OneQueue
<1>1. IInv => OneQueue
  BY DEF IInv, QueueInv
<1> QED
  BY <1>1, Inductive, PTL

\* No accepted message is ever lost: whatever resets, errors, timeouts and
\* reconnections do, someone still has it to complete.
THEOREM NoMessageLost == Spec => []NoLostMessage
<1>1. IInv => NoLostMessage
  BY DEF IInv, QueueInv
<1> QED
  BY <1>1, Inductive, PTL

\* The only completed messages the transport still keeps are requests whose
\* response overtook the end of their own write.
THEOREM OrphansAnswered == Spec => []OnlyAnsweredOrphans
<1>1. IInv => OnlyAnsweredOrphans
  BY DEF IInv, QueueInv
<1> QED
  BY <1>1, Inductive, PTL

\* The writing queue holds items only while uv has their buffers.
THEOREM WritingOnlyInFlight == Spec => []WritingInFlight
<1>1. IInv => WritingInFlight
  BY DEF IInv, QueueInv
<1> QED
  BY <1>1, Inductive, PTL

\* What the last reset leaves in the client's lists: it holds only messages of
\* calls that began inside it.  No other message can be left out, since every
\* call of a user thread has returned and what it had accepted is queued.
LEMMA LastReset ==
    ASSUME TypeOK, QueueInv, CleanupInv, Reset, after = "cleanup", NEW m \in held'
    PROVE  call[m] = "new"
<1>1. PICK nested \in Nested(Queued) : Complete(Queued, nested)
  BY DEF Reset
<1>2. phase = "cleaning"
  BY DEF CleanupInv, Reset, ResetFlush
<1>3. held \subseteq Queued
  BY <1>2 DEF QueueInv, NoLostMessage, CleanupInv, TypeOK
<1>4. m \in nested
  BY <1>1, <1>3 DEF Complete
<1> QED
  BY <1>4, NestedNew

\* Only a reset takes the uv thread from "reset" on.
LEMMA OnlyReset ==
    ASSUME [Next]_vars, uvpc = "reset", uvpc' = "flushed"
    PROVE  Reset
<1> USE DEF linkVars
<1>1. ASSUME UserStep
      PROVE  FALSE
  <2>1. ASSUME NEW m \in Msgs, Call(m) \/ SendStep(m)
        PROVE  FALSE
    BY <2>1 DEF Call, SendStep, SendCheck, SendEncodeFails, SendFails, SendEnqueue, SendWake
  <2> QED
    BY <1>1, <2>1 DEF UserStep, EnterConnect, EnterDisconnect, ConnectStep, UserConnect,
       ConnectRefused, ConnectTakenBack, UserDisconnect, Cleanup, UserCleanup
<1>2. ~ \E m \in Msgs : Expire(m) \/ Response(m)
  BY DEF Expire, Response
<1>3. ~ (WriteHandler \/ WriteDone \/ WriteDoneError \/ CheckTimeout \/ SendHeartbeat)
  BY DEF WriteHandler, WriteNotNow, WriteNothing, WriteStart, WriteRefused, WriteDone,
         WriteDoneError, CheckTimeout, SendHeartbeat
<1>4. ~ (ConnHandler \/ Handshake \/ HandshakeAck)
  BY DEF ConnHandler, Redial, DialStart, DialIgnored, DialError, Handshake, DialUp,
         HandshakeAck, HandshakeOk
<1>5. ~ LinkHandler
  BY DEF LinkHandler, LoopHandler, PackageHandler, PackageRead, BeginReset,
         ReconnDelay, DialTimeout, DialDown, ReadStartFails, HandshakeBad,
         HandshakeTimer, Lost, ProtoError, Kick, DisconnectAsync, CleanupAsync
<1>6. ~ ResetTail
  BY DEF ResetTail, ResetEnd, ReconnBegin, ReconnDisabled, ReconnAnnounce, ReconnWait,
         ReconnGiveUp, ReconnGaveUp, FeedEnd
<1>7. ~ UNCHANGED vars
  BY DEF vars
<1> QED
  BY <1>1, <1>2, <1>3, <1>4, <1>5, <1>6, <1>7 DEF Next, ResetSteps

\* Between the last reset and the end of the uv thread nothing reaches the
\* client's lists.
LEMMA AfterLastReset ==
    ASSUME TypeOK, CleanupInv, [Next]_vars, after = "cleanup", uvpc = "flushed"
    PROVE  held' = held
<1>1. phase = "cleaning" /\ \A m \in Msgs : call[m] \in {"new", "returned", "rejected"}
  BY DEF CleanupInv
<1>2. CASE UserStep
  <2>1. ASSUME NEW m \in Msgs, Call(m) \/ SendStep(m)
        PROVE  FALSE
    BY <1>1, <2>1 DEF Call, SendStep, SendCheck, SendEncodeFails, SendEnqueue, SendWake
  <2> QED
    BY <1>2, <2>1 DEF UserStep, Cleanup, msgVars
<1>3. ASSUME NEW m \in Msgs, Expire(m) \/ Response(m)
      PROVE  held' = held
  BY <1>3 DEF Expire, Response
<1>4. ~ (WriteHandler \/ WriteDone \/ WriteDoneError \/ CheckTimeout \/ SendHeartbeat)
  BY DEF WriteHandler, WriteNotNow, WriteNothing, WriteStart, WriteRefused, WriteDone,
         WriteDoneError, CheckTimeout, SendHeartbeat
<1>5. CASE ConnHandler \/ Handshake \/ HandshakeAck \/ LinkHandler \/ ResetTail
  BY <1>5 DEF ConnHandler, Redial, Handshake, HandshakeAck, LinkHandler, ResetTail, msgVars
<1>6. ~ Reset
  BY DEF Reset, ResetFlush
<1>7. CASE UNCHANGED vars
  BY <1>7 DEF vars, msgVars
<1> QED
  BY <1>2, <1>3, <1>4, <1>5, <1>6, <1>7 DEF Next, ResetSteps

\* When pc_client_cleanup joins the uv thread, the client's lists hold nothing
\* but messages whose calls were made inside the cleanup's own reset, by the
\* callbacks it ran: whatever a user thread, or a callback before that reset,
\* had sent has been completed.
THEOREM CleanupReleases == Spec => CleanupAcks
<1>1. ASSUME IInv, [Next]_vars
      PROVE  [after = "cleanup" /\ uvpc = "reset" /\ uvpc' = "flushed"
                => \A m \in held' : call[m] = "new"]_vars
  BY <1>1, OnlyReset, LastReset DEF IInv
<1>2. ASSUME IInv, [Next]_vars
      PROVE  [after = "cleanup" /\ uvpc = "flushed" => held' = held]_vars
  BY <1>2, AfterLastReset DEF IInv
<1> QED
  BY <1>1, <1>2, Inductive, PTL DEF Spec, CleanupAcks

-----------------------------------------------------------------------------
(* The transport implements the life of a message.                         *)

\* Every step of the system moves every message as its abstract life allows.
LEMMA LifeNext == TypeOK /\ QueueInv /\ [Next]_vars => LifeMoves
<1> SUFFICES ASSUME TypeOK, QueueInv, [Next]_vars
             PROVE  LifeMoves
  OBVIOUS
<1> CallHeld
  BY DEF QueueInv, CallStage, CallHeld
<1> USE LifeUnchanged, LifeComplete
<1>1. CASE UserStep
  BY <1>1, LifeCall DEF UserStep, Cleanup, msgVars
<1>2. ASSUME NEW m \in Msgs, Expire(m) \/ Response(m)
      PROVE  LifeMoves
  BY <1>2 DEF Expire, Response
<1>3. CASE WriteHandler \/ SendHeartbeat
  BY <1>3 DEF WriteHandler, WriteNotNow, WriteNothing, WriteStart, WriteRefused,
              SendHeartbeat, msgVars
<1>4. CASE WriteDone
  <2>1. {} \in Nested(writing \cap Notifies)
    BY DEF Nested
  <2> QED
    BY <1>4, <2>1 DEF WriteDone
<1>5. CASE WriteDoneError \/ CheckTimeout
  BY <1>5 DEF WriteDoneError, CheckTimeout
<1>6. CASE ConnHandler \/ Handshake \/ HandshakeAck \/ LinkHandler
  BY <1>6 DEF ConnHandler, Redial, Handshake, HandshakeAck, LinkHandler, msgVars
<1>7. CASE ResetSteps
  BY <1>7 DEF ResetSteps, ResetTail, Reset, msgVars
<1>8. CASE UNCHANGED vars
  BY <1>8 DEF vars, msgVars
<1> QED
  BY <1>1, <1>2, <1>3, <1>4, <1>5, <1>6, <1>7, <1>8 DEF Next

\* However calls, writes, responses, timeouts and resets interleave, a message
\* is opened at most once, completed at most once, and never after its call
\* has failed.
THEOREM Refinement == Spec => ImplementsRequestLife
<1>1. Init => Abstract!Init
  BY DEF Init, Abstract!Init, Life
<1>2. IInv /\ [Next]_vars => [Abstract!Next]_Life
  <2> SUFFICES ASSUME IInv, [Next]_vars
               PROVE  Abstract!Next
    OBVIOUS
  <2>1. Life' \in [Msgs -> Abstract!LifeStage]
    BY DEF Life, Abstract!LifeStage
  <2>2. LifeMoves
    BY LifeNext DEF IInv
  <2> QED
    BY <2>1, <2>2 DEF Abstract!Next, LifeMoves
<1> QED
  BY <1>1, <1>2, Inductive, PTL DEF Spec, ImplementsRequestLife, Abstract!Spec

=============================================================================
