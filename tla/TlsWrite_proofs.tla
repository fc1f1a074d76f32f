--------------------------- MODULE TlsWrite_proofs ---------------------------
(***************************************************************************)
(* What the runs of TlsWrite show on small instances, proved for every set *)
(* of messages, every choice of faults and every configuration.            *)
(***************************************************************************)
EXTENDS TlsWrite, WriteQueues_proofs

\* A message is in one place at most.
OnePlace(m) ==
    /\ m \in connPending => m \notin writeWait \cup writing \cup respPending \cup tcpWait \cup retry
    /\ m \in writeWait => m \notin writing \cup respPending \cup tcpWait \cup retry
    /\ m \in writing => m \notin respPending \cup tcpWait \cup retry
    /\ m \in respPending => m \notin tcpWait \cup retry
    /\ m \in tcpWait => m \notin retry

\* Someone has it to complete once it has been accepted, and a call that has not
\* reached the queues has left no trace in them.
Owned(m) ==
    /\ m \in held => call[m] \in {"sending", "encoded"} \/ m \in Queued
    /\ call[m] \in {"new", "rejected"} => m \notin held
    /\ call[m] \in {"sending", "encoded"} => m \in held
    /\ call[m] \in {"new", "rejected", "sending", "encoded"} => m \notin Queued \cup written

QueueInv == \A m \in Msgs : OnePlace(m) /\ Owned(m)

\* SSL_write is called with the item to be retried, or the transport is reset.
RetryInv == retry # {} => retryBuf \/ uvpc = "reset"

IInv == TlsTypeOK /\ QueueInv /\ WaitHasBytes /\ RetryInv

-----------------------------------------------------------------------------
(* Messages that are moved, and messages that are completed.               *)

\* A step that only moves messages from queue to queue.
LEMMA Moved ==
    ASSUME QueueInv, UNCHANGED <<call, held>>,
           \A m \in Msgs : /\ m \in Queued' <=> m \in Queued
                           /\ m \in written' => m \in Queued \cup written
                           /\ OnePlace(m)'
    PROVE  QueueInv'
BY DEF QueueInv, Owned

\* A handler that completes messages, whichever queues it empties: what leaves
\* the queues is completed, and callbacks add only messages that were new.
LEMMA Completion ==
    ASSUME TypeOK, QueueInv,
           NEW acked, NEW nested \in Nested(acked), Complete(acked, nested),
           NEW C, C \subseteq connPending,
           NEW W, W \subseteq writeWait,
           connPending' = C \cup ToConnPending(nested),
           writeWait' = W \cup ToWriteWait(nested),
           \A m \in Msgs :
             /\ m \in writing' \cup respPending' \cup tcpWait' \cup retry' =>
                  m \in writing \cup respPending \cup tcpWait \cup retry
             /\ m \in writing' => m \notin respPending' \cup tcpWait' \cup retry'
             /\ m \in respPending' => m \notin tcpWait' \cup retry'
             /\ m \in tcpWait' => m \notin retry'
             /\ m \in written' => m \in Queued \cup written
             /\ m \in acked => m \in Queued \cup written
             /\ m \in Queued => m \in C \cup W \cup writing' \cup respPending'
                                     \cup tcpWait' \cup retry' \cup acked
    PROVE  QueueInv'
<1>1. nested \subseteq Msgs /\ \A m \in nested : call[m] = "new"
  BY NestedNew
<1>2. \A m \in Msgs : call'[m] = IF m \notin nested THEN call[m]
                                ELSE IF NestedAccepted THEN "returned" ELSE "rejected"
  BY DEF Complete
<1>3. held' = IF NestedAccepted THEN (held \ acked) \cup nested ELSE held \ acked
  BY DEF Complete
<1> SUFFICES ASSUME NEW m \in Msgs
             PROVE  OnePlace(m)' /\ Owned(m)'
  BY DEF QueueInv
<1>4. OnePlace(m) /\ Owned(m)
  BY DEF QueueInv
<1>5. CASE m \in nested
  <2>1. call[m] = "new" /\ m \notin Queued \cup written \cup held
    BY <1>1, <1>4, <1>5 DEF Owned
  <2>2. /\ m \notin C \cup W
        /\ m \notin writing' \cup respPending' \cup tcpWait' \cup retry' \cup written'
    BY <2>1 DEF Queued
  <2>3. OnePlace(m)'
    BY <2>2, NestedQueues DEF OnePlace
  <2>4. CASE NestedAccepted
    <3>1. call'[m] = "returned"
      BY <1>2, <1>5, <2>4
    <3>2. m \in Queued'
      BY <1>5, <2>4, NestedQueues DEF Queued
    <3> QED
      BY <2>3, <3>1, <3>2 DEF Owned
  <2>5. CASE ~NestedAccepted
    <3>1. call'[m] = "rejected" /\ m \notin held'
      BY <1>2, <1>3, <1>5, <2>1, <2>5
    <3>2. m \notin Queued' \cup written'
      BY <2>2, <2>5, NestedQueues DEF Queued
    <3> QED
      BY <2>3, <3>1, <3>2 DEF Owned
  <2> QED
    BY <2>4, <2>5
<1>6. CASE m \notin nested
  <2>1. m \notin ToConnPending(nested) \cup ToWriteWait(nested)
    BY <1>6, NestedQueues
  <2>2. OnePlace(m)'
    BY <2>1, <1>4 DEF OnePlace
  <2>3. m \in Queued' => m \in Queued
    BY <2>1 DEF Queued
  <2>4. m \in Queued => m \in Queued' \cup acked
    BY <2>1 DEF Queued
  <2>5. m \in acked => call[m] \notin {"sending", "encoded"}
    BY <1>4 DEF Owned
  <2>6. Owned(m)'
    BY <2>5, <1>2, <1>3, <1>4, <1>6, <2>3, <2>4 DEF Owned
  <2> QED
    BY <2>2, <2>6
<1> QED
  BY <1>5, <1>6

\* The steps of a call.
LEMMA QueueCall ==
    ASSUME TypeOK, QueueInv, UNCHANGED tlsVars, NEW m \in Msgs,
           Call(m) \/ SendStep(m) \/ Expire(m)
    PROVE  QueueInv'
<1> USE DEF QueueInv, OnePlace, Owned, Queued, queueVars, tlsVars, TypeOK
<1>1. CASE Call(m)
  BY <1>1 DEF Call
<1>2. CASE SendCheck(m)
  BY <1>2 DEF SendCheck, SendFails
<1>3. CASE SendEncodeFails(m)
  BY <1>3 DEF SendEncodeFails, SendFails
<1>4. CASE SendEnqueue(m)
  BY <1>4 DEF SendEnqueue
<1>5. CASE SendWake(m)
  BY <1>5 DEF SendWake
<1>6. CASE Expire(m)
  BY <1>6 DEF Expire
<1> QED
  BY <1>1, <1>2, <1>3, <1>4, <1>5, <1>6 DEF SendStep

-----------------------------------------------------------------------------
(* tls__write_to_tcp and tls__write_to_bio.                                *)

\* What is to be written is written or waits, and waits only for a write.
LEMMA ToTcpMoves ==
    ASSUME NEW busy \in BOOLEAN, NEW wr, NEW tw, NEW out \in BOOLEAN, NEW wake \in BOOLEAN,
           ToTcp(busy, wr, tw, out, wake)
    PROVE  /\ \/ writing' = wr \cup tw /\ tcpWait' = {}
              \/ writing' = wr /\ tcpWait' = tw
           /\ written \subseteq written' /\ written' \subseteq written \cup wr \cup tw
           /\ isWriting' \in BOOLEAN /\ outPending' \in BOOLEAN /\ writeAsync' \in BOOLEAN
           /\ (tw # {} => out) => WaitHasBytes'
BY DEF ToTcp, SocketOpen, WaitHasBytes


LEMMA BioTakesMoves ==
    ASSUME IInv, uvpc = "loop", NEW wake \in BOOLEAN, BioTakes(wake), cycle' \in BOOLEAN
    PROVE  IInv'
<1> DEFINE taken == retry \cup ToWrite
<1>1. /\ connPending' = StillPending /\ checkTimer' = TRUE
      /\ writeWait' = {} /\ retry' = {} /\ retryBuf' = FALSE /\ tlsUp' = TRUE
      /\ UNCHANGED <<linkVars, msgVars, respPending>>
  BY DEF BioTakes, BioQueues
<1>2. /\ retry \subseteq Items /\ ToWrite \subseteq Items /\ StillPending \subseteq Msgs
      /\ isWriting \in BOOLEAN /\ outPending \in BOOLEAN
  BY ToWriteType DEF IInv, TlsTypeOK, TypeOK
<1>3. /\ \/ writing' \cup tcpWait' = writing \cup tcpWait \cup taken
         \/ taken = {} /\ writing' = writing /\ tcpWait' = tcpWait
      /\ \A m \in Msgs : ~(m \in writing' /\ m \in tcpWait')
      /\ written' \subseteq written \cup writing \cup tcpWait \cup taken
      /\ isWriting' \in BOOLEAN /\ outPending' \in BOOLEAN /\ writeAsync' \in BOOLEAN
      /\ WaitHasBytes'
  <2> \A m \in Msgs : /\ ~(m \in writing /\ m \in tcpWait)
                      /\ m \in writing \cup tcpWait => m \notin retry \cup connPending \cup writeWait
    BY DEF IInv, QueueInv, OnePlace
  <2> \A m \in Msgs : m \in ToWrite => m \in connPending \cup writeWait
    BY DEF ToWrite
  <2> USE <1>2
  <2>1. CASE (retryBuf \/ ToWrite # {}) /\ isWriting
    <3>1. ToTcp(TRUE, writing, tcpWait \cup taken, TRUE, wake)
      BY <2>1 DEF BioTakes
    <3>2. /\ written' \subseteq written \cup writing \cup (tcpWait \cup taken)
          /\ isWriting' \in BOOLEAN /\ outPending' \in BOOLEAN /\ writeAsync' \in BOOLEAN
          /\ WaitHasBytes'
      BY <3>1 DEF ToTcp, SocketOpen, WaitHasBytes
    <3>3. writing' = writing /\ tcpWait' = tcpWait \cup taken
      BY <3>1 DEF ToTcp
    <3> QED
      BY <3>2, <3>3
  <2>2. CASE (retryBuf \/ ToWrite # {}) /\ ~isWriting
    <3>1. ToTcp(FALSE, writing \cup taken, tcpWait, TRUE, wake)
      BY <2>2 DEF BioTakes
    <3>2. /\ written' \subseteq written \cup (writing \cup taken) \cup tcpWait
          /\ isWriting' \in BOOLEAN /\ outPending' \in BOOLEAN /\ writeAsync' \in BOOLEAN
          /\ WaitHasBytes'
      BY <3>1 DEF ToTcp, SocketOpen, WaitHasBytes
    <3>3. tcpWait = {}
      BY <2>2 DEF IInv, WaitHasBytes
    <3>4. writing' = writing \cup taken /\ tcpWait' = {}
      BY <3>1, <3>3 DEF ToTcp
    <3> QED
      BY <3>2, <3>3, <3>4
  <2>3. CASE ~(retryBuf \/ ToWrite # {})
    <3>1. taken = {}
      BY <2>3 DEF IInv, RetryInv
    <3>2. UNCHANGED <<writing, tcpWait, outPending, isWriting, written>> /\ writeAsync' = wake
      BY <2>3 DEF BioTakes
    <3> QED
      BY <3>1, <3>2 DEF IInv, WaitHasBytes
  <2> QED
    BY <2>1, <2>2, <2>3
<1>4. TypeOK'
  BY <1>1, <1>2, <1>3 DEF IInv, TlsTypeOK, TypeOK, linkVars, msgVars, LinkTypeOK
<1>5. TlsTypeOK'
  BY <1>1, <1>2, <1>3, <1>4 DEF IInv, TlsTypeOK, TypeOK
<1>6. QueueInv'
  <2> SUFFICES ASSUME NEW m \in Msgs
               PROVE  /\ m \in Queued' <=> m \in Queued
                      /\ m \in written' => m \in Queued \cup written
                      /\ OnePlace(m)'
    BY <1>1, Moved DEF IInv, msgVars
  <2>1. OnePlace(m)
    BY DEF IInv, QueueInv
  <2>2. m \in ToWrite \cup StillPending <=> m \in connPending \cup writeWait
    BY DEF ToWrite, StillPending
  <2>3. ~(m \in ToWrite /\ m \in StillPending)
    BY <2>1 DEF ToWrite, StillPending, OnePlace
  <2>4. /\ m \in writing' \cup tcpWait' <=> m \in writing \cup tcpWait \cup retry \cup ToWrite
        /\ ~(m \in writing' /\ m \in tcpWait')
    BY <1>3
  <2>5. m \in Queued' <=> m \in Queued
    BY <1>1, <2>2, <2>4 DEF Queued
  <2>6. m \in written' => m \in Queued \cup written
    BY <1>3, <2>2 DEF Queued
  <2>7. OnePlace(m)'
    BY <1>1, <2>1, <2>2, <2>3, <2>4 DEF OnePlace
  <2> QED
    BY <2>5, <2>6, <2>7
<1> QED
  BY <1>1, <1>3, <1>5, <1>6 DEF IInv, RetryInv

\* What write_wait holds once conn_pending has been moved into it.
LEMMA Moving ==
    ASSUME NEW m
    PROVE  /\ m \in ToWrite \cup StillPending <=> m \in connPending \cup writeWait
           /\ OnePlace(m) => ~(m \in ToWrite /\ m \in StillPending)
BY DEF ToWrite, StillPending, OnePlace

\* SSL_write has nothing to be retried when it has no buffer to be retried.
LEMMA NoRetry ==
    ASSUME IInv, uvpc = "loop", ~retryBuf
    PROVE  retry = {}
BY DEF IInv, RetryInv

\* The first item moves from write_wait to should_retry, where there was none.
LEMMA KeptForRetry ==
    ASSUME IInv, uvpc = "loop", ~retryBuf, NEW i \in Heads,
           connPending' = StillPending, writeWait' = ToWrite \ {i}, retry' = {i},
           UNCHANGED <<call, held, writing, respPending, written, tcpWait>>
    PROVE  QueueInv'
<1> SUFFICES ASSUME NEW m \in Msgs
             PROVE  /\ m \in Queued' <=> m \in Queued
                    /\ m \in written' => m \in Queued \cup written
                    /\ OnePlace(m)'
  BY Moved DEF IInv
<1>1. OnePlace(m)
  BY DEF IInv, QueueInv
<1>2. i \in ToWrite /\ retry = {}
  BY NoRetry DEF Heads
<1>3. m \in Queued' <=> m \in Queued
  BY <1>2, Moving DEF Queued
<1>4. OnePlace(m)'
  BY <1>1, <1>2, Moving DEF OnePlace
<1> QED
  BY <1>3, <1>4

\* Nothing moves but what was waiting for the connection.
LEMMA KeptWaiting ==
    ASSUME QueueInv,
           connPending' = StillPending, writeWait' = ToWrite,
           UNCHANGED <<call, held, writing, respPending, written, tcpWait, retry>>
    PROVE  QueueInv'
<1> SUFFICES ASSUME NEW m \in Msgs
             PROVE  /\ m \in Queued' <=> m \in Queued
                    /\ m \in written' => m \in Queued \cup written
                    /\ OnePlace(m)'
  BY Moved
<1>1. OnePlace(m)
  BY DEF QueueInv
<1>2. m \in Queued' <=> m \in Queued
  BY Moving DEF Queued
<1>3. OnePlace(m)'
  BY <1>1, Moving DEF OnePlace
<1> QED
  BY <1>2, <1>3

LEMMA BioKeepsMoves ==
    ASSUME IInv, uvpc = "loop", NEW wake \in BOOLEAN, NEW answers \in BOOLEAN,
           BioKeeps(wake, answers), cycle' \in BOOLEAN
    PROVE  IInv'
<1>1. /\ connPending' = StillPending /\ checkTimer' = TRUE /\ writeAsync' = wake
      /\ UNCHANGED <<linkVars, msgVars, writing, tcpWait, isWriting, written, respPending,
                     tlsUp>>
  BY DEF BioKeeps, BioQueues
<1>2. outPending' \in BOOLEAN /\ (outPending => outPending')
  BY DEF BioKeeps, IInv, TlsTypeOK
<1>3. ToWrite \subseteq Items /\ StillPending \subseteq Msgs
  BY ToWriteType DEF IInv, TlsTypeOK
<1>4. \/ writeWait' = ToWrite /\ UNCHANGED <<retry, retryBuf>>
      \/ ~retryBuf /\ \E i \in Heads : retry' = {i} /\ retryBuf' = TRUE
                                      /\ writeWait' = ToWrite \ {i}
  BY DEF BioKeeps
<1>5. QueueInv'
  BY <1>1, <1>4, KeptForRetry, KeptWaiting DEF msgVars, IInv
<1>6. TypeOK'
  BY <1>1, <1>3, <1>4 DEF IInv, TlsTypeOK, TypeOK, linkVars, msgVars, LinkTypeOK
<1>7. TlsTypeOK'
  <2>1. Heads \subseteq Items
    BY <1>3 DEF Heads
  <2>2. /\ retry' \subseteq Items /\ retryBuf' \in BOOLEAN
        /\ \A i, j \in retry' : i = j
    BY <1>4, <2>1 DEF IInv, TlsTypeOK
  <2> QED
    BY <1>1, <1>2, <1>6, <2>2 DEF IInv, TlsTypeOK
<1>8. WaitHasBytes' /\ RetryInv'
  BY <1>1, <1>2, <1>4 DEF IInv, WaitHasBytes, RetryInv, linkVars
<1> QED
  BY <1>5, <1>7, <1>8 DEF IInv

LEMMA BioFailsMoves ==
    ASSUME IInv, uvpc = "loop", NEW wake \in BOOLEAN, BioFails(wake), cycle' \in BOOLEAN
    PROVE  IInv'
<1>1. /\ connPending' = StillPending /\ retryBuf' = FALSE /\ writeAsync' = wake
      /\ UNCHANGED <<msgVars, tstate, dial, writing, tcpWait, isWriting, written,
                     outPending, respPending, tlsUp, checkTimer>>
  BY DEF BioFails
<1>2. uvpc' = "reset" /\ LinkTypeOK'
  BY DEF BioFails, BeginReset, Fire, IInv, TlsTypeOK, TypeOK, LinkTypeOK, ClientState,
         TransportState, UvPlace, AfterReset, UserCall
<1>3. ToWrite \subseteq Items /\ StillPending \subseteq Msgs
  BY ToWriteType DEF IInv, TlsTypeOK
<1>4. \/ writeWait' = ToWrite /\ UNCHANGED retry
      \/ ~retryBuf /\ \E i \in Heads : retry' = {i} /\ writeWait' = ToWrite \ {i}
  BY DEF BioFails
<1>5. QueueInv'
  BY <1>1, <1>4, KeptForRetry, KeptWaiting DEF msgVars, IInv
<1>6. TypeOK'
  BY <1>1, <1>2, <1>3, <1>4 DEF IInv, TlsTypeOK, TypeOK, msgVars
<1>7. TlsTypeOK'
  BY <1>1, <1>3, <1>4, <1>6 DEF IInv, TlsTypeOK, Heads
<1>8. WaitHasBytes' /\ RetryInv'
  BY <1>1, <1>2 DEF IInv, WaitHasBytes, RetryInv
<1> QED
  BY <1>5, <1>7, <1>8 DEF IInv

\* tls__write_async_cb and tls__on_tcp_read_cb.
LEMMA BioSteps ==
    ASSUME IInv, WriteHandler \/ ReadBegin
    PROVE  IInv'
<1>1. writeAsync \in BOOLEAN /\ cycle \in BOOLEAN
  BY DEF IInv, TlsTypeOK, TypeOK
<1>2. CASE WriteNotNow
  <2>1. QueueInv'
    BY <1>2 DEF WriteNotNow, IInv, QueueInv, OnePlace, Owned, Queued, msgVars, tlsVars
  <2>2. TlsTypeOK'
    <3>1. LinkTypeOK' /\ writeAsync' = FALSE
      BY <1>2 DEF WriteNotNow, linkVars, LinkTypeOK, IInv, TlsTypeOK, TypeOK
    <3>2. /\ UNCHANGED <<call, held, expired, connPending, writeWait, writing, respPending,
                         written, isWriting, checkTimer>>
          /\ UNCHANGED <<tcpWait, retry, retryBuf, outPending, tlsUp, cycle>>
      BY <1>2 DEF WriteNotNow, msgVars, tlsVars
    <3> QED
      BY <3>1, <3>2 DEF IInv, TlsTypeOK, TypeOK
  <2>3. WaitHasBytes' /\ RetryInv'
    BY <1>2 DEF WriteNotNow, IInv, WaitHasBytes, RetryInv, linkVars, tlsVars
  <2> QED
    BY <2>1, <2>2, <2>3 DEF IInv
<1>3. CASE WriteToBio
  <2>1. cycle' \in BOOLEAN /\ uvpc = "loop"
    BY <1>1, <1>3 DEF WriteToBio, InLoop
  <2>2. BioTakes(FALSE) \/ BioKeeps(FALSE, FALSE) \/ BioFails(FALSE)
    BY <1>3 DEF WriteToBio
  <2> QED
    BY <2>1, <2>2, BioTakesMoves, BioKeepsMoves, BioFailsMoves
<1>4. CASE ReadBegin
  <2>1. cycle' \in BOOLEAN /\ uvpc = "loop"
    BY <1>4 DEF ReadBegin, InLoop
  <2>2. BioTakes(writeAsync) \/ BioKeeps(writeAsync, TRUE) \/ BioFails(writeAsync)
    BY <1>4 DEF ReadBegin
  <2> QED
    BY <1>1, <2>1, <2>2, BioTakesMoves, BioKeepsMoves, BioFailsMoves
<1> QED
  BY <1>2, <1>3, <1>4 DEF WriteHandler

-----------------------------------------------------------------------------
(* The end of a cycle and of a write, timeouts and the reset.              *)

\* What a completion does to the types.
LEMMA CompletionType ==
    ASSUME TypeOK, NEW acked, NEW nested \in Nested(acked), Complete(acked, nested),
           NEW C, C \subseteq connPending,
           NEW W, W \subseteq writeWait,
           connPending' = C \cup ToConnPending(nested),
           writeWait' = W \cup ToWriteWait(nested)
    PROVE  /\ call' \in [Msgs -> CallPlace]
           /\ held' \subseteq Msgs
           /\ expired' \subseteq Timed
           /\ connPending' \subseteq Msgs
           /\ writeWait' \subseteq Items
<1>1. nested \subseteq Msgs
  BY NestedNew
<1>2. connPending' \subseteq Msgs /\ writeWait' \subseteq Items
  BY <1>1, NestedQueues DEF TypeOK, Items
<1> QED
  BY <1>1, <1>2, CompleteType

LEMMA CycleEndKeeps ==
    ASSUME IInv, CycleEnd
    PROVE  IInv'
<1>1. PICK out \in {outPending, TRUE} : ToTcp(isWriting, writing, tcpWait, out, writeAsync)
  BY DEF CycleEnd
<1>2. /\ UNCHANGED <<linkVars, msgVars, connPending, writeWait, respPending, checkTimer,
                     retry, retryBuf, tlsUp>>
      /\ cycle' = FALSE
  BY DEF CycleEnd
<1>3. /\ isWriting' \in BOOLEAN /\ outPending' \in BOOLEAN /\ writeAsync' \in BOOLEAN
      /\ WaitHasBytes'
  BY <1>1 DEF ToTcp, SocketOpen, IInv, TlsTypeOK, TypeOK, WaitHasBytes
<1>4. /\ \/ writing' = writing \cup tcpWait /\ tcpWait' = {}
         \/ writing' = writing /\ tcpWait' = tcpWait
      /\ written' \subseteq written \cup writing \cup tcpWait
  BY <1>1 DEF ToTcp
<1>5. TypeOK'
  BY <1>2, <1>3, <1>4 DEF IInv, TlsTypeOK, TypeOK, linkVars, msgVars, LinkTypeOK
<1>6. TlsTypeOK'
  BY <1>2, <1>3, <1>4, <1>5 DEF IInv, TlsTypeOK
<1>7. QueueInv'
  <2> SUFFICES ASSUME NEW m \in Msgs
               PROVE  /\ m \in Queued' <=> m \in Queued
                      /\ m \in written' => m \in Queued \cup written
                      /\ OnePlace(m)'
    BY <1>2, Moved DEF IInv, msgVars
  <2>1. m \in Queued' <=> m \in Queued
    BY <1>2, <1>4 DEF Queued
  <2>2. m \in written' => m \in Queued \cup written
    BY <1>4 DEF Queued
  <2>3. OnePlace(m)'
    BY <1>2, <1>4 DEF IInv, QueueInv, OnePlace
  <2> QED
    BY <2>1, <2>2, <2>3
<1> QED
  BY <1>2, <1>3, <1>6, <1>7 DEF IInv, RetryInv, linkVars

\* After a write, what waited for its end is written, or waits for the next.
LEMMA NextWrite ==
    ASSUME IInv, NEW wake \in BOOLEAN, ToTcp(FALSE, {}, tcpWait, outPending, wake)
    PROVE  /\ isWriting' \in BOOLEAN /\ outPending' \in BOOLEAN /\ writeAsync' \in BOOLEAN
           /\ WaitHasBytes'
           /\ \/ writing' = tcpWait /\ tcpWait' = {}
              \/ writing' = {} /\ tcpWait' = tcpWait
           /\ written' \subseteq written \cup tcpWait
<1>1. isWriting' \in BOOLEAN /\ outPending' \in BOOLEAN /\ writeAsync' \in BOOLEAN
  BY DEF ToTcp, SocketOpen, IInv, TlsTypeOK
<1>2. WaitHasBytes'
  BY DEF ToTcp, IInv, WaitHasBytes
<1> QED
  BY <1>1, <1>2 DEF ToTcp

LEMMA WriteDoneKeeps ==
    ASSUME IInv, WriteDone
    PROVE  IInv'
<1>1. /\ respPending' = respPending \cup (writing \cap Reqs)
      /\ Complete(writing \cap Notifies, {})
      /\ ToTcp(FALSE, {}, tcpWait, outPending, writeAsync)
      /\ UNCHANGED <<linkVars, connPending, writeWait, checkTimer, retry, retryBuf,
                     tlsUp, cycle>>
  BY DEF WriteDone
<1>2. {} \in Nested(writing \cap Notifies)
  BY DEF Nested
<1>3. ToConnPending({}) = {} /\ ToWriteWait({}) = {}
  BY NestedQueues
<1>4. /\ isWriting' \in BOOLEAN /\ outPending' \in BOOLEAN /\ writeAsync' \in BOOLEAN
      /\ WaitHasBytes'
      /\ \/ writing' = tcpWait /\ tcpWait' = {}
         \/ writing' = {} /\ tcpWait' = tcpWait
      /\ written' \subseteq written \cup tcpWait
  <2> writeAsync \in BOOLEAN
    BY DEF IInv, TlsTypeOK, TypeOK
  <2> QED
    BY <1>1, NextWrite
<1>5. call' \in [Msgs -> CallPlace] /\ held' \subseteq Msgs /\ expired' \subseteq Timed
  BY <1>1, CompleteType DEF IInv, TlsTypeOK
<1>6. TypeOK'
  BY <1>1, <1>4, <1>5 DEF IInv, TlsTypeOK, TypeOK, linkVars, LinkTypeOK
<1>7. TlsTypeOK'
  BY <1>1, <1>4, <1>6 DEF IInv, TlsTypeOK
<1>8. QueueInv'
  <2> DEFINE acked == writing \cap Notifies
             nested == {}
  <2>1. ASSUME NEW m \in Msgs
        PROVE  /\ m \in writing' \cup respPending' \cup tcpWait' \cup retry' =>
                    m \in writing \cup respPending \cup tcpWait \cup retry
               /\ m \in writing' => m \notin respPending' \cup tcpWait' \cup retry'
               /\ m \in respPending' => m \notin tcpWait' \cup retry'
               /\ m \in tcpWait' => m \notin retry'
               /\ m \in written' => m \in Queued \cup written
               /\ m \in acked => m \in Queued \cup written
               /\ m \in Queued =>
                    m \in connPending \cup writeWait \cup writing' \cup respPending'
                            \cup tcpWait' \cup retry' \cup acked
    BY <1>1, <1>4 DEF IInv, QueueInv, OnePlace, Queued, Msgs
  <2>2. /\ nested \in Nested(acked) /\ Complete(acked, nested)
        /\ connPending' = connPending \cup ToConnPending(nested)
        /\ writeWait' = writeWait \cup ToWriteWait(nested)
    BY <1>1, <1>2, <1>3
  <2>3. TypeOK /\ QueueInv
    BY DEF IInv, TlsTypeOK
  <2> HIDE DEF acked, nested
  <2> QED
    BY <2>1, <2>2, <2>3, Completion
<1> QED
  BY <1>1, <1>4, <1>7, <1>8 DEF IInv, RetryInv, linkVars

LEMMA WriteDoneErrorKeeps ==
    ASSUME IInv, WriteDoneError
    PROVE  IInv'
<1>1. PICK nested \in Nested(writing) :
        /\ Complete(writing, nested)
        /\ connPending' = connPending \cup ToConnPending(nested)
        /\ writeWait' = writeWait \cup ToWriteWait(nested)
        /\ ToTcp(FALSE, {}, tcpWait, outPending, writeAsync \/ Wakes(nested))
  BY DEF WriteDoneError
<1>2. UNCHANGED <<linkVars, respPending, checkTimer, retry, retryBuf, tlsUp, cycle>>
  BY DEF WriteDoneError
<1>3. /\ isWriting' \in BOOLEAN /\ outPending' \in BOOLEAN /\ writeAsync' \in BOOLEAN
      /\ WaitHasBytes'
      /\ \/ writing' = tcpWait /\ tcpWait' = {}
         \/ writing' = {} /\ tcpWait' = tcpWait
      /\ written' \subseteq written \cup tcpWait
  <2> DEFINE wake == writeAsync \/ Wakes(nested)
  <2>1. wake \in BOOLEAN /\ ToTcp(FALSE, {}, tcpWait, outPending, wake)
    BY <1>1
  <2> HIDE DEF wake
  <2> QED
    BY <2>1, NextWrite
<1>4. /\ call' \in [Msgs -> CallPlace] /\ held' \subseteq Msgs /\ expired' \subseteq Timed
      /\ connPending' \subseteq Msgs /\ writeWait' \subseteq Items
  BY <1>1, CompletionType DEF IInv, TlsTypeOK
<1>5. TypeOK'
  BY <1>2, <1>3, <1>4 DEF IInv, TlsTypeOK, TypeOK, linkVars, LinkTypeOK
<1>6. TlsTypeOK'
  BY <1>2, <1>3, <1>5 DEF IInv, TlsTypeOK
<1>7. QueueInv'
  <2>1. ASSUME NEW m \in Msgs
        PROVE  /\ m \in writing' \cup respPending' \cup tcpWait' \cup retry' =>
                    m \in writing \cup respPending \cup tcpWait \cup retry
               /\ m \in writing' => m \notin respPending' \cup tcpWait' \cup retry'
               /\ m \in respPending' => m \notin tcpWait' \cup retry'
               /\ m \in tcpWait' => m \notin retry'
               /\ m \in written' => m \in Queued \cup written
               /\ m \in writing => m \in Queued \cup written
               /\ m \in Queued =>
                    m \in connPending \cup writeWait \cup writing' \cup respPending'
                            \cup tcpWait' \cup retry' \cup writing
    BY <1>2, <1>3 DEF IInv, QueueInv, OnePlace, Queued
  <2>2. TypeOK /\ QueueInv
    BY DEF IInv, TlsTypeOK
  <2> QED
    BY <1>1, <2>1, <2>2, Completion
<1> QED
  BY <1>2, <1>3, <1>6, <1>7 DEF IInv, RetryInv, linkVars

LEMMA CheckTimeoutKeeps ==
    ASSUME IInv, CheckTimeout
    PROVE  IInv'
<1> DEFINE late == (Checked \cup retry) \cap expired
           C == connPending \ late
           W == writeWait \ late
<1>1. PICK nested \in Nested(late) :
        /\ Complete(late, nested)
        /\ connPending' = C \cup ToConnPending(nested)
        /\ writeWait' = W \cup ToWriteWait(nested)
        /\ respPending' = respPending \ late
        /\ tcpWait' = tcpWait \ late
        /\ retry' = retry \ late
        /\ writeAsync' = (writeAsync \/ Wakes(nested))
        /\ checkTimer' \in Rearm(nested)
  BY DEF CheckTimeout
<1>2. /\ UNCHANGED <<writing, written, isWriting, retryBuf, outPending, tlsUp, cycle>>
      /\ UNCHANGED linkVars
  BY DEF CheckTimeout
<1>3. C \subseteq connPending /\ W \subseteq writeWait
  OBVIOUS
<1>4. ASSUME NEW m \in Msgs
      PROVE  /\ m \in late => m \in Queued \cup written
             /\ m \in Queued => m \in C \cup W \cup writing \cup (respPending \ late)
                                     \cup (tcpWait \ late) \cup (retry \ late) \cup late
  BY DEF Checked, Queued
<1> HIDE DEF late, C, W
<1>5. /\ call' \in [Msgs -> CallPlace] /\ held' \subseteq Msgs /\ expired' \subseteq Timed
      /\ connPending' \subseteq Msgs /\ writeWait' \subseteq Items
  BY <1>1, <1>3, CompletionType DEF IInv, TlsTypeOK
<1>6. writeAsync' \in BOOLEAN /\ checkTimer' \in BOOLEAN
  BY <1>1 DEF Rearm
<1>7. TypeOK'
  BY <1>1, <1>2, <1>5, <1>6 DEF IInv, TlsTypeOK, TypeOK, linkVars, LinkTypeOK
<1>8. TlsTypeOK'
  BY <1>1, <1>2, <1>7 DEF IInv, TlsTypeOK
<1>9. QueueInv'
  <2>1. ASSUME NEW m \in Msgs
        PROVE  /\ m \in writing' \cup respPending' \cup tcpWait' \cup retry' =>
                    m \in writing \cup respPending \cup tcpWait \cup retry
               /\ m \in writing' => m \notin respPending' \cup tcpWait' \cup retry'
               /\ m \in respPending' => m \notin tcpWait' \cup retry'
               /\ m \in tcpWait' => m \notin retry'
               /\ m \in written' => m \in Queued \cup written
               /\ m \in late => m \in Queued \cup written
               /\ m \in Queued => m \in C \cup W \cup writing' \cup respPending'
                                       \cup tcpWait' \cup retry' \cup late
    BY <1>1, <1>2, <1>4 DEF IInv, QueueInv, OnePlace
  <2> QED
    BY <1>1, <1>3, <2>1, Completion DEF IInv, TlsTypeOK
<1>10. WaitHasBytes' /\ RetryInv'
  BY <1>1, <1>2 DEF IInv, WaitHasBytes, RetryInv, linkVars
<1> QED
  BY <1>8, <1>9, <1>10 DEF IInv

LEMMA ResponseKeeps ==
    ASSUME IInv, NEW m \in Msgs, TlsResponse(m)
    PROVE  IInv'
<1>1. Response(m) /\ UNCHANGED <<tcpWait, retry, retryBuf, outPending, tlsUp, cycle>>
  BY DEF TlsResponse, tlsVars
<1>2. PICK nested \in Nested({m}) :
        /\ Complete({m}, nested)
        /\ connPending' = connPending \cup ToConnPending(nested)
        /\ writeWait' = writeWait \cup ToWriteWait(nested)
  BY <1>1 DEF Response
<1>3. /\ m \in written /\ respPending' = respPending \ {m}
      /\ UNCHANGED <<linkVars, writing, written, isWriting>>
  BY <1>1 DEF Response
<1>4. TlsTypeOK'
  BY <1>1, ResponseType DEF IInv, TlsTypeOK
<1>5. QueueInv'
  <2>1. ASSUME NEW n \in Msgs
        PROVE  /\ n \in writing' \cup respPending' \cup tcpWait' \cup retry' =>
                    n \in writing \cup respPending \cup tcpWait \cup retry
               /\ n \in writing' => n \notin respPending' \cup tcpWait' \cup retry'
               /\ n \in respPending' => n \notin tcpWait' \cup retry'
               /\ n \in tcpWait' => n \notin retry'
               /\ n \in written' => n \in Queued \cup written
               /\ n \in {m} => n \in Queued \cup written
               /\ n \in Queued => n \in connPending \cup writeWait \cup writing'
                                       \cup respPending' \cup tcpWait' \cup retry' \cup {m}
    BY <1>1, <1>3 DEF IInv, QueueInv, OnePlace, Queued
  <2> QED
    BY <1>2, <2>1, Completion DEF IInv, TlsTypeOK
<1> QED
  BY <1>1, <1>3, <1>4, <1>5 DEF IInv, WaitHasBytes, RetryInv, linkVars

LEMMA ResetKeeps ==
    ASSUME IInv, Reset
    PROVE  IInv'
<1>1. PICK nested \in Nested(Queued), alert \in {outPending \/ tlsUp, TRUE} :
        /\ Complete(Queued, nested)
        /\ connPending' = ToConnPending(nested)
        /\ writeWait' = ToWriteWait(nested)
        /\ isWriting' = (isWriting \/ (alert /\ SocketOpen))
        /\ writeAsync' = (writeAsync \/ Wakes(nested) \/ (~isWriting /\ ~alert))
  BY DEF Reset
<1>2. /\ writing' = {} /\ respPending' = {} /\ written' = {} /\ tcpWait' = {} /\ retry' = {}
      /\ checkTimer' = FALSE /\ retryBuf' = FALSE /\ outPending' = FALSE /\ tlsUp' = FALSE
      /\ UNCHANGED cycle
      /\ ResetFlush
  BY DEF Reset
<1> DEFINE none == {}
<1>3. /\ none \subseteq connPending /\ connPending' = none \cup ToConnPending(nested)
      /\ none \subseteq writeWait /\ writeWait' = none \cup ToWriteWait(nested)
      /\ \A m \in Msgs : m \notin none
  BY <1>1
<1> HIDE DEF none
<1>4. /\ call' \in [Msgs -> CallPlace] /\ held' \subseteq Msgs /\ expired' \subseteq Timed
      /\ connPending' \subseteq Msgs /\ writeWait' \subseteq Items
  BY <1>1, <1>3, CompletionType DEF IInv, TlsTypeOK
<1>5. writeAsync' \in BOOLEAN /\ isWriting' \in BOOLEAN
  BY <1>1
<1>6. TypeOK'
  BY <1>2, <1>4, <1>5, LinkTypeReset DEF IInv, TlsTypeOK, TypeOK
<1>7. TlsTypeOK'
  BY <1>2, <1>6 DEF IInv, TlsTypeOK
<1>8. QueueInv'
  <2>1. ASSUME NEW m \in Msgs
        PROVE  /\ m \in writing' \cup respPending' \cup tcpWait' \cup retry' =>
                    m \in writing \cup respPending \cup tcpWait \cup retry
               /\ m \in writing' => m \notin respPending' \cup tcpWait' \cup retry'
               /\ m \in respPending' => m \notin tcpWait' \cup retry'
               /\ m \in tcpWait' => m \notin retry'
               /\ m \in written' => m \in Queued \cup written
               /\ m \in Queued => m \in Queued \cup written
               /\ m \in Queued => m \in none \cup none \cup writing' \cup respPending'
                                       \cup tcpWait' \cup retry' \cup Queued
    BY <1>2
  <2> QED
    BY <1>1, <1>3, <2>1, Completion DEF IInv, TlsTypeOK
<1>9. WaitHasBytes' /\ RetryInv'
  BY <1>2 DEF WaitHasBytes, RetryInv
<1> QED
  BY <1>7, <1>8, <1>9 DEF IInv

-----------------------------------------------------------------------------
(* The steps that leave the write path alone.                              *)

\* An internal item, or none, joins write_wait.
LEMMA JoinsWait ==
    ASSUME QueueInv, NEW I, I \subseteq Internal,
           writeWait' = writeWait \cup I,
           UNCHANGED <<call, held, connPending, writing, respPending, written, tcpWait, retry>>
    PROVE  QueueInv'
<1> I \cap Msgs = {}
  BY MsgAssumption
<1> SUFFICES ASSUME NEW m \in Msgs
             PROVE  /\ m \in Queued' <=> m \in Queued
                    /\ m \in written' => m \in Queued \cup written
                    /\ OnePlace(m)'
  BY Moved
<1>1. m \in writeWait' <=> m \in writeWait
  OBVIOUS
<1>2. OnePlace(m)
  BY DEF QueueInv
<1> QED
  BY <1>1, <1>2 DEF Queued, OnePlace

\* What a step of the connection has to leave alone.
LEMMA LinkKeeps ==
    ASSUME IInv, TypeOK', QueueInv', cycle' \in BOOLEAN, outPending' \in BOOLEAN,
           outPending => outPending',
           UNCHANGED <<tcpWait, retry, retryBuf, tlsUp, isWriting>>,
           uvpc = "reset" => uvpc' = "reset"
    PROVE  IInv'
BY DEF IInv, TlsTypeOK, WaitHasBytes, RetryInv

\* None of these steps takes the uv thread out of a reset that has begun.
LEMMA StaysInReset ==
    ASSUME uvpc = "reset"
    PROVE  /\ UserStep => uvpc' = "reset"
           /\ \A m \in Msgs : Expire(m) => uvpc' = "reset"
           /\ ~SendHeartbeat /\ ~ConnHandler /\ ~Handshake /\ ~HandshakeAck
           /\ ~LinkHandler /\ ~ResetTail
<1>1. UserStep => uvpc' = "reset"
  BY DEF UserStep, EnterConnect, EnterDisconnect, ConnectStep, UserConnect, ConnectRefused,
         ConnectTakenBack, UserDisconnect, Cleanup, UserCleanup, Call, SendStep, SendCheck,
         SendEncodeFails, SendFails, SendEnqueue, SendWake, linkVars
<1>2. \A m \in Msgs : Expire(m) => uvpc' = "reset"
  BY DEF Expire, linkVars
<1>3. ~SendHeartbeat /\ ~ConnHandler /\ ~Handshake /\ ~HandshakeAck
  BY DEF SendHeartbeat, ConnHandler, Redial, DialStart, DialIgnored, DialError, Handshake,
         DialUp, HandshakeAck, HandshakeOk
<1>4. ~LinkHandler
  BY DEF LinkHandler, LoopHandler, PackageHandler, PackageRead, BeginReset, ReconnDelay,
         DialTimeout, DialDown, ReadStartFails, HandshakeBad, HandshakeTimer, Lost,
         ProtoError, Kick, DisconnectAsync, CleanupAsync
<1>5. ~ResetTail
  BY DEF ResetTail, ResetEnd, ReconnBegin, ReconnDisabled, ReconnAnnounce, ReconnWait,
         ReconnGiveUp, ReconnGaveUp, FeedEnd
<1> QED
  BY <1>1, <1>2, <1>3, <1>4, <1>5

\* What a step keeps that touches neither a message nor a queue.
LEMMA QueueUnchanged ==
    ASSUME QueueInv, UNCHANGED <<queueVars, msgVars, tcpWait, retry>>
    PROVE  QueueInv'
BY DEF QueueInv, OnePlace, Owned, Queued, queueVars, msgVars

LEMMA ConnKeeps ==
    ASSUME IInv
    PROVE  /\ TlsConnDone => IInv'
           /\ TlsHandshakeAck => IInv'
           /\ TlsRefused => IInv'
           /\ TlsLinkHandler => IInv'
           /\ ResetTail /\ UNCHANGED tlsVars => IInv'
           /\ UNCHANGED tlsQueues => IInv'
<1>0. TypeOK /\ QueueInv /\ cycle \in BOOLEAN /\ outPending \in BOOLEAN
  BY DEF IInv, TlsTypeOK
<1>1. ASSUME TlsConnDone
      PROVE  IInv'
  <2>1. /\ Handshake /\ cycle' = TRUE /\ outPending' = TRUE
        /\ UNCHANGED <<tcpWait, retry, retryBuf, tlsUp>>
    BY <1>1 DEF TlsConnDone
  <2>2. /\ writeWait' = writeWait \cup {"handshake"}
        /\ UNCHANGED <<msgVars, connPending, writing, respPending, written, isWriting>>
    BY <2>1 DEF Handshake
  <2>3. QueueInv'
    BY <1>0, <2>1, <2>2, JoinsWait DEF Internal, msgVars
  <2> QED
    BY <1>0, <2>1, <2>2, <2>3, ConnType, StaysInReset, LinkKeeps
<1>2. ASSUME TlsHandshakeAck
      PROVE  IInv'
  <2>1. HandshakeAck /\ UNCHANGED <<tcpWait, retry, retryBuf, outPending, tlsUp, cycle>>
    BY <1>2 DEF TlsHandshakeAck, tlsVars
  <2>2. /\ writeWait' = writeWait \cup {"handshake_ack"}
        /\ UNCHANGED <<msgVars, connPending, writing, respPending, written, isWriting>>
    BY <2>1 DEF HandshakeAck
  <2>3. QueueInv'
    BY <1>0, <2>1, <2>2, JoinsWait DEF Internal, msgVars
  <2> QED
    BY <1>0, <2>1, <2>2, <2>3, ConnType, StaysInReset, LinkKeeps
<1>3. ASSUME TlsRefused
      PROVE  IInv'
  <2>1. /\ uvpc' = "reset"
        /\ UNCHANGED <<queueVars, msgVars, tcpWait, retry, retryBuf, outPending, tlsUp, cycle>>
    BY <1>3 DEF TlsRefused, BeginReset, Fire, tlsVars
  <2>2. LinkTypeOK'
    BY <1>0, <1>3 DEF TlsRefused, BeginReset, Fire, TypeOK, LinkTypeOK, ClientState,
                      TransportState, UvPlace, AfterReset, UserCall
  <2>3. TypeOK'
    BY <1>0, <2>1, <2>2 DEF TypeOK, queueVars, msgVars
  <2> QED
    BY <1>0, <2>1, <2>3, QueueUnchanged, LinkKeeps DEF queueVars
<1>4. ASSUME TlsLinkHandler
      PROVE  IInv'
  <2>1. /\ LoopHandler \/ PackageHandler \/ Lost
        /\ cycle' = (cycle \/ ReadStartFails)
        /\ UNCHANGED <<queueVars, msgVars, tcpWait, retry, retryBuf, outPending, tlsUp>>
    BY <1>4 DEF TlsLinkHandler
  <2>2. LinkHandler
    BY <2>1 DEF LinkHandler
  <2>3. cycle' \in BOOLEAN
    BY <2>1
  <2> QED
    BY <1>0, <2>1, <2>2, <2>3, ConnType, QueueUnchanged, StaysInReset, LinkKeeps DEF queueVars
<1>5. ASSUME ResetTail, UNCHANGED tlsVars
      PROVE  IInv'
  <2>1. UNCHANGED <<queueVars, msgVars, tcpWait, retry, retryBuf, outPending, tlsUp, cycle>>
    BY <1>5 DEF ResetTail, tlsVars
  <2> QED
    BY <1>0, <1>5, <2>1, ConnType, QueueUnchanged, StaysInReset, LinkKeeps DEF queueVars
<1>6. ASSUME UNCHANGED tlsQueues
      PROVE  IInv'
  <2>1. UNCHANGED <<linkVars, queueVars, msgVars>> /\ UNCHANGED tlsVars
    BY <1>6 DEF tlsQueues, vars
  <2>2. TypeOK'
    BY <1>0, <2>1 DEF TypeOK, LinkTypeOK, linkVars, queueVars, msgVars
  <2>3. QueueInv'
    BY <1>0, <2>1, QueueUnchanged DEF tlsVars
  <2> QED
    BY <1>0, <2>1, <2>2, <2>3, LinkKeeps DEF tlsVars, queueVars, linkVars
<1> QED
  BY <1>1, <1>2, <1>3, <1>4, <1>5, <1>6

LEMMA SharedKeeps ==
    ASSUME IInv, SharedStep
    PROVE  IInv'
<1>1. TypeOK /\ QueueInv /\ cycle \in BOOLEAN /\ outPending \in BOOLEAN
  BY DEF IInv, TlsTypeOK
<1>2. UNCHANGED <<tcpWait, retry, retryBuf, outPending, tlsUp, cycle>> /\ UNCHANGED tlsVars
  BY DEF SharedStep, tlsVars
<1>3. CASE UserStep
  <2>1. CASE \/ (EnterConnect \/ EnterDisconnect \/ ConnectStep) /\ UNCHANGED <<queueVars, msgVars>>
             \/ Cleanup
    <3>1. UNCHANGED <<queueVars, msgVars>>
      BY <2>1 DEF Cleanup
    <3> QED
      BY <1>1, <1>2, <1>3, <2>1, <3>1, ConnType, QueueUnchanged, StaysInReset, LinkKeeps DEF queueVars
  <2>2. ASSUME NEW m \in Msgs, Call(m) \/ SendStep(m)
        PROVE  IInv'
    <3>1. UNCHANGED isWriting
      BY <2>2 DEF Call, SendStep, SendCheck, SendEncodeFails, SendFails, SendEnqueue, SendWake,
                  queueVars
    <3> QED
      BY <1>1, <1>2, <1>3, <2>2, <3>1, CallType, QueueCall, StaysInReset, LinkKeeps
  <2> QED
    BY <1>3, <2>1, <2>2 DEF UserStep
<1>4. ASSUME NEW m \in Msgs, Expire(m)
      PROVE  IInv'
  <2>1. UNCHANGED isWriting
    BY <1>4 DEF Expire, queueVars
  <2> QED
    BY <1>1, <1>2, <1>4, <2>1, CallType, QueueCall, StaysInReset, LinkKeeps
<1>5. CASE SendHeartbeat
  <2>1. /\ writeWait' = writeWait \cup {"heartbeat"}
        /\ UNCHANGED <<msgVars, connPending, writing, respPending, written, isWriting>>
    BY <1>5 DEF SendHeartbeat
  <2>2. QueueInv'
    BY <1>1, <1>2, <2>1, JoinsWait DEF Internal, msgVars
  <2> QED
    BY <1>1, <1>2, <1>5, <2>1, <2>2, ConnType, StaysInReset, LinkKeeps
<1>6. CASE ConnHandler
  <2>1. /\ UNCHANGED <<msgVars, connPending, writeWait, writing, respPending, isWriting>>
        /\ written' \subseteq written
    BY <1>6 DEF ConnHandler, Redial, queueVars
  <2>2. QueueInv'
    BY <1>1, <1>2, <2>1 DEF QueueInv, OnePlace, Owned, Queued, msgVars
  <2> QED
    BY <1>1, <1>2, <1>6, <2>1, <2>2, ConnType, StaysInReset, LinkKeeps
<1> QED
  BY <1>3, <1>4, <1>5, <1>6 DEF SharedStep

-----------------------------------------------------------------------------
(* The theorems.                                                           *)

\* IInv is inductive.
LEMMA Inductive == Spec => []IInv
<1>1. TlsInit => IInv
  <2> SUFFICES ASSUME TlsInit
               PROVE  IInv
    OBVIOUS
  <2>1. TypeOK
    BY DEF TlsInit, Init, LinkInit, TypeOK, LinkTypeOK, ClientState, TransportState,
           UvPlace, AfterReset, CallPlace, UserCall
  <2>2. TlsTypeOK
    BY <2>1 DEF TlsInit, TlsTypeOK
  <2>3. QueueInv
    BY DEF TlsInit, Init, QueueInv, OnePlace, Owned, Queued
  <2>4. WaitHasBytes /\ RetryInv
    BY DEF TlsInit, WaitHasBytes, RetryInv
  <2> QED
    BY <2>2, <2>3, <2>4 DEF IInv
<1>2. IInv /\ [Next]_tlsQueues => IInv'
  BY SharedKeeps, ResponseKeeps, BioSteps, WriteDoneKeeps, WriteDoneErrorKeeps,
     CheckTimeoutKeeps, CycleEndKeeps, ConnKeeps, ResetKeeps
  DEF Next, ResetSteps
<1> QED
  BY <1>1, <1>2, PTL DEF Spec

\* Every variable keeps the type TlsWrite gives it; in particular should_retry
\* never holds two items.
THEOREM TlsTypeCorrect == Spec => []TlsTypeOK
<1>1. IInv => TlsTypeOK
  BY DEF IInv
<1> QED
  BY <1>1, Inductive, PTL

\* No write item is ever in two of the six places the TLS transport has for it.
THEOREM TlsOneQueue == Spec => []OneQueue
<1>1. IInv => OneQueue
  BY DEF IInv, QueueInv, OnePlace, OneQueue, TlsTypeOK, TypeOK, Msgs
<1> QED
  BY <1>1, Inductive, PTL

\* No accepted message is ever lost, neither before the TLS handshake is over
\* nor behind a write that fails.
THEOREM TlsNoMessageLost == Spec => []NoLostMessage
<1>1. IInv => NoLostMessage
  BY DEF IInv, QueueInv, Owned, NoLostMessage, TlsTypeOK, TypeOK
<1> QED
  BY <1>1, Inductive, PTL

\* Items wait only for a write that is under way, with their bytes in the BIO.
THEOREM WaitingHasBytes == Spec => []WaitHasBytes
<1>1. IInv => WaitHasBytes
  BY DEF IInv
<1> QED
  BY <1>1, Inductive, PTL

-----------------------------------------------------------------------------
(* Writes that are refused.                                                *)

\* The transport has no socket, and no failed connect is still to be reported.
Closed == ~SocketOpen /\ dial # "cancelled"

\* Nothing is left of the last connection.
Quiet == writing = {} /\ tcpWait = {} /\ ~tlsUp

\* Without a socket SSL is not up, so nothing reaches a uv_write that would be
\* refused.
SafeInv ==
    /\ uvpc = "loop" /\ Closed => Quiet
    /\ uvpc \notin {"loop", "reset"} => Quiet
    /\ IgnoredErrorSafe

\* A handler that puts nothing into the writing queue and leaves the link alone.
LEMMA SafeStill ==
    ASSUME SafeInv, UNCHANGED <<tstate, dial, uvpc, writing, tlsUp, isWriting>>,
           tcpWait' \subseteq tcpWait
    PROVE  SafeInv'
BY DEF SafeInv, Closed, SocketOpen, Quiet, IgnoredErrorSafe

\* A handler that leaves the writing queue alone and closes no socket.
LEMMA SafeLink ==
    ASSUME SafeInv, uvpc = "loop", uvpc' = "loop",
           UNCHANGED <<writing, tcpWait, tlsUp, isWriting>>,
           SocketOpen => SocketOpen' \/ dial' = "cancelled",
           dial = "cancelled" => dial' = "cancelled"
    PROVE  SafeInv'
BY DEF SafeInv, Closed, SocketOpen, Quiet, IgnoredErrorSafe

\* Whatever happens, nothing is said while the transport is being reset.
LEMMA SafeReset == uvpc' = "reset" => SafeInv'
BY DEF SafeInv, IgnoredErrorSafe

\* The handlers that write.
LEMMA SafeWriteSteps ==
    ASSUME IInv, SafeInv
    PROVE  /\ WriteHandler \/ ReadBegin => SafeInv'
           /\ CycleEnd => SafeInv'
           /\ WriteDone => SafeInv'
           /\ WriteDoneError => SafeInv'
<1>1. ASSUME NEW wake, BioTakes(wake), uvpc = "loop", tlsUp \/ SocketOpen
      PROVE  SafeInv'
  <2>1. UNCHANGED <<tstate, dial, uvpc>> /\ tlsUp' = TRUE
    BY <1>1 DEF BioTakes, linkVars
  <2>2. ~Closed
    BY <1>1 DEF SafeInv, Quiet, Closed
  <2>3. CASE ~(retryBuf \/ ToWrite # {})
    <3>1. UNCHANGED <<writing, tcpWait, isWriting>>
      BY <1>1, <2>3 DEF BioTakes
    <3> QED
      BY <1>1, <2>1, <2>2, <3>1 DEF SafeInv, Closed, SocketOpen, IgnoredErrorSafe
  <2>4. CASE (retryBuf \/ ToWrite # {}) /\ isWriting
    <3>1. ToTcp(TRUE, writing, tcpWait \cup (retry \cup ToWrite), TRUE, wake)
      BY <1>1, <2>4 DEF BioTakes
    <3>2. isWriting'
      BY <3>1 DEF ToTcp
    <3> QED
      BY <1>1, <2>1, <2>2, <3>2 DEF SafeInv, Closed, SocketOpen, IgnoredErrorSafe
  <2>5. CASE (retryBuf \/ ToWrite # {}) /\ ~isWriting
    <3>1. ToTcp(FALSE, writing \cup (retry \cup ToWrite), tcpWait, TRUE, wake)
      BY <1>1, <2>5 DEF BioTakes, IInv, TlsTypeOK, TypeOK
    <3>2. isWriting' = SocketOpen
      BY <3>1 DEF ToTcp
    <3> QED
      BY <1>1, <2>1, <2>2, <3>2 DEF SafeInv, Closed, SocketOpen, IgnoredErrorSafe
  <2> QED
    BY <2>3, <2>4, <2>5
<1>2. ASSUME NEW wake, NEW answers, BioKeeps(wake, answers)
      PROVE  SafeInv'
  BY <1>2, SafeStill DEF BioKeeps, linkVars
<1>3. ASSUME NEW wake, BioFails(wake)
      PROVE  SafeInv'
  BY <1>3, SafeReset DEF BioFails, BeginReset, Fire
<1>4. WriteNotNow => SafeInv'
  BY SafeStill DEF WriteNotNow, linkVars, tlsVars
<1>5. WriteToBio => SafeInv'
  BY <1>1, <1>2, <1>3 DEF WriteToBio, InLoop
<1>6. ReadBegin => SafeInv'
  BY <1>1, <1>2, <1>3 DEF ReadBegin, InLoop, SocketOpen
<1>7. ASSUME CycleEnd
      PROVE  SafeInv'
  <2>1. PICK out \in {outPending, TRUE} : ToTcp(isWriting, writing, tcpWait, out, writeAsync)
    BY <1>7 DEF CycleEnd
  <2>2. uvpc = "loop" /\ UNCHANGED <<tstate, dial, uvpc, tlsUp>>
    BY <1>7 DEF CycleEnd, linkVars
  <2>3. CASE out /\ ~isWriting
    <3>1. writing' = writing \cup tcpWait /\ tcpWait' = {} /\ isWriting' = SocketOpen
      BY <2>1, <2>3 DEF ToTcp
    <3> QED
      BY <2>2, <3>1 DEF SafeInv, Closed, SocketOpen, Quiet, IgnoredErrorSafe
  <2>4. CASE ~(out /\ ~isWriting)
    <3>1. UNCHANGED <<writing, tcpWait, isWriting>>
      BY <2>1, <2>4 DEF ToTcp
    <3> QED
      BY <2>2, <3>1, SafeStill
  <2> QED
    BY <2>3, <2>4
<1>8. ASSUME NEW wake, ToTcp(FALSE, {}, tcpWait, outPending, wake), uvpc = "loop",
             UNCHANGED <<tstate, dial, uvpc, tlsUp>>
      PROVE  SafeInv'
  <2>1. \/ writing' = tcpWait /\ tcpWait' = {} /\ isWriting' = SocketOpen
        \/ writing' = {} /\ tcpWait' = tcpWait
    BY <1>8 DEF ToTcp
  <2> QED
    BY <1>8, <2>1 DEF SafeInv, Closed, SocketOpen, Quiet, IgnoredErrorSafe
<1>9. WriteDone => SafeInv'
  BY <1>8 DEF WriteDone, InLoop, linkVars
<1>10. WriteDoneError => SafeInv'
  BY <1>8 DEF WriteDoneError, InLoop, linkVars
<1> QED
  BY <1>4, <1>5, <1>6, <1>7, <1>9, <1>10 DEF WriteHandler

\* The handlers that do not write, and the connection's.
LEMMA SafeOther ==
    ASSUME IInv, SafeInv
    PROVE  /\ SharedStep => SafeInv'
           /\ \A m \in Msgs : TlsResponse(m) => SafeInv'
           /\ CheckTimeout => SafeInv'
           /\ TlsConnDone \/ TlsHandshakeAck => SafeInv'
           /\ TlsRefused \/ TlsLinkHandler => SafeInv'
           /\ Reset => SafeInv'
           /\ ResetTail /\ UNCHANGED tlsVars => SafeInv'
           /\ UNCHANGED tlsQueues => SafeInv'
<1>1. ASSUME NEW m \in Msgs, Call(m) \/ SendStep(m) \/ Expire(m), UNCHANGED tlsVars
      PROVE  SafeInv'
  <2>1. UNCHANGED <<tstate, dial, uvpc, writing, isWriting>>
    BY <1>1 DEF Call, SendStep, SendCheck, SendEncodeFails, SendFails, SendEnqueue, SendWake,
                Expire, queueVars, linkVars
  <2> QED
    BY <1>1, <2>1, SafeStill DEF tlsVars
<1>2. ASSUME UserStep, UNCHANGED tlsVars
      PROVE  SafeInv'
  <2>1. CASE \/ (EnterConnect \/ EnterDisconnect \/ ConnectStep) /\ UNCHANGED <<queueVars, msgVars>>
             \/ Cleanup
    <3>1. UNCHANGED <<tstate, dial, uvpc, writing, isWriting>>
      BY <2>1 DEF EnterConnect, EnterDisconnect, ConnectStep, UserConnect, ConnectRefused,
                  ConnectTakenBack, UserDisconnect, Cleanup, UserCleanup, queueVars
    <3> QED
      BY <1>2, <3>1, SafeStill DEF tlsVars
  <2> QED
    BY <1>1, <1>2, <2>1 DEF UserStep
<1>3. ASSUME SendHeartbeat \/ ConnHandler, UNCHANGED tlsVars
      PROVE  SafeInv'
  <2>1. CASE SendHeartbeat
    BY <1>3, <2>1, SafeStill DEF SendHeartbeat, linkVars, tlsVars
  <2>2. CASE Redial
    BY <1>3, <2>2, SafeLink DEF Redial, DialStart, SocketOpen, tlsVars
  <2>3. CASE DialIgnored /\ UNCHANGED <<queueVars, msgVars>>
    BY <1>3, <2>3, SafeStill DEF DialIgnored, queueVars, tlsVars
  <2>4. CASE DialError
    BY <2>4, SafeReset DEF DialError
  <2> QED
    BY <1>3, <2>1, <2>2, <2>3, <2>4 DEF ConnHandler
<1>4. SharedStep => SafeInv'
  BY <1>1, <1>2, <1>3 DEF SharedStep
<1>5. ASSUME NEW m \in Msgs, TlsResponse(m)
      PROVE  SafeInv'
  BY <1>5, SafeStill DEF TlsResponse, Response, linkVars, tlsVars
<1>6. CheckTimeout => SafeInv'
  BY SafeStill DEF CheckTimeout, linkVars
<1>7. TlsConnDone => SafeInv'
  BY SafeLink DEF TlsConnDone, Handshake, DialUp, SocketOpen
<1>8. TlsHandshakeAck => SafeInv'
  BY SafeLink DEF TlsHandshakeAck, HandshakeAck, HandshakeOk, SocketOpen, tlsVars
<1>9. TlsRefused => SafeInv'
  BY SafeReset DEF TlsRefused, BeginReset, Fire
<1>10. ASSUME TlsLinkHandler
       PROVE  SafeInv'
  <2>1. /\ LoopHandler \/ PackageHandler \/ Lost
        /\ UNCHANGED <<writing, tcpWait, tlsUp, isWriting>>
    BY <1>10 DEF TlsLinkHandler, queueVars
  <2>2. CASE ReconnDelay
    BY <2>1, <2>2, SafeStill DEF ReconnDelay
  <2>3. CASE DialTimeout
    BY <2>1, <2>3, SafeLink DEF DialTimeout, SocketOpen
  <2>4. CASE ~ReconnDelay /\ ~DialTimeout
    BY <2>1, <2>4, SafeReset
    DEF LoopHandler, PackageHandler, BeginReset, Fire, DialDown, ReadStartFails, HandshakeBad,
        HandshakeTimer, Lost, ProtoError, Kick, DisconnectAsync, CleanupAsync
  <2> QED
    BY <2>2, <2>3, <2>4
<1>11. Reset => SafeInv'
  BY DEF Reset, ResetFlush, SafeInv, Quiet, IgnoredErrorSafe
<1>12. ASSUME ResetTail, UNCHANGED tlsVars
       PROVE  SafeInv'
  <2>1. uvpc \notin {"loop", "reset"}
    BY <1>12 DEF ResetTail, ResetEnd, ReconnBegin, ReconnDisabled, ReconnAnnounce, ReconnWait,
                 ReconnGiveUp, ReconnGaveUp, FeedEnd
  <2>2. UNCHANGED <<writing, tcpWait, tlsUp>>
    BY <1>12 DEF ResetTail, queueVars, tlsVars
  <2> QED
    BY <2>1, <2>2 DEF SafeInv, Quiet, IgnoredErrorSafe
<1>13. UNCHANGED tlsQueues => SafeInv'
  BY SafeStill DEF tlsQueues, vars, linkVars, queueVars, tlsVars
<1> QED
  BY <1>4, <1>5, <1>6, <1>7, <1>8, <1>9, <1>10, <1>11, <1>12, <1>13

\* The error of uv_write that tls__write_to_tcp ignores strands nothing: items
\* that no write carries are taken out by the reset that is due.
THEOREM ErrorIgnoredSafely == Spec => []IgnoredErrorSafe
<1>1. TlsInit => SafeInv
  BY DEF TlsInit, Init, LinkInit, SafeInv, Closed, SocketOpen, Quiet, IgnoredErrorSafe
<1>2. IInv /\ SafeInv /\ [Next]_tlsQueues => SafeInv'
  BY SafeWriteSteps, SafeOther DEF Next, ResetSteps
<1>3. SafeInv => IgnoredErrorSafe
  BY DEF SafeInv
<1> QED
  BY <1>1, <1>2, <1>3, Inductive, PTL DEF Spec

-----------------------------------------------------------------------------
(* The transport implements the life of a message.                         *)

\* Every step of the system moves every message as its abstract life allows.
LEMMA LifeNext == IInv /\ [Next]_tlsQueues => LifeMoves
<1> SUFFICES ASSUME IInv, [Next]_tlsQueues
             PROVE  LifeMoves
  OBVIOUS
<1>0. CallHeld /\ TypeOK
  BY DEF IInv, QueueInv, Owned, CallHeld, TlsTypeOK
<1> USE <1>0, LifeUnchanged, LifeComplete
<1>1. CASE SharedStep
  <2>1. CASE UserStep
    BY <2>1, LifeCall DEF UserStep, Cleanup, msgVars
  <2>2. CASE \E m \in Msgs : Expire(m)
    BY <2>2 DEF Expire
  <2>3. CASE SendHeartbeat \/ ConnHandler
    BY <2>3 DEF SendHeartbeat, ConnHandler, Redial, msgVars
  <2> QED
    BY <1>1, <2>1, <2>2, <2>3 DEF SharedStep
<1>2. ASSUME NEW m \in Msgs, TlsResponse(m)
      PROVE  LifeMoves
  BY <1>2 DEF TlsResponse, Response
<1>3. CASE WriteHandler \/ ReadBegin
  <2>1. UNCHANGED msgVars
    BY <1>3 DEF WriteHandler, WriteNotNow, WriteToBio, ReadBegin, BioTakes, BioKeeps, BioFails
  <2> QED
    BY <2>1 DEF msgVars
<1>4. CASE WriteDone
  <2>1. {} \in Nested(writing \cap Notifies)
    BY DEF Nested
  <2> QED
    BY <1>4, <2>1 DEF WriteDone
<1>5. CASE WriteDoneError \/ CheckTimeout
  BY <1>5 DEF WriteDoneError, CheckTimeout
<1>6. CASE TlsRefused \/ CycleEnd \/ TlsConnDone \/ TlsHandshakeAck \/ TlsLinkHandler
  BY <1>6 DEF TlsRefused, CycleEnd, TlsConnDone, Handshake, TlsHandshakeAck, HandshakeAck,
              TlsLinkHandler, msgVars
<1>7. CASE Reset
  BY <1>7 DEF Reset
<1>8. CASE ResetTail
  BY <1>8 DEF ResetTail, msgVars
<1>9. CASE UNCHANGED tlsQueues
  BY <1>9 DEF tlsQueues, vars, msgVars
<1> QED
  BY <1>1, <1>2, <1>3, <1>4, <1>5, <1>6, <1>7, <1>8, <1>9 DEF Next, ResetSteps

\* Over TLS too a message is opened at most once, completed at most once, and
\* never after its call has failed.
THEOREM TlsRefinement == Spec => ImplementsRequestLife
<1>1. TlsInit => Abstract!Init
  BY DEF TlsInit, Init, Abstract!Init, Life
<1>2. IInv /\ [Next]_tlsQueues => [Abstract!Next]_Life
  <2> SUFFICES ASSUME IInv, [Next]_tlsQueues
               PROVE  Abstract!Next
    OBVIOUS
  <2>1. Life' \in [Msgs -> Abstract!LifeStage]
    BY DEF Life, Abstract!LifeStage
  <2>2. LifeMoves
    BY LifeNext
  <2> QED
    BY <2>1, <2>2 DEF Abstract!Next, LifeMoves
<1> QED
  BY <1>1, <1>2, Inductive, PTL DEF Spec, ImplementsRequestLife, Abstract!Spec

=============================================================================
