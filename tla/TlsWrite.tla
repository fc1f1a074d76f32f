------------------------------ MODULE TlsWrite ------------------------------
(***************************************************************************)
(* The TLS transport.  Items pass through SSL_write into a memory BIO, and *)
(* what the BIO holds is written to the socket in one uv_write at a time.  *)
(* This adds two places to the queues: should_retry, the item SSL_write    *)
(* could not take before the TLS handshake was over, and                   *)
(* when_tcp_is_writing_queue, the items whose bytes wait in the BIO for    *)
(* the write that is under way.                                            *)
(*                                                                         *)
(* A read of the socket runs tls__cycle: write to the BIO, read from it    *)
(* (which hands packages to the parser and so to their handlers), write to *)
(* the socket.  "cycle" says that the uv thread is inside it, or inside    *)
(* tls__conn_done_cb, which ends in the same way.  SSL itself is external: *)
(* its handshake ends in some SSL_write, after which SSL_write takes all.  *)
(***************************************************************************)
EXTENDS WriteQueues

VARIABLES
    tcpWait,     \* when_tcp_is_writing_queue
    retry,       \* should_retry: no item or one
    retryBuf,    \* retry_wb is not NULL: SSL_write has to be called with it again
    outPending,  \* the BIO "out" is not empty
    tlsUp,       \* is_handshake_completed
    cycle        \* tls__cycle has still to write to the socket

tlsVars == <<tcpWait, retry, retryBuf, outPending, tlsUp, cycle>>
tlsQueues == <<vars, tlsVars>>

TlsTypeOK ==
    /\ TypeOK
    /\ tcpWait \subseteq Items
    /\ retry \subseteq Items
    /\ \A i, j \in retry : i = j
    /\ retryBuf \in BOOLEAN
    /\ outPending \in BOOLEAN
    /\ tlsUp \in BOOLEAN
    /\ cycle \in BOOLEAN

TlsInit ==
    /\ Init
    /\ tcpWait = {} /\ retry = {}
    /\ retryBuf = FALSE /\ outPending = FALSE /\ tlsUp = FALSE /\ cycle = FALSE

\* Mutant: tls__reset forgets the item that should be retried.
QueuedNoRetry == connPending \cup writeWait \cup writing \cup respPending \cup tcpWait

\* Everything the transport keeps in a write item.
Queued == connPending \cup writeWait \cup writing \cup respPending \cup tcpWait \cup retry

\* The uv thread is between two callbacks.
InLoop == uvpc = "loop" /\ ~cycle

-----------------------------------------------------------------------------
(* tls__write_to_tcp.                                                      *)

\* Mutant: the BIO is reset although nothing has been written.
ToTcpResets(busy, wr, tw, out, wake) ==
    IF out /\ ~busy
    THEN /\ writing' = wr \cup tw
         /\ tcpWait' = {}
         /\ isWriting' = SocketOpen
         /\ written' = IF SocketOpen THEN written \cup wr \cup tw ELSE written
         /\ outPending' = FALSE
         /\ writeAsync' = wake
    ELSE /\ writing' = wr
         /\ tcpWait' = tw
         /\ isWriting' = busy
         /\ outPending' = FALSE
         /\ writeAsync' = (wake \/ ~busy)
         /\ UNCHANGED written

\* From a writing queue wr, waiting items tw and a BIO "out" that holds bytes
\* or not: nothing while a write is under way, a new turn of write_async when
\* there is nothing to write, otherwise one uv_write of everything.  Its error
\* is ignored.
ToTcp(busy, wr, tw, out, wake) ==
    IF out /\ ~busy
    THEN /\ writing' = wr \cup tw
         /\ tcpWait' = {}
         /\ isWriting' = SocketOpen
         /\ written' = IF SocketOpen THEN written \cup wr \cup tw ELSE written
         /\ outPending' = FALSE
         /\ writeAsync' = wake
    ELSE /\ writing' = wr
         /\ tcpWait' = tw
         /\ isWriting' = busy
         /\ outPending' = out
         /\ writeAsync' = (wake \/ ~busy)
         /\ UNCHANGED written

-----------------------------------------------------------------------------
(* tls__write_to_bio.                                                      *)

\* Mutant: check_timeout is started as tcp__write_async_cb starts it.
BioTimed ==
    /\ connPending' = StillPending
    /\ checkTimer' = (checkTimer \/ StillPending # {} \/ ToWrite \cap Timed # {})

\* conn_pending is moved to write_wait under wq_mutex, and check_timeout is
\* started whatever the queues hold.
BioQueues ==
    /\ connPending' = StillPending
    /\ checkTimer' = TRUE

\* SSL takes the item to be retried and all that wait.  They join the writing
\* queue, or wait for the write that is under way.
BioTakes(wake) ==
    LET taken == retry \cup ToWrite
    IN /\ BioQueues
       /\ writeWait' = {}
       /\ retry' = {} /\ retryBuf' = FALSE
       /\ tlsUp' = TRUE
       /\ IF retryBuf \/ ToWrite # {}
          THEN ToTcp(isWriting, IF isWriting THEN writing ELSE writing \cup taken,
                     IF isWriting THEN tcpWait \cup taken ELSE tcpWait, TRUE, wake)
          ELSE /\ writeAsync' = wake
               /\ UNCHANGED <<writing, tcpWait, outPending, isWriting, written>>
       /\ UNCHANGED <<linkVars, msgVars, respPending>>

\* The item at the head of write_wait: the handshake is put there.
Heads == IF "handshake" \in ToWrite THEN {"handshake"} ELSE ToWrite

\* SSL is not up: the first item is kept for a retry.  SSL_write may answer
\* what has been read; before the connection is made it says hello.
BioKeeps(wake, answers) ==
    /\ BioQueues
    /\ IF retryBuf \/ ToWrite = {}
       THEN /\ writeWait' = ToWrite
            /\ UNCHANGED <<retry, retryBuf>>
       ELSE \E i \in Heads :
              /\ retry' = {i} /\ retryBuf' = TRUE
              /\ writeWait' = ToWrite \ {i}
    /\ \E answer \in {FALSE, answers} :
         outPending' = \/ outPending \/ answer
                       \/ ~retryBuf /\ ToWrite # {} /\ tstate # "HANDSHAKEING"
    /\ writeAsync' = wake
    /\ UNCHANGED <<linkVars, msgVars, writing, tcpWait, isWriting, written, respPending,
                   tlsUp>>

\* SSL_write fails: tls__emit_error_event, with the item it was given still in
\* should_retry.
BioFails(wake) ==
    /\ IF tlsUp
       THEN "lost" \in Faults /\ BeginReset("INITED", "reconn")
       ELSE "badHandshake" \in Faults /\ BeginReset("INITED", "stop")
    /\ connPending' = StillPending
    /\ retryBuf' = FALSE
    /\ IF retryBuf
       THEN /\ writeWait' = ToWrite
            /\ UNCHANGED retry
       ELSE \E i \in Heads :
              /\ retry' = {i}
              /\ writeWait' = ToWrite \ {i}
    /\ writeAsync' = wake
    /\ UNCHANGED <<msgVars, tstate, dial, writing, tcpWait, isWriting, written,
                   outPending, respPending, tlsUp, checkTimer>>

\* tls__write_async_cb on a transport that is not connected.
WriteNotNow ==
    /\ InLoop
    /\ writeAsync
    /\ tstate = "NOT_CONN"
    /\ writeAsync' = FALSE
    /\ UNCHANGED <<linkVars, msgVars, connPending, writeWait, writing, respPending,
                   written, isWriting, checkTimer, tlsVars>>

\* tls__write_async_cb.
WriteToBio ==
    /\ InLoop
    /\ writeAsync
    /\ tstate # "NOT_CONN"
    /\ UNCHANGED cycle
    /\ \/ tlsUp /\ BioTakes(FALSE)
       \/ ~tlsUp /\ BioKeeps(FALSE, FALSE)
       \/ (retryBuf \/ ToWrite # {}) /\ BioFails(FALSE)

WriteHandler == WriteNotNow \/ WriteToBio

-----------------------------------------------------------------------------
(* The read cycle.                                                         *)

\* tls__on_tcp_read_cb: the bytes of the server may complete the TLS handshake
\* in an SSL_write.
ReadBegin ==
    /\ InLoop
    /\ tstate \in {"HANDSHAKEING", "DONE"}
    /\ cycle' = TRUE
    /\ \/ /\ tlsUp \/ (tstate = "HANDSHAKEING" /\ (retryBuf \/ ToWrite # {}))
          /\ BioTakes(writeAsync)
       \/ ~tlsUp /\ BioKeeps(writeAsync, TRUE)
       \/ (retryBuf \/ ToWrite # {}) /\ BioFails(writeAsync)

\* tls__read_from_bio finds an SSL error before the TLS handshake is over.
TlsRefused ==
    /\ "badHandshake" \in Faults
    /\ cycle
    /\ ~tlsUp
    /\ tstate = "HANDSHAKEING"
    /\ BeginReset("INITED", "stop")
    /\ UNCHANGED <<tstate, dial, queueVars, msgVars, tlsVars>>

\* Packages are read only within the cycle, from an SSL that was up; what ends
\* the connection otherwise is an error of the socket or of SSL.
TlsResponse(m) == cycle /\ tlsUp /\ Response(m) /\ UNCHANGED tlsVars

TlsHandshakeAck == cycle /\ tlsUp /\ HandshakeAck /\ UNCHANGED tlsVars

TlsLinkHandler ==
    /\ \/ LoopHandler /\ ~cycle
       \/ PackageHandler /\ cycle /\ (tlsUp \/ uvpc = "feed")
       \/ Lost /\ (cycle => tlsUp)
    /\ cycle' = (cycle \/ ReadStartFails)
    /\ UNCHANGED <<queueVars, msgVars, tcpWait, retry, retryBuf, outPending, tlsUp>>

\* The last call of tls__cycle and of tls__conn_done_cb.  SSL_read may have
\* left something to write.
CycleEnd ==
    /\ uvpc = "loop"
    /\ cycle
    /\ cycle' = FALSE
    /\ \E out \in {outPending, TRUE} : ToTcp(isWriting, writing, tcpWait, out, writeAsync)
    /\ UNCHANGED <<linkVars, msgVars, connPending, writeWait, respPending, checkTimer,
                   retry, retryBuf, tlsUp>>

\* tls__conn_done_cb: after the client's own handshake has been queued, SSL
\* puts its hello into the BIO.
TlsConnDone ==
    /\ ~cycle
    /\ Handshake
    /\ cycle' = TRUE
    /\ outPending' = TRUE
    /\ UNCHANGED <<tcpWait, retry, retryBuf, tlsUp>>

-----------------------------------------------------------------------------
(* The end of a write, timeouts and the reset.                             *)

\* Mutant: every item of a finished write goes to resp_pending.
WriteDoneKeepsAll ==
    /\ InLoop
    /\ isWriting
    /\ writing # {} => tstate \in {"HANDSHAKEING", "DONE"}
    /\ respPending' = respPending \cup writing
    /\ UNCHANGED <<call, held, expired>>
    /\ ToTcp(FALSE, {}, tcpWait, outPending, writeAsync)
    /\ UNCHANGED <<linkVars, connPending, writeWait, checkTimer, retry, retryBuf,
                   tlsUp, cycle>>

\* tls__write_done_cb after a successful write, which goes on with what has
\* come into the BIO meanwhile.
WriteDone ==
    /\ InLoop
    /\ isWriting
    /\ writing # {} => tstate \in {"HANDSHAKEING", "DONE"}
    /\ respPending' = respPending \cup (writing \cap Reqs)
    /\ Complete(writing \cap Notifies, {})
    /\ ToTcp(FALSE, {}, tcpWait, outPending, writeAsync)
    /\ UNCHANGED <<linkVars, connPending, writeWait, checkTimer, retry, retryBuf,
                   tlsUp, cycle>>

\* tls__write_done_cb after a failed or cancelled write.
WriteDoneError ==
    /\ InLoop
    /\ isWriting
    /\ WriteFails
    /\ \E nested \in Nested(writing) :
         /\ Complete(writing, nested)
         /\ connPending' = connPending \cup ToConnPending(nested)
         /\ writeWait' = writeWait \cup ToWriteWait(nested)
         /\ ToTcp(FALSE, {}, tcpWait, outPending, writeAsync \/ Wakes(nested))
    /\ UNCHANGED <<linkVars, respPending, checkTimer, retry, retryBuf, tlsUp, cycle>>

\* tls__write_timeout_check_cb looks at all places but the writing queue.  An
\* item to be retried is dropped, but not the buffer that goes with it.
Checked == connPending \cup writeWait \cup respPending \cup tcpWait

Rearm(nested) ==
    IF Checked \cap (Timed \ expired) # {} THEN {TRUE}
    ELSE {FALSE, NestedAccepted /\ nested \cap Timed # {}}

CheckTimeout ==
    /\ InLoop
    /\ checkTimer
    /\ LET late == (Checked \cup retry) \cap expired
       IN \E nested \in Nested(late) :
            /\ Complete(late, nested)
            /\ connPending' = (connPending \ late) \cup ToConnPending(nested)
            /\ writeWait' = (writeWait \ late) \cup ToWriteWait(nested)
            /\ respPending' = respPending \ late
            /\ tcpWait' = tcpWait \ late
            /\ retry' = retry \ late
            /\ writeAsync' = (writeAsync \/ Wakes(nested))
            /\ checkTimer' \in Rearm(nested)
    /\ UNCHANGED <<linkVars, writing, written, isWriting, retryBuf, outPending, tlsUp,
                   cycle>>

\* Mutant: the item to be retried joins the writing queue after tcp__reset.
ResetRetryLate ==
    /\ ResetFlush
    /\ \E nested \in Nested(Queued \ retry) :
         /\ Complete(Queued \ retry, nested)
         /\ connPending' = ToConnPending(nested)
         /\ writeWait' = ToWriteWait(nested)
         /\ writeAsync' = (writeAsync \/ Wakes(nested))
    /\ writing' = retry
    /\ respPending' = {} /\ written' = {} /\ tcpWait' = {} /\ retry' = {}
    /\ checkTimer' = FALSE /\ retryBuf' = FALSE /\ outPending' = FALSE /\ tlsUp' = FALSE
    /\ UNCHANGED <<isWriting, cycle>>

\* tls__reset: an alert goes out if the socket takes it, then everything is
\* moved to the writing queue and tcp__reset fails it with RESET.
Reset ==
    /\ ResetFlush
    /\ \E nested \in Nested(Queued), alert \in {outPending \/ tlsUp, TRUE} :
         /\ Complete(Queued, nested)
         /\ connPending' = ToConnPending(nested)
         /\ writeWait' = ToWriteWait(nested)
         /\ isWriting' = (isWriting \/ (alert /\ SocketOpen))
         /\ writeAsync' = (writeAsync \/ Wakes(nested) \/ (~isWriting /\ ~alert))
    /\ writing' = {} /\ respPending' = {} /\ written' = {}
    /\ tcpWait' = {} /\ retry' = {}
    /\ checkTimer' = FALSE
    /\ retryBuf' = FALSE /\ outPending' = FALSE /\ tlsUp' = FALSE
    /\ UNCHANGED cycle

ResetSteps == Reset \/ (ResetTail /\ UNCHANGED tlsVars)

-----------------------------------------------------------------------------
\* Steps the TLS transport leaves as they are.  The uv thread takes none of
\* them inside a cycle.
SharedStep ==
    /\ \/ UserStep
       \/ \E m \in Msgs : Expire(m)
       \/ (SendHeartbeat \/ ConnHandler) /\ ~cycle
    /\ UNCHANGED tlsVars

Next ==
    \/ SharedStep
    \/ \E m \in Msgs : TlsResponse(m)
    \/ WriteHandler \/ WriteDone \/ WriteDoneError \/ CheckTimeout
    \/ ReadBegin \/ TlsRefused \/ CycleEnd
    \/ TlsConnDone \/ TlsHandshakeAck \/ TlsLinkHandler
    \/ ResetSteps

Spec == TlsInit /\ [][Next]_tlsQueues

\* As in TcpWrite: the loop gives every ready handler its turn, a read ends, and
\* user threads finish the calls they are in.
UvFairness ==
    /\ WF_tlsQueues(ResetSteps)
    /\ SF_tlsQueues(FeedEnd /\ UNCHANGED <<queueVars, msgVars, tlsVars>>)
    /\ WF_tlsQueues(CycleEnd)
    /\ SF_tlsQueues(WriteHandler)
    /\ SF_tlsQueues(CheckTimeout)
    /\ SF_tlsQueues(TlsLinkHandler /\ (ReconnDelay \/ DialDown))

CallFairness == \A m \in Msgs : WF_tlsQueues(SendStep(m) /\ UNCHANGED tlsVars)
                              /\ WF_tlsQueues(Expire(m) /\ UNCHANGED tlsVars)

\* Connections are made, SSL comes up on them, handshakes are answered and
\* writes end.  Responses are not owed.
NetworkFairness ==
    /\ SF_tlsQueues(ConnHandler /\ ~cycle /\ UNCHANGED tlsVars)
    /\ SF_tlsQueues(TlsConnDone)
    /\ SF_tlsQueues(ReadBegin /\ tlsUp')
    /\ SF_tlsQueues(TlsHandshakeAck)
    /\ SF_tlsQueues(WriteDone)

LiveNetSpec == Spec /\ UvFairness /\ CallFairness /\ NetworkFairness

-----------------------------------------------------------------------------
(* Properties.                                                             *)

\* A write item is in one place at a time: the queues are intrusive lists, and
\* an item that is freed in one place must not be found in another.
OneQueue ==
    LET places == <<connPending, writeWait \cap Msgs, writing \cap Msgs, respPending,
                    tcpWait \cap Msgs, retry \cap Msgs>>
    IN \A i, j \in DOMAIN places : i # j => places[i] \cap places[j] = {}

\* Every message the client keeps is kept by the transport too, unless its
\* call is still on its way there.
NoLostMessage ==
    \A m \in held : call[m] \in {"sending", "encoded"} \/ m \in Queued

\* tr_uv_tls_aux.c:412: items wait for a write that is under way, with their
\* bytes in the BIO, so that the end of that write takes them along.
WaitHasBytes == tcpWait # {} => isWriting /\ outPending

\* tr_uv_tls_aux.c:438-443: the error of uv_write may be ignored.  Items are
\* left in the writing queue without a write only while the handler that
\* resets the transport is running, or the failed connect that will cause it
\* is still to be reported.
IgnoredErrorSafe == writing # {} => isWriting \/ uvpc # "loop" \/ dial = "cancelled"

\* pitaya_trans.h:73: a request that has a timeout and no response times out.
\* Unlike tcp__write_async_cb, tls__write_to_bio starts check_timeout whatever
\* it finds, and the end of a write asks for another turn of it.
TimeoutFires == \A m \in Timed : m \in held ~> m \notin held

=============================================================================
