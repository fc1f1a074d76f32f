------------------------------- MODULE Client -------------------------------
(***************************************************************************)
(* The client object: its request and notify slots, request ids, the lists *)
(* of open requests and notifies, event handlers, callbacks, and the       *)
(* polling mode, in which the uv thread only queues what has happened and  *)
(* a user thread runs the callbacks from pc_client_poll.                   *)
(*                                                                         *)
(* The transport is external here (Link, TcpWrite and TlsWrite model it):  *)
(* it takes or refuses a message, and completes each one it took once,     *)
(* under wq_mutex, unless the server's answer came first.  The server      *)
(* answers a request once, but perhaps after a timeout or a reset has      *)
(* completed it.  The state checks of the client are Link's too: a call    *)
(* may be refused at any time.                                             *)
(*                                                                         *)
(* req_mutex, notify_mutex and state_mutex are held for a step at most,    *)
(* wq_mutex and event_mutex while other code runs.  Elements of            *)
(* pending_events are left out: event_mutex is held from the one that      *)
(* takes an element to the one that gives it back.                         *)
(***************************************************************************)
EXTENDS Naturals, SequencesExt, FiniteSets

CONSTANTS
    Reqs,      \* requests
    Notifies,  \* notifies
    Retriers,  \* those that a callback may send
    Users,     \* threads that poll
    Slots,     \* pre-allocated slots for requests, and as many for notifies
    MaxId,     \* PC_INVALID_REQ_ID, the largest unsigned int
    Handlers,  \* event handlers
    MaxLoad    \* bound: calls, network events and handlers taken together

Msgs == Reqs \cup Notifies
Threads == Users \cup {"uv"}

ASSUME ClientAssumption ==
    /\ Reqs \cap Notifies = {}
    /\ Retriers \subseteq Msgs
    /\ "uv" \notin Users /\ "own" \notin Threads /\ "free" \notin Threads
    /\ "none" \notin Msgs
    /\ Slots \in Nat
    /\ MaxId \in Nat /\ MaxId > 1
    /\ MaxLoad \in Nat

VARIABLES
    polling,   \* config.enable_polling
    phase,     \* how far pc_client_cleanup has come
    call,      \* how far the call for each message has come
    host,      \* the thread that is in the call if it runs a callback, else "own"
    slot,      \* the message's pre-allocated slot; 0 for allocated memory
    busy,      \* slots marked PC_PRE_ALLOC_ST_BUSY, of requests and of notifies
    seqNum,    \* client->seq_num
    seq,       \* base.seq_num
    reqIdSeq,  \* client->req_id_seq
    id,        \* req_id
    listed,    \* messages that a walk over req_queue and notify_queue finds
    linking,   \* the notify that is being put into notify_queue
    torn,      \* the end of notify_queue may not be reached by a walk
    at,        \* the callback each thread is in
    outcome,   \* what each message's callback was told
    pending,   \* pending_ev_queue
    evLock,    \* the owner of event_mutex, which is in poll
    wqLock,    \* the owner of the transport's wq_mutex
    inTrans,   \* messages the transport has to complete
    acks,      \* those it is completing in the running handler
    answered,  \* requests the server has answered
    granted,   \* those it has answered without an error
    events,    \* number of network events and pushes so far
    handlers,  \* ev_handlers
    called     \* handlers already called for the event being handled

callVars == <<call, host, slot, busy, seqNum, seq, reqIdSeq, id, linking>>
transVars == <<inTrans, acks, answered, granted, events>>
handlerVars == <<handlers, called>>
deliverVars == <<listed, torn, at, outcome, called>>
vars == <<polling, phase, callVars, deliverVars, pending, evLock, wqLock, transVars,
          handlers>>

Idle == [k |-> "idle"]
Places == {Idle} \cup [k : {"msg"}, m : Msgs, source : Msgs]
                 \cup [k : {"event"}, h : Handlers] \cup [k : {"push"}]
Event == [k : {"done"}, m : Msgs] \cup [k : {"event", "push"}]

TypeOK ==
    /\ polling \in BOOLEAN
    /\ phase \in {"live", "closing", "released", "done", "crashed"}
    /\ call \in [Msgs -> {"new", "linking", "open", "sent", "refused", "rejected"}]
    /\ host \in [Msgs -> Threads \cup {"own"}]
    /\ slot \in [Msgs -> 0..Slots]
    /\ busy \in [{"req", "notify"} -> SUBSET (1..Slots)]
    /\ seqNum \in Nat
    /\ seq \in [Msgs -> Nat]
    /\ reqIdSeq \in 0..MaxId
    /\ id \in [Msgs -> 0..(MaxId - 1)]
    /\ listed \subseteq Msgs
    /\ linking \in Notifies \cup {"none"}
    /\ torn \in BOOLEAN
    /\ at \in [Threads -> Places]
    /\ outcome \in [Msgs -> {"none", "success", "error", "silent"}]
    /\ pending \in Seq(Event)
    /\ evLock \in Users \cup {"free"}
    /\ wqLock \in {"uv", "free"}
    /\ inTrans \subseteq Msgs /\ acks \subseteq Msgs
    /\ answered \subseteq Reqs /\ granted \subseteq Reqs
    /\ events \in Nat
    /\ handlers \in Seq(Handlers)
    /\ called \subseteq Handlers

\* pc_client_init.
Init ==
    /\ polling \in BOOLEAN
    /\ phase = "live"
    /\ call = [m \in Msgs |-> "new"]
    /\ host = [m \in Msgs |-> "own"]
    /\ slot = [m \in Msgs |-> 0]
    /\ busy = [kind \in {"req", "notify"} |-> {}]
    /\ seqNum = 0 /\ seq = [m \in Msgs |-> 0]
    /\ reqIdSeq = 1 /\ id = [m \in Msgs |-> 0]
    /\ listed = {} /\ linking = "none" /\ torn = FALSE
    /\ at = [t \in Threads |-> Idle]
    /\ outcome = [m \in Msgs |-> "none"]
    /\ pending = <<>>
    /\ evLock = "free" /\ wqLock = "free"
    /\ inTrans = {} /\ acks = {} /\ answered = {} /\ granted = {} /\ events = 0
    /\ handlers = <<>> /\ called = {}

Kind(m) == IF m \in Reqs THEN "req" ELSE "notify"
\* The bound on what happens to the client.
HasRoom ==
    Cardinality({m \in Msgs : call[m] # "new"}) + events + Len(handlers) < MaxLoad

\* t runs a callback and no call made from inside it is under way.
InCallback(t) ==
    /\ at[t] # Idle
    /\ \A m \in Msgs : host[m] # t

-----------------------------------------------------------------------------
(* pc_*_request and pc_*_notify, on a thread of their own or inside a       *)
(* callback.                                                                *)

\* Mutant: what is not in the list is taken to be idle.
IdleSlotsUnlisted(kind) ==
    {s \in 1..Slots : \A m \in listed : Kind(m) = kind => slot[m] # s}

IdleSlots(kind) == (1..Slots) \ busy[kind]

\* The first idle slot, or allocated memory.
TakeSlot(m) ==
    LET idle == IdleSlots(Kind(m)) IN
    IF idle = {}
    THEN UNCHANGED <<slot, busy>>
    ELSE \E s \in idle :
           /\ \A other \in idle : s <= other
           /\ slot' = [slot EXCEPT ![m] = s]
           /\ busy' = [busy EXCEPT ![Kind(m)] = @ \cup {s}]

\* The memory of m is idle again; m keeps its address.
ReleaseSlot(m) == busy' = [busy EXCEPT ![Kind(m)] = @ \ {slot[m]}]

\* Mutant: only one of the two reserved ids is skipped.
NextIdZero == IF reqIdSeq = 0 THEN 1 ELSE reqIdSeq

\* 0 and the largest unsigned int are no request ids.
NextId == IF reqIdSeq \in {0, MaxId} THEN 1 ELSE reqIdSeq

TakeSeq(m) ==
    /\ seq' = [seq EXCEPT ![m] = seqNum]
    /\ seqNum' = seqNum + 1

\* Who makes the call for m: a thread of its own, or a callback.  Assumption:
\* callbacks that pc_client_cleanup leads to make no calls (TcpWrite has them).
Caller(m, t) ==
    /\ phase = "live"
    /\ HasRoom
    /\ call[m] = "new"
    /\ t # "own" => m \in Retriers /\ InCallback(t)

\* Arguments or the client's state are wrong.
CallRejected(m, t) ==
    /\ Caller(m, t)
    /\ call' = [call EXCEPT ![m] = "rejected"]
    /\ UNCHANGED <<polling, phase, host, slot, busy, seqNum, seq, reqIdSeq, id, linking,
                   deliverVars, pending, evLock, wqLock, transVars, handlers>>

\* Messages that are still to be told to the client by a poll.
Awaiting == {pending[i].m : i \in {j \in DOMAIN pending : pending[j].k = "done"}}

\* Requests whose id may still be used by the transport or the server.
Outstanding ==
    listed \cup inTrans \cup acks \cup Awaiting
           \cup {m \in Msgs : call[m] = "sent" /\ m \notin answered}

\* Under req_mutex: slot, list and numbers of a request.  Assumption: fewer than
\* 2^32 - 2 requests are made while an earlier one is outstanding, so that ids
\* are not in use when their turn comes again.
Request(r, t) ==
    /\ Caller(r, t)
    /\ \A q \in Reqs \cap Outstanding : id[q] # NextId
    /\ linking = "none"
    /\ call' = [call EXCEPT ![r] = "open"]
    /\ host' = [host EXCEPT ![r] = t]
    /\ TakeSlot(r)
    /\ TakeSeq(r)
    /\ id' = [id EXCEPT ![r] = NextId]
    /\ reqIdSeq' = (NextId + 1) % (MaxId + 1)
    /\ listed' = listed \cup {r}
    /\ UNCHANGED <<polling, phase, linking, torn, at, outcome, called, pending, evLock,
                   wqLock, transVars, handlers>>

\* A notify is put into notify_queue under req_mutex, but taken out of it under
\* notify_mutex: what happens to the last element while the new one is put
\* behind it decides whether it can be found.  If it cannot, the list ends in it
\* all the same: whether a notify behind it can be found is left open, until one
\* can.
Notify(n, t) ==
    /\ Caller(n, t)
    /\ linking = "none"
    /\ call' = [call EXCEPT ![n] = "linking"]
    /\ host' = [host EXCEPT ![n] = t]
    /\ TakeSlot(n)
    /\ TakeSeq(n)
    /\ linking' = n
    /\ UNCHANGED <<polling, phase, reqIdSeq, id, deliverVars, pending, evLock, wqLock,
                   transVars, handlers>>

LinkNotify(n) ==
    /\ phase # "crashed"
    /\ linking = n
    /\ linking' = "none"
    /\ call' = [call EXCEPT ![n] = "open"]
    /\ \E found \in {TRUE, ~torn} :
         /\ listed' = IF found THEN listed \cup {n} ELSE listed
         /\ torn' = ~found
    /\ UNCHANGED <<polling, phase, host, slot, busy, seqNum, seq, reqIdSeq, id, at,
                   outcome, called, pending, evLock, wqLock, transVars, handlers>>

\* trans->send takes the message under wq_mutex.
SendTaken(m) ==
    /\ phase # "crashed"
    /\ call[m] = "open"
    /\ wqLock \in {"free", host[m]}
    /\ call' = [call EXCEPT ![m] = "sent"]
    /\ host' = [host EXCEPT ![m] = "own"]
    /\ inTrans' = inTrans \cup {m}
    /\ UNCHANGED <<polling, phase, slot, busy, seqNum, seq, reqIdSeq, id, linking,
                   deliverVars, pending, evLock, wqLock, acks, answered, granted,
                   events, handlers>>

\* Mutant: the error of waking the uv thread fails the call.
SendRefusedTaken(m) ==
    /\ phase # "crashed"
    /\ call[m] = "open"
    /\ call' = [call EXCEPT ![m] = "refused"]
    /\ inTrans' = inTrans \cup {m}
    /\ UNCHANGED <<polling, phase, host, slot, busy, seqNum, seq, reqIdSeq, id, linking,
                   deliverVars, pending, evLock, wqLock, acks, answered, granted,
                   events, handlers>>

SendRefused(m) ==
    /\ phase # "crashed"
    /\ call[m] = "open"
    /\ call' = [call EXCEPT ![m] = "refused"]
    /\ UNCHANGED <<polling, phase, host, slot, busy, seqNum, seq, reqIdSeq, id, linking,
                   deliverVars, pending, evLock, wqLock, transVars, handlers>>

\* Under req_mutex: a refused message leaves its list and gives its slot back.
TakeBack(m) ==
    /\ phase # "crashed"
    /\ call[m] = "refused"
    /\ linking = "none"
    /\ call' = [call EXCEPT ![m] = "rejected"]
    /\ host' = [host EXCEPT ![m] = "own"]
    /\ listed' = listed \ {m}
    /\ ReleaseSlot(m)
    /\ UNCHANGED <<polling, phase, slot, seqNum, seq, reqIdSeq, id, linking, torn, at,
                   outcome, called, pending, evLock, wqLock, transVars, handlers>>

CallStep(m) ==
    \/ m \in Notifies /\ LinkNotify(m)
    \/ SendTaken(m) \/ SendRefused(m) \/ TakeBack(m)

-----------------------------------------------------------------------------
(* Delivery: pc__trans_resp, pc__trans_sent and pc__trans_fire_event.       *)

\* Mutant: the ids are not compared.
FoundFirst(m) ==
    IF m \in Reqs
    THEN {r \in listed \cap Reqs : \A q \in listed \cap Reqs : seq[r] <= seq[q]}
    ELSE {m} \cap listed

\* The element the walk over the list stops at: the first with the request id
\* of m, or m itself by its seq_num.
Found(m) ==
    IF m \in Reqs
    THEN {r \in listed \cap Reqs :
            /\ id[r] = id[m]
            /\ \A q \in listed \cap Reqs : id[q] = id[m] => seq[r] <= seq[q]}
    ELSE {m} \cap listed

\* Whether m is the last element of notify_queue.
IsLast(m) == m \in Notifies /\ \A n \in listed \cap Notifies : seq[n] <= seq[m]

Unlist(m) ==
    /\ listed' = listed \ {m}
    /\ torn' = (torn \/ (linking # "none" /\ IsLast(m)))

\* Which callback is called: a notify's only if there is an error.
Told(m, err) == IF err THEN "error" ELSE IF m \in Reqs THEN "success" ELSE "silent"

DeliverDone(t, m, err) ==
    IF Found(m) = {}
    THEN UNCHANGED deliverVars
    ELSE \E target \in Found(m) :
           /\ Unlist(target)
           /\ at' = [at EXCEPT ![t] = [k |-> "msg", m |-> target, source |-> m]]
           /\ outcome' = [outcome EXCEPT ![target] = Told(target, err)]
           /\ UNCHANGED called

DeliverEvent(t) ==
    /\ IF handlers = <<>>
       THEN UNCHANGED <<at, called>>
       ELSE /\ at' = [at EXCEPT ![t] = [k |-> "event", h |-> Head(handlers)]]
            /\ called' = {Head(handlers)}
    /\ UNCHANGED <<listed, torn, outcome>>

\* pc__trans_push, with a push_handler.
DeliverPush(t) ==
    /\ at' = [at EXCEPT ![t] = [k |-> "push"]]
    /\ UNCHANGED <<listed, torn, outcome, called>>

\* pc__handle_event.  (Its assertion leaves out the pushes, which it goes on to
\* handle all the same: PolledKinds.)
Deliver(t, e, err) ==
    CASE e.k = "event" -> DeliverEvent(t)
      [] e.k = "push"  -> DeliverPush(t)
      [] OTHER         -> DeliverDone(t, e.m, err)

\* The end of a request's or notify's callback; its slot is released under the
\* list's mutex.
CallbackEnd(t) ==
    /\ InCallback(t)
    /\ at[t].k = "msg"
    /\ ReleaseSlot(at[t].m)
    /\ at' = [at EXCEPT ![t] = Idle]
    /\ UNCHANGED <<polling, phase, call, host, slot, seqNum, seq, reqIdSeq, id,
                   linking, listed, torn, outcome, called, pending, evLock, wqLock, transVars,
                   handlers>>

\* The handlers behind h, in the list as it is now.
Behind(h) ==
    LET i == CHOOSE j \in DOMAIN handlers : handlers[j] = h
    IN SubSeq(handlers, i + 1, Len(handlers))

\* The end of an event handler's callback: the next one, if any.
HandlerEnd(t) ==
    /\ InCallback(t)
    /\ at[t].k = "event"
    /\ IF Behind(at[t].h) = <<>>
       THEN at' = [at EXCEPT ![t] = Idle] /\ called' = {}
       ELSE LET next == Head(Behind(at[t].h))
            IN /\ at' = [at EXCEPT ![t] = [k |-> "event", h |-> next]]
               /\ called' = called \cup {next}
    /\ UNCHANGED <<polling, phase, callVars, listed, torn, outcome, pending, evLock,
                   wqLock, transVars, handlers>>

PushEnd(t) ==
    /\ InCallback(t)
    /\ at[t].k = "push"
    /\ at' = [at EXCEPT ![t] = Idle]
    /\ UNCHANGED <<polling, phase, callVars, listed, torn, outcome, called, pending,
                   evLock, wqLock, transVars, handlers>>

CallbackStep(t) == CallbackEnd(t) \/ HandlerEnd(t) \/ PushEnd(t)

-----------------------------------------------------------------------------
(* ev_handlers.  handler_mutex is held while handlers are called, and is    *)
(* recursive: only the thread in a handler changes the list meanwhile.      *)

\* Mutant: the list is changed without handler_mutex.
HandlerMutexNot(t) == TRUE

HandlerMutex(t) ==
    \A other \in Threads : at[other] # Idle /\ at[other].k = "event" => other = t

AddHandler(h, t) ==
    /\ phase = "live"
    /\ HasRoom
    /\ HandlerMutex(t)
    /\ t # "own" => InCallback(t) /\ at[t].k = "event"
    /\ \A i \in DOMAIN handlers : handlers[i] # h
    /\ handlers' = Append(handlers, h)
    /\ UNCHANGED <<polling, phase, callVars, deliverVars, pending, evLock, wqLock,
                   transVars>>

\* Not a handler that removes itself.
RmHandler(h, t) ==
    /\ phase = "live"
    /\ HandlerMutex(t)
    /\ t # "own" => InCallback(t) /\ at[t].k = "event" /\ at[t].h # h
    /\ \E i \in DOMAIN handlers :
         /\ handlers[i] = h
         /\ handlers' = RemoveAt(handlers, i)
    /\ UNCHANGED <<polling, phase, callVars, deliverVars, pending, evLock, wqLock,
                   transVars>>

-----------------------------------------------------------------------------
(* The uv thread: pc_trans_resp, pc_trans_sent and pc_trans_fire_event,     *)
(* which run the callbacks or, in polling mode, queue the event.            *)

UvFree == phase \in {"live", "closing"} /\ at["uv"] = Idle

\* Mutant: what happens during a poll is dropped.
TellDrops(e, err) ==
    IF polling
    THEN /\ e.k = "done" => err
         /\ pending' = IF evLock = "free" THEN Append(pending, e) ELSE pending
         /\ UNCHANGED deliverVars
    ELSE /\ Deliver("uv", e, err)
         /\ UNCHANGED pending

\* In polling mode a completion is queued with a copy of its error: it has one.
Tell(e, err) ==
    IF polling
    THEN /\ e.k = "done" => err
         /\ evLock = "free"
         /\ pending' = Append(pending, e)
         /\ UNCHANGED deliverVars
    ELSE /\ Deliver("uv", e, err)
         /\ UNCHANGED pending

\* The copy of the error of a success, pc__error_dup(NULL), ends the process: no
\* thread takes a step of the client after it.
Crash ==
    /\ polling
    /\ evLock = "free"
    /\ phase' = "crashed"
    /\ UNCHANGED <<deliverVars, pending, transVars>>

\* A handler that completes messages under wq_mutex begins: all that is left,
\* or those that have been written or are late.
AckBegin(ms) ==
    /\ UvFree
    /\ wqLock = "free"
    /\ ms # {}
    /\ wqLock' = "uv"
    /\ acks' = ms
    /\ inTrans' = inTrans \ ms
    /\ UNCHANGED <<polling, phase, callVars, deliverVars, pending, evLock, answered,
                   granted, events, handlers>>

\* Mutant: a failed write is reported without an error.
AckQuiet(m) ==
    /\ UvFree
    /\ m \in acks
    /\ acks' = acks \ {m}
    /\ \E err \in BOOLEAN : Tell([k |-> "done", m |-> m], err)
    /\ UNCHANGED <<polling, phase, callVars, evLock, wqLock, inTrans, answered, granted,
                   events, handlers>>

\* A request is completed here by an error; a notify also by its successful write.
Ack(m) ==
    /\ UvFree
    /\ m \in acks
    /\ \/ /\ acks' = acks \ {m}
          /\ \E err \in BOOLEAN : (m \in Reqs => err) /\ Tell([k |-> "done", m |-> m], err)
          /\ UNCHANGED <<phase, inTrans, answered, granted, events>>
       \/ m \in Notifies /\ Crash
    /\ UNCHANGED <<polling, callVars, evLock, wqLock, handlers>>

AckEnd ==
    /\ UvFree
    /\ wqLock = "uv"
    /\ acks = {}
    /\ wqLock' = "free"
    /\ UNCHANGED <<polling, phase, callVars, deliverVars, pending, evLock, transVars,
                   handlers>>

\* A response, which the client is told of before the transport drops its item.
Answer(r) ==
    /\ UvFree
    /\ wqLock = "free"
    /\ call[r] = "sent"
    /\ r \notin answered
    /\ \/ /\ answered' = answered \cup {r}
          /\ inTrans' = inTrans \ {r}
          /\ \E err \in BOOLEAN :
               /\ granted' = IF err THEN granted ELSE granted \cup {r}
               /\ Tell([k |-> "done", m |-> r], err)
          /\ UNCHANGED <<phase, acks, events>>
       \/ Crash
    /\ UNCHANGED <<polling, callVars, evLock, wqLock, handlers>>

\* A network event of the connection, or a push of the server.
NetworkEvent ==
    /\ UvFree
    /\ wqLock = "free"
    /\ HasRoom
    /\ events' = events + 1
    /\ \E kind \in {"event", "push"} : Tell([k |-> kind], FALSE)
    /\ UNCHANGED <<polling, phase, callVars, evLock, wqLock, inTrans, acks, answered,
                   granted, handlers>>

-----------------------------------------------------------------------------
(* pc_client_poll, also as the first thing connect and disconnect do.  A    *)
(* poll from inside a callback finds is_in_poll and does nothing.           *)

PollBegin(u) ==
    /\ polling
    /\ phase \in {"live", "released"}
    /\ evLock = "free"
    /\ evLock' = u
    /\ UNCHANGED <<polling, phase, callVars, deliverVars, pending, wqLock, transVars,
                   handlers>>

\* pc__handle_event passes the address of its copy of the error: what is polled is
\* told as an error, which it is, as no success gets into the queue.
PollNext(u) ==
    /\ evLock = u
    /\ at[u] = Idle
    /\ pending # <<>>
    /\ pending' = Tail(pending)
    /\ Deliver(u, Head(pending), TRUE)
    /\ UNCHANGED <<polling, phase, callVars, evLock, wqLock, transVars, handlers>>

\* The queue is empty.  In pc_client_cleanup the client is freed after it.
PollEnd(u) ==
    /\ evLock = u
    /\ at[u] = Idle
    /\ pending = <<>>
    /\ evLock' = "free"
    /\ IF phase = "released"
       THEN phase' = "done" /\ handlers' = <<>>
       ELSE UNCHANGED <<phase, handlers>>
    /\ UNCHANGED <<polling, callVars, deliverVars, pending, wqLock, transVars>>

-----------------------------------------------------------------------------
(* pc_client_cleanup, by a user whose calls and polls are over.             *)

CleanupBegin ==
    /\ phase = "live"
    /\ \A m \in Msgs : call[m] \in {"new", "sent", "rejected"}
    /\ evLock = "free"
    /\ phase' = "closing"
    /\ UNCHANGED <<polling, callVars, deliverVars, pending, evLock, wqLock, transVars,
                   handlers>>

\* Mutant: there is no poll after the transport has been released.
CleanupJoinDone ==
    /\ phase = "closing"
    /\ UvFree
    /\ wqLock = "free"
    /\ inTrans = {}
    /\ phase' = "done"
    /\ UNCHANGED <<polling, callVars, deliverVars, pending, evLock, wqLock, transVars,
                   handlers>>

\* trans->cleanup has completed what the transport held, and the uv thread is
\* joined.
CleanupJoin ==
    /\ phase = "closing"
    /\ UvFree
    /\ wqLock = "free"
    /\ inTrans = {}
    /\ phase' = "released"
    /\ UNCHANGED <<polling, callVars, deliverVars, pending, evLock, wqLock, transVars,
                   handlers>>

\* Without polling there is nothing left to deliver.
CleanupEnd ==
    /\ phase = "released"
    /\ ~polling
    /\ phase' = "done"
    /\ handlers' = <<>>
    /\ UNCHANGED <<polling, callVars, deliverVars, pending, evLock, wqLock, transVars>>

Next ==
    \/ \E t \in Threads \cup {"own"} :
         \/ \E m \in Msgs : CallRejected(m, t)
         \/ \E r \in Reqs : Request(r, t)
         \/ \E n \in Notifies : Notify(n, t)
    \/ \E m \in Msgs : CallStep(m) \/ Ack(m)
    \/ \E ms \in SUBSET inTrans : AckBegin(ms)
    \/ \E r \in Reqs : Answer(r)
    \/ \E t \in Threads : CallbackStep(t)
    \/ \E h \in Handlers, t \in Threads \cup {"own"} : AddHandler(h, t) \/ RmHandler(h, t)
    \/ \E u \in Users : PollBegin(u) \/ PollNext(u) \/ PollEnd(u)
    \/ AckEnd \/ NetworkEvent \/ CleanupBegin \/ CleanupJoin \/ CleanupEnd

Spec == Init /\ [][Next]_vars

\* Threads go on with the poll, callback, call or handler they are in; that the
\* transport refuses a message is not owed to a call that waits for wq_mutex.
FairSpec ==
    /\ Spec
    /\ \A u \in Users : WF_vars(PollNext(u)) /\ WF_vars(PollEnd(u))
    /\ \A t \in Threads : WF_vars(CallbackStep(t))
    /\ \A m \in Msgs : WF_vars(LinkNotify(m) \/ SendTaken(m) \/ TakeBack(m))
                      /\ WF_vars(Ack(m))
    /\ WF_vars(AckEnd)

-----------------------------------------------------------------------------
(* Properties.                                                             *)

\* The message whose callback a thread is in.
InHand == {m \in Msgs : \E t \in Threads : at[t].k = "msg" /\ at[t].m = m}

\* Messages whose memory is in use, by a call, a list or a callback.
InUse == listed \cup InHand
                \cup {m \in Msgs : call[m] \in {"linking", "open", "refused"}}

\* A slot belongs to one message from the call until the end of its callback,
\* which may be running while other threads, or the callback itself, look for an
\* idle slot.
SlotsOwned ==
    \A m, o \in InUse :
        Kind(m) = Kind(o) /\ slot[m] = slot[o] /\ slot[m] # 0 => m = o

\* The callback a response or a timeout leads to is that of the request it
\* belongs to, however late it comes and although ids are used again.
AnswersOwn == \A t \in Threads : at[t].k = "msg" => at[t].m = at[t].source

\* While the process lives, a message that has been sent and is in the client's
\* list is not forgotten: the transport has it and will complete it, or it has
\* completed it with an error that waits to be polled.
NoAnswerLost ==
    \A m \in listed : call[m] = "sent" => m \in inTrans \cup acks \cup Awaiting

\* A request succeeds only if the server has answered it, and not with an error:
\* neither a reset, a time-out or a failed write nor the answer to another request
\* is told as its success.
SuccessAnswered == \A r \in Reqs : outcome[r] = "success" => r \in granted

\* While an event is being handled, the handler in hand stays registered, and
\* every registered handler has been called or will be.
HandlersCalled ==
    \A t \in Threads :
        at[t].k = "event" =>
            /\ at[t].h \in {handlers[i] : i \in DOMAIN handlers}
            /\ \A i \in DOMAIN handlers :
                 \/ handlers[i] \in called
                 \/ \E j \in DOMAIN Behind(at[t].h) : Behind(at[t].h)[j] = handlers[i]

\* pc_pitaya.c:257-261: when cleanup frees the client nothing is queued or open.
CleanupDrained == phase = "done" => pending = <<>> /\ listed = {}

\* What the client makes of a message, in both modes.
Life == [m \in Msgs |-> IF call[m] \in {"new", "rejected"} THEN call[m]
                        ELSE IF outcome[m] = "none" THEN "open"
                        ELSE "completed"]

Abstract == INSTANCE RequestLife WITH life <- Life

\* The client keeps the promise of RequestLife: no callback after a failed call,
\* and at most one.
ImplementsRequestLife == Abstract!Spec

-----------------------------------------------------------------------------
(* What comments and assertions of the code say, and is false              *)
(* (polled_success.cfg, polled_push.cfg, poll_deadlock.cfg).               *)

\* pitaya_trans.h:71-76: the transport tells the client, also in polling mode,
\* that a notify has been sent or a request has got its response.
SuccessTold == phase # "crashed"

\* pc_pitaya.c:294: what is polled is a response, a sent notify or an event.
PolledKinds == \A i \in DOMAIN pending : pending[i].k # "push"

\* pc_client_poll returns if the callbacks it runs do.
PollReturns == \A u \in Users : evLock = u ~> evLock # u

=============================================================================
