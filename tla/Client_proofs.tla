---------------------------- MODULE Client_proofs ----------------------------
(***************************************************************************)
(* What the run of Client shows on a small instance, proved for every set  *)
(* of requests, notifies, threads and handlers, and for every number of    *)
(* slots and of request ids.                                               *)
(***************************************************************************)
EXTENDS Client, SequenceTheorems, TLAPS

\* How far the call for a message is, and where the message can then be.
CallStage ==
    /\ \A m \in Msgs : call[m] = "new" => slot[m] = 0
    /\ \A m \in inTrans \cup acks \cup Awaiting \cup InHand : call[m] = "sent"
    /\ \A m \in Msgs : outcome[m] # "none" => call[m] = "sent"
    /\ \A m \in listed : call[m] \in {"open", "refused", "sent"}
    /\ \A r \in Reqs : call[r] \in {"open", "refused"} => r \in listed
    /\ InHand \cap listed = {}
    /\ linking # "none" => call[linking] = "linking"

\* No two requests that may still be looked for have the same id.
UniqueIds == \A q, r \in Reqs \cap Outstanding : id[q] = id[r] => q = r

\* A message that is in use keeps its slot busy.
SlotsBusy == \A m \in InUse : slot[m] = 0 \/ slot[m] \in busy[Kind(m)]

\* Which threads can run callbacks: the uv thread, or the one that polls.
OneAtATime ==
    /\ polling => at["uv"] = Idle
    /\ ~polling => evLock = "free" /\ pending = <<>>
    /\ \A u \in Users : at[u] # Idle => evLock = u

\* The list has no handler twice, and those up to the one in hand are called.
HandlersInOrder ==
    /\ \A i, j \in DOMAIN handlers : handlers[i] = handlers[j] => i = j
    /\ \A t \in Threads : at[t].k = "event" =>
         \E i \in DOMAIN handlers :
            /\ handlers[i] = at[t].h
            /\ \A j \in 1..i : handlers[j] \in called

\* What has ended when pc_client_cleanup has come to a phase.
CleanupStage ==
    /\ wqLock = "free" => acks = {}
    /\ phase \notin {"live", "crashed"} =>
         \A m \in Msgs : call[m] \in {"new", "sent", "rejected"}
    /\ phase \in {"closing", "done"} => evLock = "free"
    /\ phase \in {"released", "done"} => inTrans = {} /\ acks = {} /\ at["uv"] = Idle
    /\ phase = "done" => pending = <<>>

-----------------------------------------------------------------------------
(* Facts about the operators of the model.                                 *)

\* An element of a sequence is removed and those behind it move up.
LEMMA RemoveAtProperties ==
    ASSUME NEW S, NEW s \in Seq(S), NEW i \in DOMAIN s
    PROVE  /\ RemoveAt(s, i) \in Seq(S)
           /\ DOMAIN RemoveAt(s, i) = 1..(Len(s) - 1)
           /\ \A j \in 1..(Len(s) - 1) :
                RemoveAt(s, i)[j] = IF j < i THEN s[j] ELSE s[j + 1]
<1>1. i \in 1..Len(s) /\ Len(s) \in Nat
  BY LenProperties
<1> DEFINE front == SubSeq(s, 1, i - 1)
           back == SubSeq(s, i + 1, Len(s))
<1>2. \A j \in 1..Len(s) : s[j] \in S
  BY ElementOfSeq
<1>3. /\ front \in Seq(S)
      /\ Len(front) = i - 1
      /\ \A j \in 1..(i - 1) : front[j] = s[j]
  <2>1. \A j \in 1..(i - 1) : s[j] \in S
    BY <1>1, <1>2
  <2>2. /\ front \in Seq(S)
        /\ Len(front) = IF 1 <= i - 1 THEN i - 1 - 1 + 1 ELSE 0
        /\ \A j \in 1..(i - 1 - 1 + 1) : front[j] = s[1 + j - 1]
    BY <1>1, <2>1, SubSeqProperties
  <2> QED
    BY <1>1, <2>2
<1>4. /\ back \in Seq(S)
      /\ Len(back) = Len(s) - i
      /\ \A j \in 1..(Len(s) - i) : back[j] = s[i + j]
  <2>1. \A j \in (i + 1)..Len(s) : s[j] \in S
    BY <1>1, <1>2
  <2>2. /\ back \in Seq(S)
        /\ Len(back) = IF i + 1 <= Len(s) THEN Len(s) - (i + 1) + 1 ELSE 0
        /\ \A j \in 1..(Len(s) - (i + 1) + 1) : back[j] = s[(i + 1) + j - 1]
    BY <1>1, <2>1, SubSeqProperties
  <2> QED
    BY <1>1, <2>2
<1> HIDE DEF front, back
<1>5. /\ front \o back \in Seq(S)
      /\ Len(front \o back) = Len(s) - 1
      /\ \A j \in 1..(Len(s) - 1) :
           (front \o back)[j] = IF j < i THEN s[j] ELSE s[j + 1]
  <2>1. /\ front \o back \in Seq(S)
        /\ Len(front \o back) = Len(front) + Len(back)
        /\ \A j \in 1..(Len(front) + Len(back)) :
             (front \o back)[j] = IF j <= Len(front) THEN front[j]
                                  ELSE back[j - Len(front)]
    BY <1>3, <1>4, ConcatProperties
  <2>2. Len(front) + Len(back) = Len(s) - 1
    BY <1>1, <1>3, <1>4
  <2>3. ASSUME NEW j \in 1..(Len(s) - 1)
        PROVE  (front \o back)[j] = IF j < i THEN s[j] ELSE s[j + 1]
    <3>1. (front \o back)[j] = IF j <= Len(front) THEN front[j]
                               ELSE back[j - Len(front)]
      BY <2>1, <2>2
    <3>2. CASE j < i
      <4>1. j <= Len(front) /\ j \in 1..(i - 1)
        BY <1>1, <1>3, <3>2
      <4> QED
        BY <1>3, <3>1, <3>2, <4>1
    <3>3. CASE ~(j < i)
      <4>1. /\ ~(j <= Len(front))
            /\ j - Len(front) \in 1..(Len(s) - i)
            /\ i + (j - Len(front)) = j + 1
        BY <1>1, <1>3, <3>3
      <4> QED
        BY <1>4, <3>1, <3>3, <4>1
    <3> QED
      BY <3>2, <3>3
  <2> QED
    BY <2>1, <2>2, <2>3
<1>6. RemoveAt(s, i) = front \o back
  BY DEF RemoveAt, front, back
<1> QED
  BY <1>5, <1>6, LenProperties

\* The next request id is one that can be used, and the one after it fits.
LEMMA NextIdRange ==
    ASSUME TypeOK
    PROVE  /\ NextId \in 1..(MaxId - 1)
           /\ (NextId + 1) % (MaxId + 1) = NextId + 1
<1>1. NextId \in 1..(MaxId - 1)
  BY ClientAssumption DEF TypeOK, NextId
<1>2. \A a, b \in Nat : a < b => a % b = a
  BY SMT
<1> QED
  BY <1>1, <1>2, ClientAssumption

\* Nobody polls twice, and no thread runs a callback while another does.
LEMMA OneCallback ==
    ASSUME TypeOK, OneAtATime
    PROVE  \A t, u \in Threads : at[t] # Idle /\ at[u] # Idle => t = u
  BY ClientAssumption DEF TypeOK, OneAtATime, Threads

\* A walk over the lists finds the message that is meant, if it is there.
LEMMA FoundItself ==
    ASSUME TypeOK, UniqueIds, NEW m \in Msgs \cap Outstanding
    PROVE  Found(m) = {m} \cap listed
<1>1. CASE m \in Reqs
  <2>1. ASSUME NEW r \in listed \cap Reqs, id[r] = id[m]
        PROVE  r = m
    BY <1>1, <2>1 DEF UniqueIds, Outstanding
  <2>2. seq[m] <= seq[m]
    BY DEF TypeOK
  <2> QED
    BY <1>1, <2>1, <2>2 DEF Found
<1>2. CASE m \notin Reqs
  BY <1>2 DEF Found
<1> QED
  BY <1>1, <1>2

\* The message an event is about, if any.
Subject(e) == {m \in Msgs : e.k = "done" /\ e.m = m}

\* An event that is queued, and one that is taken out of the queue.
LEMMA AwaitingQueued ==
    ASSUME TypeOK, NEW e \in Event, pending' = Append(pending, e)
    PROVE  /\ pending' \in Seq(Event)
           /\ Awaiting' = Awaiting \cup Subject(e)
<1>1. /\ pending \in Seq(Event)
      /\ DOMAIN pending = 1..Len(pending) /\ Len(pending) \in Nat
  BY LenProperties DEF TypeOK
<1>2. /\ pending' \in Seq(Event)
      /\ DOMAIN pending' = 1..(Len(pending) + 1)
      /\ \A i \in 1..Len(pending) : pending'[i] = pending[i]
      /\ pending'[Len(pending) + 1] = e
  BY <1>1, AppendProperties, LenProperties
<1>3. \A i : i \in DOMAIN pending' <=> i \in DOMAIN pending \/ i = Len(pending) + 1
  BY <1>1, <1>2
<1>4. Awaiting' = {pending'[i].m : i \in {j \in DOMAIN pending' : pending'[j].k = "done"}}
  BY DEF Awaiting
<1>5. ASSUME NEW m
      PROVE  m \in Awaiting' <=> m \in Awaiting \/ (e.k = "done" /\ m = e.m)
  BY <1>1, <1>2, <1>3, <1>4 DEF Awaiting
<1>6. e.k = "done" => e.m \in Msgs
  BY DEF Event
<1> QED
  BY <1>2, <1>5, <1>6 DEF Subject

\* The event taken off the pending list is no longer awaited there.
LEMMA AwaitingTaken ==
    ASSUME TypeOK, pending # <<>>, pending' = Tail(pending)
    PROVE  /\ pending' \in Seq(Event)
           /\ Head(pending) \in Event
           /\ Awaiting = Awaiting' \cup Subject(Head(pending))
<1>1. /\ pending \in Seq(Event)
      /\ DOMAIN pending = 1..Len(pending) /\ Len(pending) \in Nat \ {0}
  BY LenProperties, EmptySeq DEF TypeOK
<1>2. /\ pending' \in Seq(Event)
      /\ Head(pending) \in Event
      /\ Head(pending) = pending[1]
      /\ DOMAIN pending' = 1..(Len(pending) - 1)
      /\ \A i \in 1..(Len(pending) - 1) : pending'[i] = pending[i + 1]
  BY <1>1, HeadTailProperties, LenProperties DEF TypeOK
<1>3. \A i \in DOMAIN pending : i = 1 \/ (i - 1 \in DOMAIN pending' /\ i - 1 + 1 = i)
  BY <1>1, <1>2
<1>4. Awaiting' = {pending'[i].m : i \in {j \in DOMAIN pending' : pending'[j].k = "done"}}
  BY DEF Awaiting
<1>5. ASSUME NEW m
      PROVE  m \in Awaiting <=>
               m \in Awaiting' \/ (Head(pending).k = "done" /\ m = Head(pending).m)
  <2>1. ASSUME m \in Awaiting
        PROVE  m \in Awaiting' \/ (Head(pending).k = "done" /\ m = Head(pending).m)
    <3>1. PICK i \in DOMAIN pending : pending[i].k = "done" /\ m = pending[i].m
      BY <2>1 DEF Awaiting
    <3>2. CASE i = 1
      BY <1>2, <3>1, <3>2
    <3>3. CASE i - 1 \in DOMAIN pending' /\ i - 1 + 1 = i
      <4>1. pending'[i - 1] = pending[i]
        BY <1>2, <3>3
      <4> QED
        BY <1>4, <3>1, <3>3, <4>1
    <3> QED
      BY <1>3, <3>2, <3>3
  <2>2. ASSUME m \in Awaiting'
        PROVE  m \in Awaiting
    <3>1. PICK i \in DOMAIN pending' : pending'[i].k = "done" /\ m = pending'[i].m
      BY <1>4, <2>2
    <3>2. i + 1 \in DOMAIN pending /\ pending'[i] = pending[i + 1]
      BY <1>1, <1>2
    <3> QED
      BY <3>1, <3>2 DEF Awaiting
  <2>3. ASSUME Head(pending).k = "done" /\ m = Head(pending).m
        PROVE  m \in Awaiting
    BY <1>1, <1>2, <2>3 DEF Awaiting
  <2> QED
    BY <2>1, <2>2, <2>3
<1>6. Head(pending).k = "done" => Head(pending).m \in Msgs
  BY <1>2 DEF Event
<1> QED
  BY <1>2, <1>5, <1>6 DEF Subject

-----------------------------------------------------------------------------
(* The actions in groups, and what each group leaves alone.                *)

\* A completion the client is told of: of a message the transport completes,
AckTold(m) ==
    /\ UvFree
    /\ m \in acks
    /\ acks' = acks \ {m}
    /\ \E err \in BOOLEAN : (m \in Reqs => err) /\ Tell([k |-> "done", m |-> m], err)
    /\ UNCHANGED <<polling, phase, callVars, evLock, wqLock, inTrans, answered, granted,
                   events, handlers>>

\* or of a request the server answers.
AnswerTold(r) ==
    /\ UvFree
    /\ call[r] = "sent"
    /\ r \notin answered
    /\ answered' = answered \cup {r}
    /\ inTrans' = inTrans \ {r}
    /\ \E err \in BOOLEAN :
         /\ granted' = IF err THEN granted ELSE granted \cup {r}
         /\ Tell([k |-> "done", m |-> r], err)
    /\ UNCHANGED <<polling, phase, callVars, evLock, wqLock, acks, events, handlers>>

\* A completion that ends the process instead.
Crashed ==
    /\ phase' = "crashed"
    /\ UNCHANGED <<polling, callVars, deliverVars, pending, evLock, wqLock, transVars,
                   handlers>>

\* A step of a call.
CallAction ==
    \/ \E t \in Threads \cup {"own"} :
         \/ \E m \in Msgs : CallRejected(m, t)
         \/ \E r \in Reqs : Request(r, t)
         \/ \E n \in Notifies : Notify(n, t)
    \/ \E m \in Msgs : CallStep(m)

\* A change of the list of handlers.
ListAction ==
    \E h \in Handlers, t \in Threads \cup {"own"} : AddHandler(h, t) \/ RmHandler(h, t)

\* The steps of the client, by who takes them.
LEMMA NextCases ==
    ASSUME [Next]_vars
    PROVE  \/ CallAction \/ ListAction
           \/ (\E m \in Msgs : AckTold(m)) \/ (\E r \in Reqs : AnswerTold(r)) \/ NetworkEvent
           \/ Crashed
           \/ \E u \in Users : PollBegin(u) \/ PollNext(u) \/ PollEnd(u)
           \/ \E t \in Threads : CallbackStep(t)
           \/ (\E ms \in SUBSET inTrans : AckBegin(ms)) \/ AckEnd
           \/ CleanupBegin \/ CleanupJoin \/ CleanupEnd \/ UNCHANGED vars
<1>1. ASSUME NEW m \in Msgs, Ack(m)
      PROVE  AckTold(m) \/ Crashed
  BY <1>1 DEF Ack, AckTold, Crash, Crashed
<1>2. ASSUME NEW r \in Reqs, Answer(r)
      PROVE  AnswerTold(r) \/ Crashed
  BY <1>2 DEF Answer, AnswerTold, Crash, Crashed
<1> QED
  BY <1>1, <1>2 DEF Next, CallAction, ListAction

\* What a call of the user leaves alone.
LEMMA CallFrame ==
    ASSUME CallAction
    PROVE  UNCHANGED <<polling, phase, at, outcome, pending, evLock, wqLock, acks, answered,
                       granted, handlers, called>>
<1> USE DEF deliverVars, transVars
<1>1. ASSUME NEW t, NEW m, CallRejected(m, t) \/ Request(m, t) \/ Notify(m, t)
      PROVE  UNCHANGED <<polling, phase, at, outcome, pending, evLock, wqLock, acks, answered,
                         granted, handlers, called>>
  BY <1>1 DEF CallRejected, Request, Notify
<1>2. ASSUME NEW m, CallStep(m)
      PROVE  UNCHANGED <<polling, phase, at, outcome, pending, evLock, wqLock, acks, answered,
                         granted, handlers, called>>
  BY <1>2 DEF CallStep, LinkNotify, SendTaken, SendRefused, TakeBack
<1> QED
  BY <1>1, <1>2 DEF CallAction

\* What a change of the handlers leaves alone.
LEMMA ListFrame ==
    ASSUME ListAction
    PROVE  /\ phase = "live"
           /\ UNCHANGED <<polling, phase, callVars, deliverVars, pending, evLock, wqLock,
                          transVars>>
  BY DEF ListAction, AddHandler, RmHandler

-----------------------------------------------------------------------------
(* What the client does when it is told of an event.                       *)

\* The callback of m, which is in its list, is called by t.
Completes(t, m, err) ==
    /\ m \in listed
    /\ listed' = listed \ {m}
    /\ at' = [at EXCEPT ![t] = [k |-> "msg", m |-> m, source |-> m]]
    /\ outcome' = [outcome EXCEPT ![m] = Told(m, err)]
    /\ UNCHANGED called

\* The first event handler or the push handler is called by t.
Handles(t) ==
    /\ \/ /\ handlers # <<>>
          /\ at' = [at EXCEPT ![t] = [k |-> "event", h |-> Head(handlers)]]
          /\ called' = {Head(handlers)}
       \/ at' = [at EXCEPT ![t] = [k |-> "push"]] /\ UNCHANGED called
    /\ UNCHANGED <<listed, outcome>>

\* What t does with e: nothing, if the message of e is not in its list.
Acts(t, e, err) ==
    \/ /\ e.k = "done" => e.m \notin listed
       /\ UNCHANGED <<listed, at, outcome, called>>
    \/ e.k = "done" /\ Completes(t, e.m, err)
    \/ e.k # "done" /\ Handles(t)

\* A delivery puts its thread to work for the event.
LEMMA DeliverActs ==
    ASSUME TypeOK, UniqueIds, NEW t \in Threads, NEW err \in BOOLEAN, NEW e \in Event,
           e.k = "done" => e.m \in Outstanding,
           Deliver(t, e, err)
    PROVE  Acts(t, e, err) /\ torn' \in BOOLEAN
<1>1. e.k \in {"done", "event", "push"} /\ (e.k = "done" => e.m \in Msgs)
  BY DEF Event
<1>2. CASE e.k = "event"
  BY <1>2 DEF Deliver, DeliverEvent, Acts, Handles, TypeOK
<1>3. CASE e.k = "push"
  BY <1>3 DEF Deliver, DeliverPush, Acts, Handles, TypeOK
<1>4. CASE e.k = "done"
  <2>1. DeliverDone(t, e.m, err)
    BY <1>4 DEF Deliver
  <2>2. Found(e.m) = {e.m} \cap listed
    BY <1>1, <1>4, FoundItself
  <2>3. CASE e.m \in listed
    <3>1. /\ Unlist(e.m)
          /\ at' = [at EXCEPT ![t] = [k |-> "msg", m |-> e.m, source |-> e.m]]
          /\ outcome' = [outcome EXCEPT ![e.m] = Told(e.m, err)]
          /\ UNCHANGED called
      BY <2>1, <2>2, <2>3 DEF DeliverDone
    <3> QED
      BY <1>4, <2>3, <3>1 DEF Unlist, Acts, Completes, TypeOK
  <2>4. CASE e.m \notin listed
    BY <1>4, <2>1, <2>2, <2>4 DEF DeliverDone, deliverVars, Acts, TypeOK
  <2> QED
    BY <2>3, <2>4
<1> QED
  BY <1>1, <1>2, <1>3, <1>4

\* What the uv thread does with e: it queues e, or acts on it.
Learns(e, err) ==
    \/ polling /\ evLock = "free" /\ pending' = Append(pending, e) /\ UNCHANGED deliverVars
    \/ ~polling /\ Acts("uv", e, err) /\ torn' \in BOOLEAN /\ UNCHANGED pending

\* The client learns what the transport tells it:
LEMMA TellLearns ==
    ASSUME TypeOK, UniqueIds, NEW err \in BOOLEAN, NEW e \in Event,
           e.k = "done" => e.m \in Outstanding,
           Tell(e, err)
    PROVE  Learns(e, err)
<1>1. "uv" \in Threads
  BY DEF Threads
<1> QED
  BY <1>1, DeliverActs DEF Tell, Learns

\* The four actions that tell of something, by what they do.
LEMMA AckLearns ==
    ASSUME TypeOK, UniqueIds, NEW m \in Msgs, AckTold(m)
    PROVE  \E err \in BOOLEAN : (m \in Reqs => err) /\ Learns([k |-> "done", m |-> m], err)
<1>1. m \in Outstanding /\ [k |-> "done", m |-> m] \in Event
  BY DEF AckTold, Outstanding, Event
<1> QED
  BY <1>1, TellLearns DEF AckTold

\* an answer,
LEMMA AnswerLearns ==
    ASSUME TypeOK, UniqueIds, NEW r \in Reqs, AnswerTold(r)
    PROVE  \E err \in BOOLEAN : /\ granted' = IF err THEN granted ELSE granted \cup {r}
                               /\ Learns([k |-> "done", m |-> r], err)
<1>1. r \in Outstanding /\ [k |-> "done", m |-> r] \in Event
  BY DEF AnswerTold, Outstanding, Event, Msgs
<1> QED
  BY <1>1, TellLearns DEF AnswerTold

\* an event or a push.
LEMMA NetworkEventLearns ==
    ASSUME TypeOK, UniqueIds, NetworkEvent
    PROVE  \E kind \in {"event", "push"} : Learns([k |-> kind], FALSE)
<1>1. ASSUME NEW kind \in {"event", "push"}
      PROVE  [k |-> kind] \in Event /\ [k |-> kind].k # "done"
  BY DEF Event
<1> QED
  BY <1>1, TellLearns DEF NetworkEvent

\* A poll puts its thread to work for the first event that is pending.
LEMMA PollNextActs ==
    ASSUME TypeOK, UniqueIds, NEW u \in Users, PollNext(u)
    PROVE  Acts(u, Head(pending), TRUE) /\ torn' \in BOOLEAN
<1>1. Head(pending) \in Event /\ (Head(pending).k = "done" => Head(pending).m \in Outstanding)
  BY AwaitingTaken DEF PollNext, Outstanding, Event, Subject
<1>2. u \in Threads
  BY DEF Threads
<1> QED
  BY <1>1, <1>2, DeliverActs DEF PollNext

-----------------------------------------------------------------------------
(* Type correctness.                                                       *)

\* What a delivery changes keeps its type,
LEMMA ActsType ==
    ASSUME TypeOK, NEW t \in Threads, NEW err \in BOOLEAN, NEW e \in Event, Acts(t, e, err)
    PROVE  /\ listed' \subseteq Msgs
           /\ at' \in [Threads -> Places]
           /\ outcome' \in [Msgs -> {"none", "success", "error", "silent"}]
           /\ called' \subseteq Handlers
<1>1. CASE e.k = "done" /\ Completes(t, e.m, err)
  <2>1. e.m \in Msgs
    BY <1>1 DEF Event
  <2>2. [k |-> "msg", m |-> e.m, source |-> e.m] \in Places
    BY <2>1 DEF Places
  <2>3. Told(e.m, err) \in {"none", "success", "error", "silent"}
    BY DEF Told
  <2> QED
    BY <1>1, <2>1, <2>2, <2>3 DEF Completes, TypeOK
<1>2. CASE Handles(t)
  <2>1. handlers # <<>> => Head(handlers) \in Handlers
    BY HeadTailProperties DEF TypeOK
  <2>2. [k |-> "push"] \in Places
    BY DEF Places
  <2>3. \A h \in Handlers : [k |-> "event", h |-> h] \in Places
    BY DEF Places
  <2> QED
    BY <1>2, <2>1, <2>2, <2>3 DEF Handles, TypeOK
<1> QED
  BY <1>1, <1>2 DEF Acts, TypeOK

\* so does what the client learns,
LEMMA LearnsType ==
    ASSUME TypeOK, NEW err \in BOOLEAN, NEW e \in Event, Learns(e, err)
    PROVE  /\ listed' \subseteq Msgs /\ torn' \in BOOLEAN
           /\ at' \in [Threads -> Places]
           /\ outcome' \in [Msgs -> {"none", "success", "error", "silent"}]
           /\ called' \subseteq Handlers
           /\ pending' \in Seq(Event)
<1>1. CASE pending' = Append(pending, e) /\ UNCHANGED deliverVars
  BY <1>1, AwaitingQueued DEF deliverVars, TypeOK
<1>2. CASE Acts("uv", e, err) /\ torn' \in BOOLEAN /\ UNCHANGED pending
  BY <1>2, ActsType DEF Threads, TypeOK
<1> QED
  BY <1>1, <1>2 DEF Learns

\* The handlers behind the one in hand.
LEMMA BehindIs ==
    ASSUME TypeOK, HandlersInOrder, NEW i \in DOMAIN handlers
    PROVE  /\ Behind(handlers[i]) \in Seq(Handlers)
           /\ Len(Behind(handlers[i])) = Len(handlers) - i
           /\ \A j \in 1..(Len(handlers) - i) : Behind(handlers[i])[j] = handlers[i + j]
<1>1. i \in 1..Len(handlers) /\ Len(handlers) \in Nat
  BY LenProperties DEF TypeOK
<1>2. (CHOOSE j \in DOMAIN handlers : handlers[j] = handlers[i]) = i
  BY DEF HandlersInOrder
<1>3. Behind(handlers[i]) = SubSeq(handlers, i + 1, Len(handlers))
  BY <1>2 DEF Behind
<1>4. \A j \in (i + 1)..Len(handlers) : handlers[j] \in Handlers
  BY <1>1, ElementOfSeq DEF TypeOK
<1>5. LET back == SubSeq(handlers, i + 1, Len(handlers))
      IN /\ back \in Seq(Handlers)
         /\ Len(back) = IF i + 1 <= Len(handlers) THEN Len(handlers) - (i + 1) + 1 ELSE 0
         /\ \A j \in 1..(Len(handlers) - (i + 1) + 1) : back[j] = handlers[(i + 1) + j - 1]
  BY <1>1, <1>4, SubSeqProperties
<1> QED
  BY <1>1, <1>3, <1>5

\* The end of a handler: the next handler is the one behind it.
LEMMA HandlerEndNext ==
    ASSUME TypeOK, HandlersInOrder, NEW t \in Threads, HandlerEnd(t)
    PROVE  \E i \in DOMAIN handlers :
             /\ handlers[i] = at[t].h
             /\ \A j \in 1..i : handlers[j] \in called
             /\ \/ /\ i = Len(handlers)
                   /\ at' = [at EXCEPT ![t] = Idle] /\ called' = {}
                \/ /\ i + 1 \in DOMAIN handlers
                   /\ at' = [at EXCEPT ![t] = [k |-> "event", h |-> handlers[i + 1]]]
                   /\ called' = called \cup {handlers[i + 1]}
<1>1. PICK i \in DOMAIN handlers :
        handlers[i] = at[t].h /\ \A j \in 1..i : handlers[j] \in called
  BY DEF HandlersInOrder, HandlerEnd
<1>2. i \in 1..Len(handlers) /\ Len(handlers) \in Nat /\ DOMAIN handlers = 1..Len(handlers)
  BY LenProperties DEF TypeOK
<1> DEFINE back == Behind(at[t].h)
<1>3. /\ back \in Seq(Handlers)
      /\ Len(back) = Len(handlers) - i
      /\ \A j \in 1..(Len(handlers) - i) : back[j] = handlers[i + j]
  BY <1>1, BehindIs
<1>4. IF back = <<>>
      THEN at' = [at EXCEPT ![t] = Idle] /\ called' = {}
      ELSE /\ at' = [at EXCEPT ![t] = [k |-> "event", h |-> Head(back)]]
           /\ called' = called \cup {Head(back)}
  BY DEF HandlerEnd
<1> HIDE DEF back
<1>5. CASE back = <<>>
  <2>1. Len(back) = 0
    BY <1>5
  <2> QED
    BY <1>1, <1>2, <1>3, <1>4, <1>5, <2>1
<1>6. CASE back # <<>>
  <2>1. Len(back) # 0 /\ Head(back) = back[1]
    BY <1>3, <1>6, EmptySeq
  <2>2. i + 1 \in DOMAIN handlers /\ back[1] = handlers[i + 1]
    BY <1>2, <1>3, <2>1
  <2> QED
    BY <1>1, <1>4, <1>6, <2>1, <2>2
<1> QED
  BY <1>5, <1>6

\* and so does every step.
LEMMA TypeStep ==
    ASSUME TypeOK, UniqueIds, HandlersInOrder, [Next]_vars
    PROVE  TypeOK'
<1> USE DEF vars, callVars, transVars, deliverVars
<1>1. ASSUME NEW m \in Msgs, NEW t \in Threads \cup {"own"}, CallRejected(m, t)
      PROVE  TypeOK'
  BY <1>1 DEF CallRejected, TypeOK
<1>2. ASSUME NEW m \in Msgs, TakeSlot(m)
      PROVE  slot' \in [Msgs -> 0..Slots] /\ busy' \in [{"req", "notify"} -> SUBSET (1..Slots)]
  <2>1. Kind(m) \in {"req", "notify"}
    BY DEF Kind
  <2>2. CASE IdleSlots(Kind(m)) = {}
    BY <1>2, <2>2 DEF TakeSlot, TypeOK
  <2>3. CASE IdleSlots(Kind(m)) # {}
    <3>1. PICK s \in IdleSlots(Kind(m)) :
            /\ slot' = [slot EXCEPT ![m] = s]
            /\ busy' = [busy EXCEPT ![Kind(m)] = @ \cup {s}]
      BY <1>2, <2>3 DEF TakeSlot
    <3>2. s \in 1..Slots /\ s \in 0..Slots
      BY ClientAssumption DEF IdleSlots
    <3> QED
      BY <2>1, <3>1, <3>2 DEF TypeOK
  <2> QED
    BY <2>2, <2>3
<1>3. ASSUME NEW m \in Msgs, TakeSeq(m)
      PROVE  seq' \in [Msgs -> Nat] /\ seqNum' \in Nat
  BY <1>3 DEF TakeSeq, TypeOK
<1>4. ASSUME NEW m \in Msgs
      PROVE  ReleaseSlot(m) => busy' \in [{"req", "notify"} -> SUBSET (1..Slots)]
  BY DEF ReleaseSlot, Kind, TypeOK
<1>5. ASSUME NEW r \in Reqs, NEW t \in Threads \cup {"own"}, Request(r, t)
      PROVE  TypeOK'
  <2>1. r \in Msgs
    BY DEF Msgs
  <2>2. NextId \in 0..(MaxId - 1) /\ (NextId + 1) % (MaxId + 1) \in 0..MaxId
    BY NextIdRange, ClientAssumption
  <2>3. /\ slot' \in [Msgs -> 0..Slots]
        /\ busy' \in [{"req", "notify"} -> SUBSET (1..Slots)]
        /\ seq' \in [Msgs -> Nat]
        /\ seqNum' \in Nat
    BY <1>2, <1>3, <1>5, <2>1 DEF Request
  <2> QED
    BY <1>5, <2>1, <2>2, <2>3 DEF Request, TypeOK
<1>6. ASSUME NEW n \in Notifies, NEW t \in Threads \cup {"own"}, Notify(n, t)
      PROVE  TypeOK'
  <2>1. n \in Msgs
    BY DEF Msgs
  <2>2. /\ slot' \in [Msgs -> 0..Slots]
        /\ busy' \in [{"req", "notify"} -> SUBSET (1..Slots)]
        /\ seq' \in [Msgs -> Nat]
        /\ seqNum' \in Nat
    BY <1>2, <1>3, <1>6, <2>1 DEF Notify
  <2> QED
    BY <1>6, <2>1, <2>2 DEF Notify, TypeOK
<1>7. ASSUME NEW m \in Msgs, CallStep(m)
      PROVE  TypeOK'
  <2>1. LinkNotify(m) => TypeOK'
    BY DEF LinkNotify, TypeOK
  <2>2. SendTaken(m) => TypeOK'
    BY DEF SendTaken, TypeOK
  <2>3. SendRefused(m) => TypeOK'
    BY DEF SendRefused, TypeOK
  <2>4. TakeBack(m) => TypeOK'
    BY <1>4 DEF TakeBack, TypeOK
  <2> QED
    BY <1>7, <2>1, <2>2, <2>3, <2>4 DEF CallStep
<1>8. ASSUME NEW m \in Msgs, AckTold(m)
      PROVE  TypeOK'
  <2>1. PICK err \in BOOLEAN : Learns([k |-> "done", m |-> m], err)
    BY <1>8, AckLearns
  <2>2. [k |-> "done", m |-> m] \in Event
    BY DEF Event
  <2> QED
    BY <1>8, <2>1, <2>2, LearnsType DEF AckTold, TypeOK
<1>9. ASSUME NEW r \in Reqs, AnswerTold(r)
      PROVE  TypeOK'
  <2>1. PICK err \in BOOLEAN : Learns([k |-> "done", m |-> r], err)
    BY <1>9, AnswerLearns
  <2>2. [k |-> "done", m |-> r] \in Event
    BY DEF Event, Msgs
  <2> QED
    BY <1>9, <2>1, <2>2, LearnsType DEF AnswerTold, TypeOK
<1>10. ASSUME NetworkEvent
       PROVE  TypeOK'
  <2>1. PICK kind \in {"event", "push"} : Learns([k |-> kind], FALSE)
    BY <1>10, NetworkEventLearns
  <2>2. [k |-> kind] \in Event
    BY DEF Event
  <2> QED
    <3>1. /\ listed' \subseteq Msgs /\ torn' \in BOOLEAN
          /\ at' \in [Threads -> Places]
          /\ outcome' \in [Msgs -> {"none", "success", "error", "silent"}]
          /\ called' \subseteq Handlers
          /\ pending' \in Seq(Event)
      BY <2>1, <2>2, LearnsType
    <3> QED
      BY <1>10, <3>1 DEF NetworkEvent, TypeOK
<1>11. ASSUME NEW u \in Users, PollNext(u)
       PROVE  TypeOK'
  <2>1. Acts(u, Head(pending), TRUE) /\ torn' \in BOOLEAN
    BY <1>11, PollNextActs
  <2>2. pending' \in Seq(Event) /\ Head(pending) \in Event /\ u \in Threads
    BY <1>11, AwaitingTaken DEF PollNext, Threads
  <2> QED
    BY <1>11, <2>1, <2>2, ActsType DEF PollNext, TypeOK
<1>12. ASSUME NEW ms \in SUBSET inTrans, AckBegin(ms)
       PROVE  TypeOK'
  BY <1>12 DEF AckBegin, TypeOK
<1>13. ASSUME NEW t \in Threads, CallbackStep(t)
       PROVE  TypeOK'
  <2>1. Idle \in Places
    BY DEF Places
  <2>2. at[t] \in Places /\ (at[t].k = "msg" => at[t].m \in Msgs)
    BY DEF Places, Idle, TypeOK
  <2>3. CallbackEnd(t) => TypeOK'
    BY <1>4, <2>1, <2>2 DEF CallbackEnd, TypeOK
  <2>4. PushEnd(t) => TypeOK'
    BY <2>1 DEF PushEnd, TypeOK
  <2>5. ASSUME HandlerEnd(t)
        PROVE  TypeOK'
    <3>1. PICK i \in DOMAIN handlers :
            \/ at' = [at EXCEPT ![t] = Idle] /\ called' = {}
            \/ /\ i + 1 \in DOMAIN handlers
               /\ at' = [at EXCEPT ![t] = [k |-> "event", h |-> handlers[i + 1]]]
               /\ called' = called \cup {handlers[i + 1]}
      BY <2>5, HandlerEndNext
    <3>2. \A j \in DOMAIN handlers : handlers[j] \in Handlers
      BY ElementOfSeq, LenProperties DEF TypeOK
    <3>3. \A h \in Handlers : [k |-> "event", h |-> h] \in Places
      BY DEF Places
    <3>4. at' \in [Threads -> Places] /\ called' \subseteq Handlers
      BY <2>1, <3>1, <3>2, <3>3, ZenonT(60) DEF TypeOK
    <3> QED
      BY <2>5, <3>4 DEF HandlerEnd, TypeOK
  <2> QED
    BY <1>13, <2>3, <2>4, <2>5 DEF CallbackStep
<1>14. ASSUME NEW h \in Handlers, NEW t \in Threads \cup {"own"},
              AddHandler(h, t) \/ RmHandler(h, t)
       PROVE  TypeOK'
  <2>1. handlers' \in Seq(Handlers)
    <3>1. handlers \in Seq(Handlers)
      BY DEF TypeOK
    <3>2. AddHandler(h, t) => handlers' \in Seq(Handlers)
      BY <3>1, AppendProperties DEF AddHandler
    <3>3. RmHandler(h, t) => handlers' \in Seq(Handlers)
      BY <3>1, RemoveAtProperties DEF RmHandler
    <3> QED
      BY <1>14, <3>2, <3>3
  <2> QED
    BY <1>14, <2>1 DEF AddHandler, RmHandler, TypeOK
<1>15. ASSUME NEW u \in Users, PollBegin(u) \/ PollEnd(u)
       PROVE  TypeOK'
  BY <1>15, EmptySeq DEF PollBegin, PollEnd, TypeOK
<1>16. AckEnd \/ CleanupBegin \/ CleanupJoin \/ CleanupEnd => TypeOK'
  BY EmptySeq DEF AckEnd, CleanupBegin, CleanupJoin, CleanupEnd, TypeOK
<1>17. Crashed \/ UNCHANGED vars => TypeOK'
  BY DEF Crashed, TypeOK
<1> QED
  BY <1>1, <1>5, <1>6, <1>7, <1>8, <1>9, <1>10, <1>11, <1>12, <1>13, <1>14, <1>15, <1>16, <1>17,
     NextCases DEF CallAction, ListAction

-----------------------------------------------------------------------------
(* Threads and handlers.                                                   *)

\* Only the thread that acts changes what it is in.
LEMMA ActsPlace ==
    ASSUME TypeOK, NEW t \in Threads, NEW err, NEW e, Acts(t, e, err)
    PROVE  \A x \in Threads : x # t => at'[x] = at[x]
  BY DEF Acts, Completes, Handles, TypeOK

\* When a thread begins to act, the others are in no callback.
LEMMA OthersIdle ==
    ASSUME TypeOK, OneAtATime
    PROVE  /\ ~polling => \A x \in Threads : x # "uv" => at[x] = Idle
           /\ \A u \in Users : evLock = u => polling /\ \A x \in Threads : x # u => at[x] = Idle
  BY ClientAssumption DEF OneAtATime, Threads, TypeOK

\* No step puts a second thread to work.
LEMMA OneAtATimeStep ==
    ASSUME TypeOK, UniqueIds, OneAtATime, [Next]_vars
    PROVE  OneAtATime'
<1> USE DEF vars, callVars, transVars, deliverVars
<1> DEFINE Same == UNCHANGED <<polling, at, evLock, pending>>
<1>1. Same => OneAtATime'
  BY DEF OneAtATime
<1>2. ASSUME NEW e, NEW err, Learns(e, err), UNCHANGED <<polling, evLock>>
      PROVE  OneAtATime'
  <2>1. CASE polling /\ UNCHANGED at
    BY <1>2, <2>1 DEF OneAtATime
  <2>2. CASE ~polling /\ Acts("uv", e, err) /\ UNCHANGED pending
    <3>1. \A u \in Users : at'[u] = at[u] /\ at[u] = Idle
      BY <2>2, ActsPlace, OthersIdle, ClientAssumption DEF Threads
    <3> QED
      BY <1>2, <2>2, <3>1 DEF OneAtATime
  <2> QED
    BY <1>2, <2>1, <2>2 DEF Learns
<1>3. ASSUME NEW m \in Msgs, AckTold(m)
      PROVE  OneAtATime'
  BY <1>2, <1>3, AckLearns DEF AckTold
<1>4. ASSUME NEW r \in Reqs, AnswerTold(r)
      PROVE  OneAtATime'
  BY <1>2, <1>4, AnswerLearns DEF AnswerTold
<1>5. NetworkEvent => OneAtATime'
  BY <1>2, NetworkEventLearns DEF NetworkEvent
<1>6. ASSUME NEW u \in Users, PollNext(u)
      PROVE  OneAtATime'
  <2>1. Acts(u, Head(pending), TRUE) /\ u \in Threads /\ "uv" \in Threads
    BY <1>6, PollNextActs DEF Threads
  <2>2. \A x \in Threads : x # u => at'[x] = at[x] /\ at[x] = Idle
    BY <1>6, <2>1, ActsPlace, OthersIdle DEF PollNext
  <2>3. polling /\ UNCHANGED <<polling, evLock>> /\ evLock = u
    BY <1>6, OthersIdle DEF PollNext
  <2>4. at'["uv"] = Idle
    BY <2>1, <2>2, ClientAssumption
  <2> QED
    BY <2>2, <2>3, <2>4 DEF OneAtATime, Threads
<1>7. ASSUME NEW t \in Threads, CallbackStep(t)
      PROVE  OneAtATime'
  <2>1. \A x \in Threads : at'[x] # Idle => at[x] # Idle
    <3>1. at[t] # Idle
      BY <1>7 DEF CallbackStep, CallbackEnd, HandlerEnd, PushEnd, InCallback
    <3>2. \A x \in Threads : x # t => at'[x] = at[x]
      BY <1>7 DEF CallbackStep, CallbackEnd, HandlerEnd, PushEnd, TypeOK
    <3> QED
      BY <3>1, <3>2
  <2>2. UNCHANGED <<polling, evLock, pending>>
    BY <1>7 DEF CallbackStep, CallbackEnd, HandlerEnd, PushEnd
  <2>3. "uv" \in Threads /\ Users \subseteq Threads
    BY DEF Threads
  <2> QED
    BY <2>1, <2>2, <2>3 DEF OneAtATime
<1>8. ASSUME NEW u \in Users, PollBegin(u) \/ PollEnd(u)
      PROVE  OneAtATime'
  <2>1. polling /\ UNCHANGED <<polling, at, pending>>
    BY <1>8, OthersIdle DEF PollBegin, PollEnd
  <2>2. \A x \in Users : at[x] = Idle
    BY <1>8, ClientAssumption DEF PollBegin, PollEnd, OneAtATime, Threads
  <2> QED
    BY <2>1, <2>2 DEF OneAtATime
<1>9. CallAction \/ ListAction => OneAtATime'
  BY <1>1, CallFrame, ListFrame
<1>10. (\E ms \in SUBSET inTrans : AckBegin(ms)) \/ AckEnd => OneAtATime'
  BY <1>1 DEF AckBegin, AckEnd
<1>11. CleanupBegin \/ CleanupJoin \/ CleanupEnd \/ Crashed \/ UNCHANGED vars => OneAtATime'
  BY <1>1 DEF CleanupBegin, CleanupJoin, CleanupEnd, Crashed
<1> QED
  BY <1>3, <1>4, <1>5, <1>6, <1>7, <1>8, <1>9, <1>10, <1>11, NextCases

\* Handlers that are in no hand may be changed as long as none is there twice.
LEMMA HandlersFree ==
    ASSUME \A t \in Threads : at'[t].k # "event",
           \A i, j \in DOMAIN handlers' : handlers'[i] = handlers'[j] => i = j
    PROVE  HandlersInOrder'
  BY DEF HandlersInOrder

\* A delivery starts at the first handler,
LEMMA HandlersActs ==
    ASSUME TypeOK, HandlersInOrder, NEW t \in Threads, NEW e, NEW err, Acts(t, e, err),
           \A x \in Threads : x # t => at[x] = Idle,
           UNCHANGED handlers
    PROVE  HandlersInOrder'
<1>1. /\ \A x \in Threads : x # t => at'[x].k = "idle"
      /\ handlers \in Seq(Handlers) /\ DOMAIN handlers = 1..Len(handlers)
      /\ Len(handlers) \in Nat
      /\ \A i, j \in DOMAIN handlers : handlers[i] = handlers[j] => i = j
  BY ActsPlace, LenProperties DEF Idle, TypeOK, HandlersInOrder
<1>2. CASE UNCHANGED <<at, called>>
  BY <1>2 DEF HandlersInOrder
<1>3. CASE e.k = "done" /\ Completes(t, e.m, err)
  <2>1. at'[t].k = "msg"
    BY <1>3 DEF Completes, TypeOK
  <2> QED
    BY <1>1, <2>1, HandlersFree
<1>4. CASE Handles(t)
  <2>1. CASE at'[t].k = "push"
    BY <1>1, <2>1, HandlersFree
  <2>2. CASE at'[t].k # "push"
    <3>1. handlers # <<>> /\ at'[t].h = Head(handlers) /\ called' = {Head(handlers)}
      BY <1>4, <2>2 DEF Handles, TypeOK
    <3>2. 1 \in DOMAIN handlers /\ Head(handlers) = handlers[1]
      BY <1>1, <3>1, EmptySeq
    <3>3. \A j \in 1..1 : handlers[j] \in called'
      BY <3>1, <3>2
    <3> QED
      BY <1>1, <3>1, <3>2, <3>3 DEF HandlersInOrder
  <2> QED
    BY <2>1, <2>2
<1> QED
  BY <1>2, <1>3, <1>4 DEF Acts

\* The list changes: the handler in hand stays, behind those that were called.
LEMMA HandlersChange ==
    ASSUME TypeOK, OneAtATime, HandlersInOrder, ListAction
    PROVE  HandlersInOrder'
<1>1. /\ handlers \in Seq(Handlers) /\ DOMAIN handlers = 1..Len(handlers)
      /\ Len(handlers) \in Nat
      /\ UNCHANGED <<at, called>>
  BY LenProperties, ListFrame DEF TypeOK, deliverVars
<1>2. ASSUME NEW h \in Handlers, NEW t \in Threads \cup {"own"}, AddHandler(h, t)
      PROVE  HandlersInOrder'
  <2>1. /\ DOMAIN handlers' = 1..(Len(handlers) + 1)
        /\ \A i \in 1..Len(handlers) : handlers'[i] = handlers[i]
        /\ handlers'[Len(handlers) + 1] = h
    <3>1. handlers' = Append(handlers, h) /\ handlers' \in Seq(Handlers)
      BY <1>1, <1>2, AppendProperties DEF AddHandler
    <3> QED
      BY <1>1, <3>1, AppendProperties, LenProperties
  <2>2. \A i \in DOMAIN handlers : handlers[i] # h
    BY <1>2 DEF AddHandler
  <2>3. \A i, j \in DOMAIN handlers' : handlers'[i] = handlers'[j] => i = j
    BY <1>1, <2>1, <2>2 DEF HandlersInOrder
  <2>4. ASSUME NEW x \in Threads, at'[x].k = "event"
        PROVE  \E i \in DOMAIN handlers' :
                 handlers'[i] = at'[x].h /\ \A j \in 1..i : handlers'[j] \in called'
    <3>1. PICK i \in DOMAIN handlers :
            handlers[i] = at[x].h /\ \A j \in 1..i : handlers[j] \in called
      BY <1>1, <2>4 DEF HandlersInOrder
    <3>2. i \in DOMAIN handlers' /\ \A j \in 1..i : handlers'[j] = handlers[j]
      BY <1>1, <2>1
    <3>3. handlers'[i] = handlers[i]
      BY <1>1, <2>1
    <3> QED
      BY <1>1, <3>1, <3>2, <3>3
  <2> QED
    BY <2>3, <2>4 DEF HandlersInOrder
<1>3. ASSUME NEW h \in Handlers, NEW t \in Threads \cup {"own"}, RmHandler(h, t)
      PROVE  HandlersInOrder'
  <2>1. PICK k \in DOMAIN handlers : handlers[k] = h /\ handlers' = RemoveAt(handlers, k)
    BY <1>3 DEF RmHandler
  <2>2. /\ DOMAIN handlers' = 1..(Len(handlers) - 1)
        /\ \A j \in 1..(Len(handlers) - 1) :
             handlers'[j] = IF j < k THEN handlers[j] ELSE handlers[j + 1]
    BY <1>1, <2>1, RemoveAtProperties
  <2>3. \A i, j \in DOMAIN handlers' : handlers'[i] = handlers'[j] => i = j
    <3>1. \A i \in DOMAIN handlers' : i \in DOMAIN handlers /\ i + 1 \in DOMAIN handlers
      BY <1>1, <2>2
    <3> QED
      BY <1>1, <2>1, <2>2, <3>1 DEF HandlersInOrder
  <2>4. ASSUME NEW x \in Threads, at'[x].k = "event"
        PROVE  \E i \in DOMAIN handlers' :
                 handlers'[i] = at'[x].h /\ \A j \in 1..i : handlers'[j] \in called'
    <3>1. PICK i \in DOMAIN handlers :
            handlers[i] = at[x].h /\ \A j \in 1..i : handlers[j] \in called
      BY <1>1, <2>4 DEF HandlersInOrder
    <3>2. at[x].h # h
      <4>1. t = x
        BY <1>1, <1>3, <2>4 DEF RmHandler, HandlerMutex, Idle
      <4> QED
        BY <1>1, <1>3, <4>1, ClientAssumption DEF RmHandler
    <3>3. i # k
      BY <2>1, <3>1, <3>2
    <3>4. CASE i < k
      <4>1. /\ i \in DOMAIN handlers' /\ handlers'[i] = handlers[i]
            /\ \A j \in 1..i : handlers'[j] = handlers[j]
        BY <1>1, <2>1, <2>2, <3>4
      <4> QED
        BY <1>1, <3>1, <4>1
    <3>5. CASE i > k
      <4>1. i - 1 \in DOMAIN handlers' /\ handlers'[i - 1] = handlers[i]
        BY <1>1, <2>1, <2>2, <3>5
      <4>2. ASSUME NEW j \in 1..(i - 1)
            PROVE  handlers'[j] \in called'
        BY <1>1, <2>1, <2>2, <3>1, <3>5
      <4> QED
        BY <1>1, <3>1, <4>1, <4>2
    <3> QED
      BY <1>1, <2>1, <3>3, <3>4, <3>5
  <2> QED
    BY <2>3, <2>4 DEF HandlersInOrder
<1> QED
  BY <1>2, <1>3 DEF ListAction

\* and every step keeps to the order of the handlers.
LEMMA HandlersStep ==
    ASSUME TypeOK, UniqueIds, OneAtATime, HandlersInOrder, CleanupStage, [Next]_vars
    PROVE  HandlersInOrder'
<1> USE DEF vars, callVars, transVars, deliverVars
<1> DEFINE Same == UNCHANGED <<at, called, handlers>>
<1>1. Same => HandlersInOrder'
  BY DEF HandlersInOrder
<1>2. ASSUME NEW e, NEW err, Learns(e, err), UNCHANGED handlers
      PROVE  HandlersInOrder'
  <2>1. "uv" \in Threads
    BY DEF Threads
  <2> QED
    BY <1>1, <1>2, <2>1, OthersIdle, HandlersActs DEF Learns
<1>3. ASSUME NEW m \in Msgs, AckTold(m)
      PROVE  HandlersInOrder'
  BY <1>2, <1>3, AckLearns DEF AckTold
<1>4. ASSUME NEW r \in Reqs, AnswerTold(r)
      PROVE  HandlersInOrder'
  BY <1>2, <1>4, AnswerLearns DEF AnswerTold
<1>5. NetworkEvent => HandlersInOrder'
  BY <1>2, NetworkEventLearns DEF NetworkEvent
<1>6. ASSUME NEW u \in Users, PollNext(u)
      PROVE  HandlersInOrder'
  <2>1. Acts(u, Head(pending), TRUE) /\ u \in Threads
    BY <1>6, PollNextActs DEF Threads
  <2>2. evLock = u /\ UNCHANGED handlers
    BY <1>6 DEF PollNext
  <2> QED
    BY <2>1, <2>2, OthersIdle, HandlersActs
<1>7. ASSUME NEW t \in Threads, CallbackStep(t)
      PROVE  HandlersInOrder'
  <2>1. \A x \in Threads : x # t => at[x] = Idle
    BY <1>7, OneCallback DEF CallbackStep, CallbackEnd, HandlerEnd, PushEnd, InCallback
  <2>2. CASE CallbackEnd(t) \/ PushEnd(t)
    <3>1. \A x \in Threads : at'[x] = Idle
      BY <2>1, <2>2 DEF CallbackEnd, PushEnd, TypeOK
    <3> QED
      BY <2>2, <3>1 DEF CallbackEnd, PushEnd, HandlersInOrder, Idle
  <2>3. CASE HandlerEnd(t)
    <3>1. PICK i \in DOMAIN handlers :
             /\ \A j \in 1..i : handlers[j] \in called
             /\ \/ at' = [at EXCEPT ![t] = Idle]
                \/ /\ i + 1 \in DOMAIN handlers
                   /\ at' = [at EXCEPT ![t] = [k |-> "event", h |-> handlers[i + 1]]]
                   /\ called' = called \cup {handlers[i + 1]}
      BY <2>3, HandlerEndNext
    <3>2. UNCHANGED handlers
      BY <2>3 DEF HandlerEnd
    <3>3. CASE at' = [at EXCEPT ![t] = Idle]
      <4>1. \A x \in Threads : at'[x] = Idle
        BY <2>1, <3>3 DEF TypeOK
      <4> QED
        BY <3>2, <4>1 DEF HandlersInOrder, Idle
    <3>4. CASE /\ i + 1 \in DOMAIN handlers
               /\ at' = [at EXCEPT ![t] = [k |-> "event", h |-> handlers[i + 1]]]
               /\ called' = called \cup {handlers[i + 1]}
      <4>1. \A x \in Threads : at'[x].k = "event" => x = t
        BY <2>1, <3>4 DEF TypeOK, Idle
      <4>2. at'[t].h = handlers[i + 1]
        BY <3>4 DEF TypeOK
      <4>3. i \in Nat
        BY LenProperties DEF TypeOK
      <4>4. \A j \in 1..(i + 1) : handlers[j] \in called'
        BY <3>1, <3>4, <4>3
      <4> QED
        BY <3>2, <3>4, <4>1, <4>2, <4>4 DEF HandlersInOrder
    <3> QED
      BY <3>1, <3>3, <3>4
  <2> QED
    BY <1>7, <2>2, <2>3 DEF CallbackStep
<1>8. ASSUME NEW u \in Users, PollBegin(u)
      PROVE  HandlersInOrder'
  BY <1>1, <1>8 DEF PollBegin
<1>9. ASSUME NEW u \in Users, PollEnd(u)
      PROVE  HandlersInOrder'
  <2>1. \A x \in Threads : at[x] = Idle
    BY <1>9, OthersIdle DEF PollEnd
  <2>2. \A x \in Threads : at'[x].k # "event"
    BY <1>9, <2>1 DEF PollEnd, Idle
  <2>3. handlers' \in {handlers, <<>>}
    BY <1>9 DEF PollEnd
  <2> QED
    BY <2>2, <2>3, HandlersFree DEF HandlersInOrder
<1>10. CleanupEnd => HandlersInOrder'
  <2>1. CleanupEnd => \A x \in Threads : at'[x].k # "event"
    BY OthersIdle DEF CleanupEnd, CleanupStage, Idle, Threads
  <2>2. CleanupEnd => handlers' = <<>>
    BY DEF CleanupEnd
  <2> QED
    BY <2>1, <2>2, HandlersFree
<1>11. CallAction => HandlersInOrder'
  BY <1>1, CallFrame
<1>12. ListAction => HandlersInOrder'
  BY HandlersChange
<1>13. (\E ms \in SUBSET inTrans : AckBegin(ms)) \/ AckEnd => HandlersInOrder'
  BY <1>1 DEF AckBegin, AckEnd
<1>14. CleanupBegin \/ CleanupJoin \/ Crashed \/ UNCHANGED vars => HandlersInOrder'
  BY <1>1 DEF CleanupBegin, CleanupJoin, Crashed
<1> QED
  BY <1>3, <1>4, <1>5, <1>6, <1>7, <1>8, <1>9, <1>10, <1>11, <1>12, <1>13, <1>14, NextCases

-----------------------------------------------------------------------------
(* Cleanup.                                                                *)

\* The user who cleans up is in no call.
LEMMA CallLive ==
    ASSUME TypeOK, CallStage, CleanupStage, CallAction
    PROVE  phase = "live"
<1> SUFFICES ASSUME phase # "live"
             PROVE  FALSE
  OBVIOUS
<1>1. phase # "crashed" => \A m \in Msgs : call[m] \in {"new", "sent", "rejected"}
  BY DEF CleanupStage
<1>2. PICK m \in Msgs : CallStep(m)
  BY DEF CallAction, CallRejected, Request, Notify, Caller
<1>3. phase # "crashed" /\ call[m] \in {"linking", "open", "refused"}
  BY <1>2, ClientAssumption DEF CallStep, LinkNotify, SendTaken, SendRefused, TakeBack, CallStage
<1> QED
  BY <1>1, <1>3

\* Every step keeps what pc_client_cleanup has achieved.
LEMMA CleanupStep ==
    ASSUME TypeOK, UniqueIds, OneAtATime, CallStage, CleanupStage, [Next]_vars
    PROVE  CleanupStage'
<1> USE DEF vars, callVars, transVars, deliverVars
<1>1. CallAction => CleanupStage'
  BY CallLive, CallFrame DEF CleanupStage
<1>2. ListAction => CleanupStage'
  BY ListFrame DEF CleanupStage
<1>3. (\E m \in Msgs : AckTold(m)) \/ (\E r \in Reqs : AnswerTold(r)) \/ NetworkEvent => CleanupStage'
  BY DEF AckTold, AnswerTold, NetworkEvent, UvFree, CleanupStage
<1>4. ASSUME NEW u \in Users, PollNext(u)
      PROVE  CleanupStage'
  <2>1. u # "free" /\ u # "uv" /\ u \in Threads /\ "uv" \in Threads
    BY ClientAssumption DEF Threads
  <2>2. at'["uv"] = at["uv"]
    BY <1>4, <2>1, PollNextActs, ActsPlace
  <2>3. phase \notin {"closing", "done"}
    BY <1>4, <2>1 DEF PollNext, CleanupStage
  <2> QED
    BY <1>4, <2>2, <2>3 DEF PollNext, CleanupStage
<1>5. ASSUME NEW t \in Threads, CallbackStep(t)
      PROVE  CleanupStage'
  <2>1. at["uv"] = Idle => at'["uv"] = Idle
    BY <1>5 DEF CallbackStep, CallbackEnd, HandlerEnd, PushEnd, InCallback, TypeOK, Threads
  <2> QED
    BY <1>5, <2>1 DEF CallbackStep, CallbackEnd, HandlerEnd, PushEnd, CleanupStage
<1>6. ASSUME NEW u \in Users, PollBegin(u) \/ PollEnd(u)
      PROVE  CleanupStage'
  BY <1>6 DEF PollBegin, PollEnd, CleanupStage
<1>7. (\E ms \in SUBSET inTrans : AckBegin(ms)) \/ AckEnd => CleanupStage'
  BY DEF AckBegin, AckEnd, UvFree, CleanupStage
<1>8. CleanupBegin \/ CleanupJoin => CleanupStage'
  BY DEF CleanupBegin, CleanupJoin, UvFree, CleanupStage
<1>9. CleanupEnd => CleanupStage'
  BY DEF CleanupEnd, CleanupStage, OneAtATime
<1>10. Crashed \/ UNCHANGED vars => CleanupStage'
  BY DEF Crashed, CleanupStage
<1> QED
  BY <1>1, <1>2, <1>3, <1>4, <1>5, <1>6, <1>7, <1>8, <1>9, <1>10, NextCases

-----------------------------------------------------------------------------
(* Where the messages are.                                                 *)

\* What t acts on goes from its list into the hand of t.
LEMMA ActsMoves ==
    ASSUME TypeOK, NEW t \in Threads, at[t] = Idle, NEW e \in Event, NEW err,
           Acts(t, e, err)
    PROVE  /\ listed' = listed \ Subject(e)
           /\ InHand' = InHand \cup (listed \cap Subject(e))
           /\ outcome' = [m \in Msgs |-> IF m \in listed \cap Subject(e) THEN Told(m, err)
                                         ELSE outcome[m]]
<1>1. \A x \in Threads : x # t => at'[x] = at[x]
  BY ActsPlace
<1>2. outcome \in [Msgs -> {"none", "success", "error", "silent"}] /\ listed \subseteq Msgs
  BY DEF TypeOK
<1>3. InHand' = {m \in Msgs : \E x \in Threads : at'[x].k = "msg" /\ at'[x].m = m}
  BY DEF InHand
<1>4. at[t].k = "idle"
  BY DEF Idle
<1>5. CASE (e.k = "done" => e.m \notin listed) /\ UNCHANGED <<listed, at, outcome>>
  <2>1. listed \cap Subject(e) = {}
    BY <1>5 DEF Subject
  <2> QED
    BY <1>2, <1>5, <2>1 DEF InHand
<1>6. CASE e.k = "done" /\ Completes(t, e.m, err)
  <2>1. e.m \in Msgs /\ Subject(e) = {e.m} /\ listed \cap Subject(e) = {e.m}
    BY <1>6 DEF Subject, Event, Completes
  <2>2. at'[t].k = "msg" /\ at'[t].m = e.m
    BY <1>6 DEF Completes, TypeOK
  <2>3. InHand' = InHand \cup {e.m}
    BY <1>1, <1>3, <1>4, <2>1, <2>2 DEF InHand
  <2> QED
    BY <1>2, <1>6, <2>1, <2>3 DEF Completes
<1>7. CASE e.k # "done" /\ Handles(t)
  <2>1. Subject(e) = {}
    BY <1>7 DEF Subject
  <2>2. at'[t].k # "msg"
    BY <1>7 DEF Handles, TypeOK
  <2>3. InHand' = InHand
    BY <1>1, <1>3, <1>4, <2>2 DEF InHand
  <2> QED
    BY <1>2, <1>7, <2>1, <2>3 DEF Handles
<1> QED
  BY <1>5, <1>6, <1>7 DEF Acts

\* What the uv thread learns is queued, or acted on at once.
LEMMA LearnsMoves ==
    ASSUME TypeOK, at["uv"] = Idle, NEW e \in Event, NEW err, Learns(e, err)
    PROVE  \/ /\ UNCHANGED <<listed, InHand, outcome>>
              /\ Awaiting' = Awaiting \cup Subject(e)
              /\ polling
           \/ /\ listed' = listed \ Subject(e)
              /\ InHand' = InHand \cup (listed \cap Subject(e))
              /\ outcome' = [m \in Msgs |-> IF m \in listed \cap Subject(e) THEN Told(m, err)
                                            ELSE outcome[m]]
              /\ UNCHANGED Awaiting
              /\ ~polling
<1>1. CASE polling /\ pending' = Append(pending, e) /\ UNCHANGED deliverVars
  BY <1>1, AwaitingQueued DEF deliverVars, InHand
<1>2. CASE ~polling /\ Acts("uv", e, err) /\ UNCHANGED pending
  BY <1>2, ActsMoves DEF Threads, Awaiting
<1> QED
  BY <1>1, <1>2 DEF Learns

\* A callback that ends is the only one.
LEMMA CallbackMoves ==
    ASSUME TypeOK, OneAtATime, NEW t \in Threads, CallbackStep(t)
    PROVE  /\ CallbackEnd(t) => at[t].m \in InHand /\ InHand' = InHand \ {at[t].m}
           /\ ~CallbackEnd(t) => InHand' = InHand
<1>1. \A x \in Threads : x # t => at[x].k = "idle" /\ at'[x] = at[x]
  BY OneCallback DEF CallbackStep, CallbackEnd, HandlerEnd, PushEnd, InCallback, Idle, TypeOK
<1>2. InHand' = {m \in Msgs : \E x \in Threads : at'[x].k = "msg" /\ at'[x].m = m}
  BY DEF InHand
<1>3. ASSUME CallbackEnd(t)
      PROVE  at[t].m \in InHand /\ InHand' = InHand \ {at[t].m}
  <2>1. at[t].k = "msg" /\ at'[t].k = "idle"
    BY <1>3 DEF CallbackEnd, Idle, TypeOK
  <2>2. at[t].m \in Msgs
    <3>1. at[t] \in Places
      BY DEF TypeOK
    <3> QED
      BY <2>1, <3>1 DEF Places, Idle
  <2> QED
    BY <1>1, <1>2, <2>1, <2>2 DEF InHand
<1>4. ASSUME ~CallbackEnd(t)
      PROVE  InHand' = InHand
  <2>1. at[t].k # "msg" /\ at'[t].k # "msg"
    BY <1>4 DEF CallbackStep, HandlerEnd, PushEnd, Idle, TypeOK
  <2> QED
    BY <1>1, <1>2, <2>1 DEF InHand
<1> QED
  BY <1>3, <1>4

\* Every step keeps a call where its stage says it is.
LEMMA CallStageStep ==
    ASSUME TypeOK, UniqueIds, OneAtATime, CallStage, [Next]_vars
    PROVE  CallStage'
<1> USE DEF vars, callVars, transVars, deliverVars
<1> DEFINE CallSame == UNCHANGED <<call, slot, linking>>
           FarSame == UNCHANGED <<inTrans, acks, Awaiting, InHand, listed, outcome>>
<1>1. Reqs \subseteq Msgs /\ Notifies \subseteq Msgs /\ Reqs \cap Notifies = {}
  BY ClientAssumption DEF Msgs
<1>2. \A e : Subject(e) \subseteq Msgs
  BY DEF Subject
<1>3. ASSUME NEW m \in Msgs, NEW t, CallRejected(m, t)
      PROVE  CallStage'
  <2>1. UNCHANGED <<inTrans, acks, Awaiting, InHand, listed, outcome, slot, linking>>
    BY <1>3 DEF CallRejected, Awaiting, InHand
  <2>2. call[m] = "new" /\ call' = [call EXCEPT ![m] = "rejected"]
    BY <1>3 DEF CallRejected, Caller
  <2> QED
    BY <1>1, <2>1, <2>2 DEF CallStage, TypeOK
<1>4. ASSUME NEW m \in Msgs, TakeSlot(m)
      PROVE  \A o \in Msgs \ {m} : slot'[o] = slot[o]
  BY <1>4 DEF TakeSlot, TypeOK
<1>5. ASSUME NEW r \in Reqs, NEW t, Request(r, t)
      PROVE  CallStage'
  <2>1. UNCHANGED <<inTrans, acks, Awaiting, InHand, outcome, linking>>
    BY <1>5 DEF Request, Awaiting, InHand
  <2>2. /\ call[r] = "new" /\ call' = [call EXCEPT ![r] = "open"]
        /\ listed' = listed \cup {r}
        /\ linking = "none"
        /\ \A o \in Msgs \ {r} : slot'[o] = slot[o]
    BY <1>1, <1>4, <1>5 DEF Request, Caller
  <2> QED
    BY <1>1, <2>1, <2>2 DEF CallStage, TypeOK
<1>6. ASSUME NEW n \in Notifies, NEW t, Notify(n, t)
      PROVE  CallStage'
  <2>1. UNCHANGED <<inTrans, acks, Awaiting, InHand, outcome, listed>>
    BY <1>6 DEF Notify, Awaiting, InHand
  <2>2. /\ call[n] = "new" /\ call' = [call EXCEPT ![n] = "linking"]
        /\ linking' = n
        /\ \A o \in Msgs \ {n} : slot'[o] = slot[o]
    BY <1>1, <1>4, <1>6 DEF Notify, Caller
  <2> QED
    BY <1>1, <2>1, <2>2 DEF CallStage, TypeOK
<1>7. ASSUME NEW m \in Msgs, CallStep(m)
      PROVE  CallStage'
  <2>1. UNCHANGED <<acks, Awaiting, InHand, outcome, slot>>
    BY <1>7 DEF CallStep, LinkNotify, SendTaken, SendRefused, TakeBack, Awaiting, InHand
  <2>2. CASE m \in Notifies /\ LinkNotify(m)
    <3>1. /\ call[m] = "linking" /\ call' = [call EXCEPT ![m] = "open"]
          /\ linking' = "none" /\ listed' \in {listed, listed \cup {m}}
          /\ UNCHANGED inTrans
      BY <1>1, <2>2, ClientAssumption DEF LinkNotify, CallStage
    <3> QED
      BY <1>1, <2>1, <2>2, <3>1 DEF CallStage, TypeOK
  <2>3. CASE SendTaken(m)
    <3>1. /\ call[m] = "open" /\ call' = [call EXCEPT ![m] = "sent"]
          /\ inTrans' = inTrans \cup {m} /\ UNCHANGED <<listed, linking>>
      BY <2>3 DEF SendTaken
    <3> QED
      BY <1>1, <2>1, <3>1 DEF CallStage, TypeOK
  <2>4. CASE SendRefused(m)
    <3>1. /\ call[m] = "open" /\ call' = [call EXCEPT ![m] = "refused"]
          /\ UNCHANGED <<inTrans, listed, linking>>
      BY <2>4 DEF SendRefused
    <3> QED
      BY <1>1, <2>1, <3>1 DEF CallStage, TypeOK
  <2>5. CASE TakeBack(m)
    <3>1. /\ call[m] = "refused" /\ call' = [call EXCEPT ![m] = "rejected"]
          /\ listed' = listed \ {m} /\ UNCHANGED <<inTrans, linking>>
      BY <2>5 DEF TakeBack
    <3> QED
      BY <1>1, <2>1, <3>1 DEF CallStage, TypeOK
  <2> QED
    BY <1>7, <2>2, <2>3, <2>4, <2>5 DEF CallStep
<1>8. ASSUME CallSame, listed' \subseteq listed,
             InHand' \subseteq InHand \cup (listed \ listed'),
             \A m \in listed \ listed' : call[m] = "sent",
             \A m \in inTrans' \cup acks' \cup Awaiting' : call[m] = "sent",
             \A m \in Msgs : outcome'[m] # outcome[m] => m \in listed \ listed'
      PROVE  CallStage'
  <2>1. \A m \in InHand' : call[m] = "sent"
    BY <1>8 DEF CallStage
  <2>2. InHand' \cap listed' = {}
    BY <1>8 DEF CallStage
  <2>3. \A r \in Reqs : call[r] \in {"open", "refused"} => r \in listed'
    BY <1>8 DEF CallStage
  <2>4. \A m \in Msgs : outcome'[m] # "none" => call[m] = "sent"
    BY <1>8 DEF CallStage
  <2> QED
    BY <1>8, <2>1, <2>2, <2>3, <2>4 DEF CallStage
<1>9. ASSUME NEW e \in Event, NEW err, Learns(e, err), at["uv"] = Idle, CallSame,
             \A m \in Subject(e) : call[m] = "sent",
             inTrans' \subseteq inTrans, acks' \subseteq acks
      PROVE  CallStage'
  <2>1. /\ listed' \subseteq listed /\ listed \ listed' \subseteq Subject(e)
        /\ InHand' \subseteq InHand \cup (listed \ listed')
        /\ Awaiting' \subseteq Awaiting \cup Subject(e)
        /\ \A m \in Msgs : outcome'[m] # outcome[m] => m \in listed \ listed'
    BY <1>9, LearnsMoves
  <2> QED
    BY <1>8, <1>9, <2>1 DEF CallStage
<1>10. ASSUME NEW m \in Msgs, AckTold(m)
       PROVE  CallStage'
  <2>1. [k |-> "done", m |-> m] \in Event /\ Subject([k |-> "done", m |-> m]) = {m}
    BY DEF Event, Subject
  <2>2. call[m] = "sent"
    BY <1>10 DEF AckTold, CallStage
  <2> QED
    BY <1>9, <1>10, <2>1, <2>2, AckLearns DEF AckTold, UvFree
<1>11. ASSUME NEW r \in Reqs, AnswerTold(r)
       PROVE  CallStage'
  <2>1. [k |-> "done", m |-> r] \in Event /\ Subject([k |-> "done", m |-> r]) = {r}
    BY <1>1 DEF Event, Subject
  <2> QED
    BY <1>9, <1>11, <2>1, AnswerLearns DEF AnswerTold, UvFree
<1>12. ASSUME NetworkEvent
       PROVE  CallStage'
  <2>1. \A kind \in {"event", "push"} : [k |-> kind] \in Event /\ Subject([k |-> kind]) = {}
    BY DEF Event, Subject
  <2> QED
    BY <1>9, <1>12, <2>1, NetworkEventLearns DEF NetworkEvent, UvFree
<1>13. ASSUME NEW u \in Users, PollNext(u)
       PROVE  CallStage'
  <2> DEFINE e == Head(pending)
  <2>1. e \in Event /\ Awaiting = Awaiting' \cup Subject(e)
    BY <1>13, AwaitingTaken DEF PollNext
  <2>2. Acts(u, e, TRUE) /\ u \in Threads /\ at[u] = Idle
    BY <1>13, PollNextActs DEF PollNext, Threads
  <2>3. /\ listed' \subseteq listed /\ listed \ listed' \subseteq Subject(e)
        /\ InHand' \subseteq InHand \cup (listed \ listed')
        /\ \A m \in Msgs : outcome'[m] # outcome[m] => m \in listed \ listed'
    BY <2>1, <2>2, ActsMoves
  <2>4. CallSame /\ UNCHANGED <<inTrans, acks>>
    BY <1>13 DEF PollNext
  <2> HIDE DEF e
  <2> QED
    BY <1>8, <2>1, <2>3, <2>4 DEF CallStage
<1>14. ASSUME NEW t \in Threads, CallbackStep(t)
       PROVE  CallStage'
  <2>1. InHand' \subseteq InHand
    BY <1>14, CallbackMoves
  <2>2. CallSame /\ UNCHANGED <<listed, outcome, inTrans, acks, Awaiting>>
    BY <1>14 DEF CallbackStep, CallbackEnd, HandlerEnd, PushEnd, Awaiting
  <2> QED
    BY <1>8, <2>1, <2>2 DEF CallStage
<1>15. CallSame /\ FarSame => CallStage'
  BY DEF CallStage
<1>16. ASSUME NEW ms \in SUBSET inTrans, AckBegin(ms)
       PROVE  CallStage'
  <2>1. CallSame /\ UNCHANGED <<listed, outcome, Awaiting, InHand>>
    BY <1>16 DEF AckBegin, Awaiting, InHand
  <2> QED
    BY <1>8, <1>16, <2>1 DEF AckBegin, CallStage
<1>17. ListAction => CallStage'
  BY <1>15, ListFrame DEF Awaiting, InHand
<1>18. ASSUME NEW u \in Users, PollBegin(u) \/ PollEnd(u)
       PROVE  CallStage'
  BY <1>15, <1>18 DEF PollBegin, PollEnd, Awaiting, InHand
<1>19. AckEnd \/ CleanupBegin \/ CleanupJoin \/ CleanupEnd \/ Crashed \/ UNCHANGED vars
        => CallStage'
  BY <1>15 DEF AckEnd, CleanupBegin, CleanupJoin, CleanupEnd, Crashed, Awaiting, InHand
<1>20. CallAction => CallStage'
  BY <1>1, <1>3, <1>5, <1>6, <1>7 DEF CallAction
<1> QED
  BY <1>10, <1>11, <1>12, <1>13, <1>14, <1>16, <1>17, <1>18, <1>19, <1>20, NextCases

-----------------------------------------------------------------------------
(* Deliveries: the actions that move messages out of the lists.            *)

\* The uv thread learns what has become of m, or of the connection; or a thread
\* that polls takes the next event.
Delivery ==
    \/ \E m \in Msgs : AckTold(m)
    \/ \E r \in Reqs : AnswerTold(r)
    \/ NetworkEvent
    \/ \E u \in Users : PollNext(u)

\* The messages whose completion a delivery may take away.
Gone == (inTrans \ inTrans') \cup (acks \ acks') \cup (Awaiting \ Awaiting')

\* What is completed leaves the list, unless it is queued; and it is told of an
\* error, unless the server has answered it without one.
LEMMA DeliveryMoves ==
    ASSUME TypeOK, UniqueIds, OneAtATime, CallStage, Delivery
    PROVE  /\ listed' \subseteq listed
           /\ InHand' = InHand \cup (listed \ listed')
           /\ inTrans' \subseteq inTrans /\ acks' \subseteq acks
           /\ answered \subseteq answered' /\ granted \subseteq granted'
           /\ \A m \in Awaiting' \ Awaiting : m \in Reqs => m \in Outstanding
           /\ \A m \in Gone : m \in Awaiting' \/ m \notin listed'
           /\ \A m \in Msgs : outcome'[m] = outcome[m] \/
                /\ outcome'[m] # "none"
                /\ outcome'[m] = "success" => m \in granted'
           /\ UNCHANGED <<polling, call, slot, busy, id>>
<1> USE DEF vars, callVars, transVars, deliverVars
<1> DEFINE Moves(ms) ==
             \/ /\ UNCHANGED <<listed, InHand, outcome>>
                /\ Awaiting' = Awaiting \cup ms
             \/ /\ listed' = listed \ ms
                /\ InHand' = InHand \cup (listed \cap ms)
                /\ UNCHANGED Awaiting
<1>1. Reqs \subseteq Msgs /\ Notifies \subseteq Msgs
  BY DEF Msgs
<1>2. ASSUME NEW m \in Msgs
      PROVE  /\ [k |-> "done", m |-> m] \in Event
             /\ Subject([k |-> "done", m |-> m]) = {m}
  BY DEF Event, Subject
<1>3. CASE \E m \in Msgs : AckTold(m)
  <2>1. PICK m \in Msgs : AckTold(m)
    BY <1>3
  <2>2. PICK err \in BOOLEAN : (m \in Reqs => err) /\ Learns([k |-> "done", m |-> m], err)
    BY <2>1, AckLearns
  <2>3. /\ Moves({m})
        /\ outcome' = outcome \/ outcome' = [o \in Msgs |-> IF o \in listed \cap {m}
                                                            THEN Told(o, err) ELSE outcome[o]]
    BY <1>2, <2>1, <2>2, LearnsMoves DEF AckTold, UvFree
  <2>4. Told(m, err) \notin {"success", "none"}
    BY <2>2 DEF Told
  <2>5. /\ acks' = acks \ {m} /\ m \in acks
        /\ UNCHANGED <<polling, call, slot, busy, id, inTrans, answered, granted>>
    BY <2>1 DEF AckTold
  <2> QED
    BY <2>3, <2>4, <2>5 DEF Gone, Outstanding
<1>4. CASE \E r \in Reqs : AnswerTold(r)
  <2>1. PICK r \in Reqs : AnswerTold(r)
    BY <1>4
  <2>2. PICK err \in BOOLEAN : /\ granted' = IF err THEN granted ELSE granted \cup {r}
                               /\ Learns([k |-> "done", m |-> r], err)
    BY <2>1, AnswerLearns
  <2>3. /\ Moves({r})
        /\ outcome' = outcome \/ outcome' = [o \in Msgs |-> IF o \in listed \cap {r}
                                                            THEN Told(o, err) ELSE outcome[o]]
    BY <1>1, <1>2, <2>1, <2>2, LearnsMoves DEF AnswerTold, UvFree
  <2>4. /\ inTrans' = inTrans \ {r} /\ call[r] = "sent" /\ r \notin answered
        /\ answered' = answered \cup {r}
        /\ UNCHANGED <<polling, call, slot, busy, id, acks>>
        /\ Told(r, err) # "none"
        /\ Told(r, err) = "success" => r \in granted'
        /\ granted \subseteq granted'
    BY <2>1, <2>2 DEF AnswerTold, Told
  <2> QED
    BY <1>1, <2>3, <2>4 DEF Gone, Outstanding
<1>5. CASE NetworkEvent
  <2>1. PICK kind \in {"event", "push"} : Learns([k |-> kind], FALSE)
    BY <1>5, NetworkEventLearns
  <2>2. [k |-> kind] \in Event /\ Subject([k |-> kind]) = {}
    BY DEF Event, Subject
  <2>3. /\ Moves({})
        /\ outcome' = outcome \/ outcome' = [o \in Msgs |-> IF o \in listed \cap {}
                                                            THEN Told(o, FALSE) ELSE outcome[o]]
    BY <1>5, <2>1, <2>2, LearnsMoves DEF NetworkEvent, UvFree
  <2>4. UNCHANGED <<polling, call, slot, busy, id, inTrans, acks, answered, granted>>
    BY <1>5 DEF NetworkEvent
  <2> QED
    BY <2>3, <2>4 DEF Gone
<1>6. CASE \E u \in Users : PollNext(u)
  <2>1. PICK u \in Users : PollNext(u)
    BY <1>6
  <2> DEFINE e == Head(pending)
  <2>2. e \in Event /\ Awaiting = Awaiting' \cup Subject(e)
    BY <2>1, AwaitingTaken DEF PollNext
  <2>3. Acts(u, e, TRUE) /\ u \in Threads /\ at[u] = Idle
    BY <2>1, PollNextActs DEF PollNext, Threads
  <2> HIDE DEF e
  <2>4. /\ listed' = listed \ Subject(e)
        /\ InHand' = InHand \cup (listed \cap Subject(e))
        /\ outcome' = [m \in Msgs |-> IF m \in listed \cap Subject(e) THEN Told(m, TRUE)
                                      ELSE outcome[m]]
    BY <2>2, <2>3, ActsMoves
  <2>5. \A m : Told(m, TRUE) \notin {"success", "none"}
    BY DEF Told
  <2>6. UNCHANGED <<polling, call, slot, busy, id, inTrans, acks, answered, granted>>
    BY <2>1 DEF PollNext
  <2> QED
    BY <2>2, <2>4, <2>5, <2>6 DEF Gone
<1> QED
  BY <1>3, <1>4, <1>5, <1>6 DEF Delivery

\* What is left of a step: it begins or ends something around the messages.
Around ==
    \/ ListAction
    \/ \E u \in Users : PollBegin(u) \/ PollEnd(u)
    \/ AckEnd \/ CleanupBegin \/ CleanupJoin \/ CleanupEnd \/ Crashed \/ UNCHANGED vars

\* What the steps around the calls leave alone.
LEMMA AroundFrame ==
    ASSUME Around
    PROVE  UNCHANGED <<polling, call, slot, busy, id, listed, at, InHand, outcome, Awaiting,
                       inTrans, acks, answered, granted>>
<1> USE DEF vars, callVars, transVars, deliverVars, Awaiting, InHand
<1>1. CASE ListAction
  BY <1>1, ListFrame
<1>2. CASE \E u \in Users : PollBegin(u) \/ PollEnd(u)
  BY <1>2 DEF PollBegin, PollEnd
<1>3. CASE AckEnd \/ CleanupBegin \/ CleanupJoin \/ CleanupEnd \/ Crashed \/ UNCHANGED vars
  BY <1>3 DEF AckEnd, CleanupBegin, CleanupJoin, CleanupEnd, Crashed
<1> QED
  BY <1>1, <1>2, <1>3 DEF Around

\* The steps of the client, by what they do to the calls.
LEMMA NextKinds ==
    ASSUME [Next]_vars
    PROVE  \/ CallAction \/ Delivery \/ Around
           \/ \E t \in Threads : CallbackStep(t)
           \/ \E ms \in SUBSET inTrans : AckBegin(ms)
  BY NextCases DEF Delivery, Around

-----------------------------------------------------------------------------
(* Request ids, and whose answer a callback is given.                      *)

\* Every step keeps the ids of open requests apart.
LEMMA UniqueIdsStep ==
    ASSUME TypeOK, UniqueIds, OneAtATime, CallStage, [Next]_vars
    PROVE  UniqueIds'
<1> USE DEF vars, callVars, transVars, deliverVars
<1>1. Reqs \subseteq Msgs /\ Notifies \subseteq Msgs /\ Reqs \cap Notifies = {}
  BY ClientAssumption DEF Msgs
<1>2. ASSUME UNCHANGED id, Reqs \cap Outstanding' \subseteq Outstanding
      PROVE  UniqueIds'
  BY <1>2 DEF UniqueIds
<1>3. ASSUME NEW r \in Reqs, NEW t, Request(r, t)
      PROVE  UniqueIds'
  <2>1. /\ \A q \in Reqs \cap Outstanding : id[q] # NextId
        /\ id' = [id EXCEPT ![r] = NextId]
        /\ call' = [call EXCEPT ![r] = "open"]
        /\ listed' = listed \cup {r}
        /\ UNCHANGED <<inTrans, acks, Awaiting, answered>>
    BY <1>3 DEF Request, Awaiting
  <2>2. Outstanding' \subseteq Outstanding \cup {r}
    BY <1>1, <2>1 DEF Outstanding, TypeOK
  <2>3. \A q \in Reqs : id'[q] = IF q = r THEN NextId ELSE id[q]
    BY <1>1, <2>1 DEF TypeOK
  <2> QED
    BY <2>1, <2>2, <2>3 DEF UniqueIds
<1>4. ASSUME NEW m \in Msgs, NEW t, CallRejected(m, t) \/ (m \in Notifies /\ Notify(m, t))
      PROVE  UniqueIds'
  <2>1. /\ UNCHANGED <<id, listed, inTrans, acks, Awaiting, answered>>
        /\ call' = [call EXCEPT ![m] = "rejected"] \/ call' = [call EXCEPT ![m] = "linking"]
    BY <1>4 DEF CallRejected, Notify, Awaiting
  <2>2. Outstanding' \subseteq Outstanding
    BY <2>1 DEF Outstanding, TypeOK
  <2> QED
    BY <1>2, <2>1, <2>2
<1>5. ASSUME NEW m \in Msgs, CallStep(m)
      PROVE  UniqueIds'
  <2>1. UNCHANGED <<id, acks, Awaiting, answered>>
    BY <1>5 DEF CallStep, LinkNotify, SendTaken, SendRefused, TakeBack, Awaiting
  <2>2. CASE m \in Notifies /\ LinkNotify(m)
    <3>1. Outstanding' \subseteq Outstanding \cup {m}
      BY <2>1, <2>2 DEF LinkNotify, Outstanding, TypeOK
    <3> QED
      BY <1>1, <1>2, <2>1, <2>2, <3>1
  <2>3. CASE SendTaken(m)
    <3>1. Outstanding' \subseteq Outstanding \cup {m}
      BY <2>1, <2>3 DEF SendTaken, Outstanding, TypeOK
    <3>2. m \in Reqs => m \in Outstanding
      BY <2>3 DEF SendTaken, CallStage, Outstanding
    <3> QED
      BY <1>2, <2>1, <3>1, <3>2
  <2>4. CASE SendRefused(m) \/ TakeBack(m)
    <3>1. Outstanding' \subseteq Outstanding
      BY <2>1, <2>4 DEF SendRefused, TakeBack, Outstanding, TypeOK
    <3> QED
      BY <1>2, <2>1, <3>1
  <2> QED
    BY <1>5, <2>2, <2>3, <2>4 DEF CallStep
<1>6. CallAction => UniqueIds'
  BY <1>1, <1>3, <1>4, <1>5 DEF CallAction
<1>7. Delivery => UniqueIds'
  <2>1. Delivery => UNCHANGED id /\ Reqs \cap Outstanding' \subseteq Outstanding
    BY DeliveryMoves DEF Outstanding
  <2> QED
    BY <1>2, <2>1
<1>8. ASSUME NEW t \in Threads, CallbackStep(t)
      PROVE  UniqueIds'
  <2>1. UNCHANGED <<id, listed, inTrans, acks, Awaiting, call, answered>>
    BY <1>8 DEF CallbackStep, CallbackEnd, HandlerEnd, PushEnd, Awaiting
  <2> QED
    BY <1>2, <2>1 DEF Outstanding
<1>9. ASSUME NEW ms \in SUBSET inTrans, AckBegin(ms)
      PROVE  UniqueIds'
  <2>1. /\ UNCHANGED <<id, listed, Awaiting, call, answered>>
        /\ inTrans' \subseteq inTrans /\ acks' \subseteq inTrans
    BY <1>9 DEF AckBegin, Awaiting
  <2> QED
    BY <1>2, <2>1 DEF Outstanding
<1>10. Around => UniqueIds'
  BY <1>2, AroundFrame DEF Outstanding
<1> QED
  BY <1>6, <1>7, <1>8, <1>9, <1>10, NextKinds

\* Every step keeps the answers with their requests.
LEMMA AnswersOwnStep ==
    ASSUME TypeOK, UniqueIds, OneAtATime, CallStage, AnswersOwn, [Next]_vars
    PROVE  AnswersOwn'
<1> USE DEF vars, callVars, transVars, deliverVars
<1>1. UNCHANGED at => AnswersOwn'
  BY DEF AnswersOwn
<1>2. ASSUME NEW t \in Threads, NEW e, NEW err, Acts(t, e, err)
      PROVE  AnswersOwn'
  <2>1. \A x \in Threads : x # t => at'[x] = at[x]
    BY <1>2, ActsPlace
  <2>2. at'[t] = at[t] \/ (at'[t].k = "msg" => at'[t].m = at'[t].source)
    BY <1>2 DEF Acts, Completes, Handles, TypeOK
  <2> QED
    BY <2>1, <2>2 DEF AnswersOwn
<1>3. ASSUME NEW e, NEW err, Learns(e, err)
      PROVE  AnswersOwn'
  BY <1>1, <1>2, <1>3 DEF Learns, Threads
<1>4. Delivery => AnswersOwn'
  BY <1>2, <1>3, AckLearns, AnswerLearns, NetworkEventLearns, PollNextActs
     DEF Delivery, Threads
<1>5. ASSUME NEW t \in Threads, CallbackStep(t)
      PROVE  AnswersOwn'
  <2>1. \A x \in Threads : x # t => at'[x] = at[x]
    BY <1>5 DEF CallbackStep, CallbackEnd, HandlerEnd, PushEnd, TypeOK
  <2>2. at'[t].k # "msg"
    BY <1>5 DEF CallbackStep, CallbackEnd, HandlerEnd, PushEnd, Idle, TypeOK
  <2> QED
    BY <2>1, <2>2 DEF AnswersOwn
<1>6. ASSUME NEW ms \in SUBSET inTrans, AckBegin(ms)
      PROVE  AnswersOwn'
  BY <1>1, <1>6 DEF AckBegin
<1> QED
  BY <1>1, <1>4, <1>5, <1>6, CallFrame, AroundFrame, NextKinds

\* No step reports a success the server has not answered with.
LEMMA SuccessAnsweredStep ==
    ASSUME TypeOK, UniqueIds, OneAtATime, CallStage, SuccessAnswered, [Next]_vars
    PROVE  SuccessAnswered'
<1> USE DEF vars, callVars, transVars, deliverVars
<1>1. UNCHANGED <<outcome, granted>> => SuccessAnswered'
  BY DEF SuccessAnswered
<1>2. Delivery => SuccessAnswered'
  BY DeliveryMoves DEF SuccessAnswered, Msgs
<1>3. ASSUME NEW t \in Threads, CallbackStep(t)
      PROVE  SuccessAnswered'
  BY <1>1, <1>3 DEF CallbackStep, CallbackEnd, HandlerEnd, PushEnd
<1>4. ASSUME NEW ms \in SUBSET inTrans, AckBegin(ms)
      PROVE  SuccessAnswered'
  BY <1>1, <1>4 DEF AckBegin
<1> QED
  BY <1>1, <1>2, <1>3, <1>4, CallFrame, AroundFrame, NextKinds

\* No step loses an answer.
LEMMA NoAnswerLostStep ==
    ASSUME TypeOK, UniqueIds, OneAtATime, CallStage, CleanupStage, NoAnswerLost, [Next]_vars
    PROVE  NoAnswerLost'
<1> USE DEF vars, callVars, transVars, deliverVars
<1>1. Reqs \subseteq Msgs /\ Notifies \subseteq Msgs
  BY DEF Msgs
<1>2. ASSUME UNCHANGED <<acks, Awaiting>>, inTrans \subseteq inTrans',
             \A m \in listed' : call'[m] = "sent" =>
               m \in inTrans' \/ (m \in listed /\ call[m] = "sent")
      PROVE  NoAnswerLost'
  BY <1>2 DEF NoAnswerLost
<1>3. ASSUME NEW m \in Msgs, NEW t,
             CallRejected(m, t) \/ (m \in Reqs /\ Request(m, t)) \/ (m \in Notifies /\ Notify(m, t))
      PROVE  NoAnswerLost'
  <2>1. /\ UNCHANGED <<inTrans, acks, Awaiting>>
        /\ listed' \subseteq listed \cup {m}
        /\ \E c \in {"rejected", "open", "linking"} : call' = [call EXCEPT ![m] = c]
    BY <1>3 DEF CallRejected, Request, Notify, Awaiting
  <2> QED
    BY <1>2, <2>1 DEF TypeOK
<1>4. ASSUME NEW m \in Msgs, CallStep(m)
      PROVE  NoAnswerLost'
  <2>1. /\ UNCHANGED <<acks, Awaiting>>
        /\ inTrans \subseteq inTrans'
        /\ listed' \subseteq listed \cup {m}
        /\ \E c \in {"rejected", "open", "refused", "sent"} :
             /\ call' = [call EXCEPT ![m] = c]
             /\ c = "sent" => m \in inTrans'
    BY <1>4 DEF CallStep, LinkNotify, SendTaken, SendRefused, TakeBack, Awaiting
  <2> QED
    BY <1>2, <2>1 DEF TypeOK
<1>5. CallAction => NoAnswerLost'
  BY <1>1, <1>3, <1>4 DEF CallAction
<1>6. ASSUME Delivery
      PROVE  NoAnswerLost'
  BY <1>6, DeliveryMoves DEF NoAnswerLost, Gone
<1>7. ASSUME NEW t \in Threads, CallbackStep(t)
      PROVE  NoAnswerLost'
  <2>1. UNCHANGED <<listed, call, inTrans, acks, Awaiting>>
    BY <1>7 DEF CallbackStep, CallbackEnd, HandlerEnd, PushEnd, Awaiting
  <2> QED
    BY <1>2, <2>1
<1>8. ASSUME NEW ms \in SUBSET inTrans, AckBegin(ms)
      PROVE  NoAnswerLost'
  <2>1. /\ UNCHANGED <<listed, call, Awaiting>>
        /\ inTrans \cup acks \subseteq inTrans' \cup acks'
    BY <1>8 DEF AckBegin, CleanupStage, Awaiting
  <2> QED
    BY <2>1 DEF NoAnswerLost
<1>9. Around => NoAnswerLost'
  BY <1>2, AroundFrame
<1> QED
  BY <1>5, <1>6, <1>7, <1>8, <1>9, NextKinds

-----------------------------------------------------------------------------
(* Slots.                                                                  *)

\* A message that a step brings into use had no slot, and takes an idle one.
LEMMA SlotTaken ==
    ASSUME TypeOK, CallStage, SlotsBusy, SlotsOwned,
           NEW m \in Msgs, call[m] = "new", TakeSlot(m), InUse' \subseteq InUse \cup {m}
    PROVE  SlotsBusy' /\ SlotsOwned'
<1>1. slot[m] = 0 /\ m \notin InUse
  BY DEF CallStage, InUse
<1>2. InUse \subseteq Msgs
  BY DEF InUse, InHand, TypeOK
<1>3. Kind(m) \in {"req", "notify"} /\ \A o : Kind(o)' = Kind(o)
  BY DEF Kind
<1>4. CASE IdleSlots(Kind(m)) = {}
  <2>1. UNCHANGED <<slot, busy>>
    BY <1>4 DEF TakeSlot
  <2> QED
    BY <1>1, <1>3, <2>1 DEF SlotsBusy, SlotsOwned
<1>5. CASE IdleSlots(Kind(m)) # {}
  <2>1. PICK s \in IdleSlots(Kind(m)) :
          /\ slot' = [slot EXCEPT ![m] = s]
          /\ busy' = [busy EXCEPT ![Kind(m)] = @ \cup {s}]
    BY <1>5 DEF TakeSlot
  <2>2. s \notin busy[Kind(m)] /\ s # 0
    BY ClientAssumption DEF IdleSlots
  <2>3. \A o \in InUse : slot'[o] = slot[o] /\ busy[Kind(o)] \subseteq busy'[Kind(o)]
    BY <1>1, <1>2, <1>3, <2>1 DEF TypeOK, Kind
  <2>4. slot'[m] = s /\ s \in busy'[Kind(m)]
    BY <1>3, <2>1 DEF TypeOK
  <2>5. \A o \in InUse : Kind(o) = Kind(m) => slot'[o] # s
    BY <2>2, <2>3 DEF SlotsBusy
  <2>6. SlotsBusy'
    BY <1>3, <2>3, <2>4 DEF SlotsBusy
  <2>7. SlotsOwned'
    <3> SUFFICES ASSUME NEW a \in InUse', NEW b \in InUse',
                        Kind(a) = Kind(b), slot'[a] = slot'[b], slot'[a] # 0
                 PROVE  a = b
      BY <1>3 DEF SlotsOwned
    <3>1. CASE a \in InUse /\ b \in InUse
      BY <2>3, <3>1 DEF SlotsOwned
    <3> QED
      BY <2>4, <2>5, <3>1
  <2> QED
    BY <2>6, <2>7
<1> QED
  BY <1>4, <1>5

\* A slot is released together with the use of its message.
LEMMA SlotReleased ==
    ASSUME TypeOK, SlotsBusy, SlotsOwned,
           NEW m \in InUse, ReleaseSlot(m), UNCHANGED slot, InUse' \subseteq InUse \ {m}
    PROVE  SlotsBusy' /\ SlotsOwned'
<1>1. Kind(m) \in {"req", "notify"} /\ \A o : Kind(o)' = Kind(o)
  BY DEF Kind
<1>2. SlotsOwned'
  BY <1>1 DEF SlotsOwned
<1>3. \A o \in InUse : Kind(o) \in {"req", "notify"}
  BY DEF Kind
<1>4. \A o \in InUse : busy'[Kind(o)] = IF Kind(o) = Kind(m) THEN busy[Kind(o)] \ {slot[m]}
                                        ELSE busy[Kind(o)]
  BY <1>1, <1>3 DEF ReleaseSlot, TypeOK
<1>5. \A o \in InUse' : slot[o] = 0 \/ slot[o] \in busy'[Kind(o)]
  <2> SUFFICES ASSUME NEW o \in InUse, o # m, slot[o] # 0
               PROVE  slot[o] \in busy'[Kind(o)]
    OBVIOUS
  <2>1. slot[o] \in busy[Kind(o)] /\ (Kind(o) = Kind(m) => slot[o] # slot[m])
    BY DEF SlotsBusy, SlotsOwned
  <2> QED
    BY <1>4, <2>1
<1> QED
  BY <1>1, <1>2, <1>5 DEF SlotsBusy

\* Every step keeps the slots with their owners.
LEMMA SlotsStep ==
    ASSUME TypeOK, UniqueIds, OneAtATime, CallStage, SlotsBusy, SlotsOwned, [Next]_vars
    PROVE  SlotsBusy' /\ SlotsOwned'
<1> USE DEF vars, callVars, transVars, deliverVars
<1>1. Reqs \subseteq Msgs /\ Notifies \subseteq Msgs /\ "none" \notin Msgs
  BY ClientAssumption DEF Msgs
<1>2. ASSUME UNCHANGED <<slot, busy>>, InUse' \subseteq InUse
      PROVE  SlotsBusy' /\ SlotsOwned'
  <2>1. \A o : Kind(o)' = Kind(o)
    BY DEF Kind
  <2> QED
    BY <1>2, <2>1 DEF SlotsBusy, SlotsOwned
<1>3. ASSUME NEW m \in Msgs, NEW t, CallRejected(m, t)
      PROVE  SlotsBusy' /\ SlotsOwned'
  <2>1. /\ UNCHANGED <<slot, busy, listed, InHand>>
        /\ call' = [call EXCEPT ![m] = "rejected"]
    BY <1>3 DEF CallRejected, InHand
  <2>2. InUse' \subseteq InUse
    BY <2>1 DEF InUse, TypeOK
  <2> QED
    BY <1>2, <2>1, <2>2
<1>4. ASSUME NEW m \in Msgs, NEW t,
             (m \in Reqs /\ Request(m, t)) \/ (m \in Notifies /\ Notify(m, t))
      PROVE  SlotsBusy' /\ SlotsOwned'
  <2>1. /\ call[m] = "new" /\ TakeSlot(m)
        /\ UNCHANGED InHand /\ listed' \subseteq listed \cup {m}
        /\ call' = [call EXCEPT ![m] = "open"] \/ call' = [call EXCEPT ![m] = "linking"]
    BY <1>4 DEF Request, Notify, Caller, InHand
  <2>2. InUse' \subseteq InUse \cup {m}
    BY <2>1 DEF InUse, TypeOK
  <2> QED
    BY <2>1, <2>2, SlotTaken
<1>5. ASSUME NEW m \in Msgs, (m \in Notifies /\ LinkNotify(m)) \/ SendTaken(m) \/ SendRefused(m)
      PROVE  SlotsBusy' /\ SlotsOwned'
  <2>1. /\ UNCHANGED <<slot, busy, InHand>>
        /\ call[m] \in {"linking", "open"} /\ listed' \subseteq listed \cup {m}
        /\ \E c \in {"open", "sent", "refused"} : call' = [call EXCEPT ![m] = c]
    BY <1>1, <1>5 DEF LinkNotify, SendTaken, SendRefused, CallStage, InHand
  <2>2. InUse' \subseteq InUse
    BY <2>1 DEF InUse, TypeOK
  <2> QED
    BY <1>2, <2>1, <2>2
<1>6. ASSUME NEW m \in Msgs, TakeBack(m)
      PROVE  SlotsBusy' /\ SlotsOwned'
  <2>1. /\ ReleaseSlot(m) /\ UNCHANGED <<slot, InHand>>
        /\ listed' = listed \ {m}
        /\ call[m] = "refused" /\ call' = [call EXCEPT ![m] = "rejected"]
    BY <1>6 DEF TakeBack, InHand
  <2>2. m \in InUse /\ m \notin InHand
    BY <2>1 DEF InUse, CallStage
  <2>3. InUse' \subseteq InUse \ {m}
    BY <2>1, <2>2 DEF InUse, TypeOK
  <2> QED
    BY <2>1, <2>2, <2>3, SlotReleased
<1>7. CallAction => SlotsBusy' /\ SlotsOwned'
  BY <1>1, <1>3, <1>4, <1>5, <1>6 DEF CallAction, CallStep
<1>8. Delivery => SlotsBusy' /\ SlotsOwned'
  <2>1. Delivery => UNCHANGED <<slot, busy>> /\ InUse' \subseteq InUse
    BY DeliveryMoves DEF InUse
  <2> QED
    BY <1>2, <2>1
<1>9. ASSUME NEW t \in Threads, CallbackStep(t)
      PROVE  SlotsBusy' /\ SlotsOwned'
  <2>1. UNCHANGED <<slot, listed, call>>
    BY <1>9 DEF CallbackStep, CallbackEnd, HandlerEnd, PushEnd
  <2>2. CASE CallbackEnd(t)
    <3>1. at[t].m \in InHand /\ InHand' = InHand \ {at[t].m}
      BY <1>9, <2>2, CallbackMoves
    <3>2. at[t].m \in InUse /\ InUse' \subseteq InUse \ {at[t].m}
      BY <2>1, <3>1 DEF InUse, CallStage
    <3> QED
      BY <2>1, <2>2, <3>2, SlotReleased DEF CallbackEnd
  <2>3. CASE ~CallbackEnd(t)
    <3>1. UNCHANGED <<busy, InHand>>
      BY <1>9, <2>3, CallbackMoves DEF CallbackStep, HandlerEnd, PushEnd
    <3> QED
      BY <1>2, <2>1, <3>1 DEF InUse
  <2> QED
    BY <2>2, <2>3
<1>10. ASSUME NEW ms \in SUBSET inTrans, AckBegin(ms)
       PROVE  SlotsBusy' /\ SlotsOwned'
  <2>1. UNCHANGED <<slot, busy, listed, InHand, call>>
    BY <1>10 DEF AckBegin, InHand
  <2> QED
    BY <1>2, <2>1 DEF InUse
<1>11. Around => SlotsBusy' /\ SlotsOwned'
  BY <1>2, AroundFrame DEF InUse
<1> QED
  BY <1>7, <1>8, <1>9, <1>10, <1>11, NextKinds

-----------------------------------------------------------------------------
(* The inductive invariant and what follows from it.                       *)

IInv ==
    /\ TypeOK
    /\ CallStage /\ UniqueIds /\ SlotsBusy /\ SlotsOwned
    /\ OneAtATime /\ HandlersInOrder /\ CleanupStage
    /\ AnswersOwn /\ NoAnswerLost /\ SuccessAnswered

\* The invariant holds at first,
LEMMA InitIInv == Init => IInv
<1> SUFFICES ASSUME Init
             PROVE  IInv
  OBVIOUS
<1>1. \A t \in Threads : at[t] = Idle /\ at[t].k = "idle"
  BY DEF Init, Idle
<1>2. InHand = {}
  BY <1>1 DEF InHand
<1>3. DOMAIN pending = {} /\ DOMAIN handlers = {}
  BY DEF Init
<1>4. Awaiting = {}
  BY <1>3 DEF Awaiting
<1>5. InUse = {} /\ Outstanding = {}
  BY <1>2, <1>4 DEF Init, InUse, Outstanding
<1>6. TypeOK
  <2>1. <<>> \in Seq(Event) /\ <<>> \in Seq(Handlers) /\ Idle \in Places
    BY EmptySeq DEF Places
  <2>2. 0 \in 0..Slots /\ 1 \in 0..MaxId /\ 0 \in 0..(MaxId - 1)
    BY ClientAssumption
  <2> QED
    BY <2>1, <2>2 DEF Init, TypeOK
<1>7. CallStage
  BY <1>2, <1>4 DEF Init, CallStage, Msgs
<1>8. UniqueIds /\ SlotsBusy /\ SlotsOwned
  BY <1>5 DEF UniqueIds, SlotsBusy, SlotsOwned
<1>9. OneAtATime /\ HandlersInOrder /\ CleanupStage
  BY <1>1, <1>3 DEF Init, OneAtATime, HandlersInOrder, CleanupStage, Threads
<1>10. AnswersOwn /\ NoAnswerLost /\ SuccessAnswered
  BY <1>1 DEF Init, AnswersOwn, NoAnswerLost, SuccessAnswered, Msgs
<1> QED
  BY <1>6, <1>7, <1>8, <1>9, <1>10 DEF IInv

\* and after every step.
LEMMA StepIInv == IInv /\ [Next]_vars => IInv'
  BY TypeStep, CallStageStep, UniqueIdsStep, SlotsStep, OneAtATimeStep, HandlersStep,
     CleanupStep, AnswersOwnStep, NoAnswerLostStep, SuccessAnsweredStep DEF IInv

\* So it always holds.
LEMMA Inductive == Spec => []IInv
  BY InitIInv, StepIInv, PTL DEF Spec

\* The state of the client keeps its types through every call, delivery, poll
\* and cleanup.
THEOREM TypeCorrect == Spec => []TypeOK
<1>1. IInv => TypeOK
  BY DEF IInv
<1> QED
  BY <1>1, Inductive, PTL

\* No slot of pc_pre_alloc is given to a message while another one uses it.
THEOREM SlotsAreOwned == Spec => []SlotsOwned
<1>1. IInv => SlotsOwned
  BY DEF IInv
<1> QED
  BY <1>1, Inductive, PTL

\* A callback is given the completion of its own message, although ids wrap.
THEOREM AnswersAreOwn == Spec => []AnswersOwn
<1>1. IInv => AnswersOwn
  BY DEF IInv
<1> QED
  BY <1>1, Inductive, PTL

\* A message that has been sent and is in the client's list can be completed by
\* the transport, by the handler that is completing it, or by a poll, until the
\* process ends.
THEOREM NoAnswerIsLost == Spec => []NoAnswerLost
<1>1. IInv => NoAnswerLost
  BY DEF IInv
<1> QED
  BY <1>1, Inductive, PTL

\* A request's callback reports success only for a request the server has answered
\* without an error, whatever else has been answered, reset or timed out.
THEOREM SuccessIsAnswered == Spec => []SuccessAnswered
<1>1. IInv => SuccessAnswered
  BY DEF IInv
<1> QED
  BY <1>1, Inductive, PTL

\* Every registered handler has been called for the event in hand, or will be,
\* whatever the handlers add and remove.
THEOREM HandlersAreCalled == Spec => []HandlersCalled
<1>1. IInv => HandlersCalled
  <2> SUFFICES ASSUME IInv, NEW t \in Threads, at[t].k = "event"
               PROVE  /\ at[t].h \in {handlers[i] : i \in DOMAIN handlers}
                      /\ \A i \in DOMAIN handlers :
                           \/ handlers[i] \in called
                           \/ \E j \in DOMAIN Behind(at[t].h) :
                                Behind(at[t].h)[j] = handlers[i]
    BY DEF HandlersCalled
  <2>1. PICK i \in DOMAIN handlers :
          handlers[i] = at[t].h /\ \A j \in 1..i : handlers[j] \in called
    BY DEF IInv, HandlersInOrder
  <2>2. i \in 1..Len(handlers) /\ DOMAIN handlers = 1..Len(handlers) /\ Len(handlers) \in Nat
    BY LenProperties DEF IInv, TypeOK
  <2>3. /\ Behind(at[t].h) \in Seq(Handlers)
        /\ Len(Behind(at[t].h)) = Len(handlers) - i
        /\ \A j \in 1..(Len(handlers) - i) : Behind(at[t].h)[j] = handlers[i + j]
    BY <2>1, BehindIs DEF IInv
  <2>4. DOMAIN Behind(at[t].h) = 1..(Len(handlers) - i)
    BY <2>3, LenProperties
  <2>5. ASSUME NEW o \in DOMAIN handlers, o \notin 1..i
        PROVE  \E j \in DOMAIN Behind(at[t].h) : Behind(at[t].h)[j] = handlers[o]
    <3>1. o - i \in 1..(Len(handlers) - i) /\ i + (o - i) = o
      BY <2>2, <2>5
    <3> QED
      BY <2>3, <2>4, <3>1
  <2> QED
    BY <2>1, <2>5
<1> QED
  BY <1>1, Inductive, PTL

\* pc_client_cleanup frees a client that has nothing queued and nothing open.
THEOREM CleanupIsDrained == Spec => []CleanupDrained
<1>1. IInv => CleanupDrained
  <2> SUFFICES ASSUME IInv, phase = "done"
               PROVE  pending = <<>> /\ listed = {}
    BY DEF CleanupDrained
  <2>1. pending = <<>> /\ inTrans = {} /\ acks = {}
    BY DEF IInv, CleanupStage
  <2>2. Awaiting = {}
    BY <2>1 DEF Awaiting
  <2>3. \A m \in listed : call[m] = "sent"
    BY DEF IInv, CallStage, CleanupStage, TypeOK
  <2> QED
    BY <2>1, <2>2, <2>3 DEF IInv, NoAnswerLost
<1> QED
  BY <1>1, Inductive, PTL

-----------------------------------------------------------------------------
(* The refinement of RequestLife.                                          *)

\* What a step may do to the life of a message.
LifeMoves ==
    \A m \in Msgs : Life'[m] = Life[m] \/ <<Life[m], Life'[m]>> \in Abstract!LifeStep

\* The life of each message, and of a message that has its outcome.
LEMMA LifeOf ==
    /\ \A m \in Msgs :
         Life[m] = IF call[m] \in {"new", "rejected"} THEN call[m]
                   ELSE IF outcome[m] = "none" THEN "open" ELSE "completed"
    /\ \A m \in Msgs :
         Life'[m] = IF call'[m] \in {"new", "rejected"} THEN call'[m]
                    ELSE IF outcome'[m] = "none" THEN "open" ELSE "completed"
  BY DEF Life

\* The call for a message changes only while the message has no outcome.
LEMMA CallLife ==
    ASSUME TypeOK, CallStage, CallAction
    PROVE  LifeMoves
<1> USE DEF callVars
<1>1. Reqs \subseteq Msgs /\ Notifies \subseteq Msgs /\ "none" \notin Msgs
  BY ClientAssumption DEF Msgs
<1>2. UNCHANGED outcome
  BY CallFrame
<1>3. \E m \in Msgs : \E c \in {"linking", "open", "sent", "refused", "rejected"} :
        /\ call' = [call EXCEPT ![m] = c]
        /\ call[m] \in {"new", "linking", "open", "refused"}
  <2>1. ASSUME NEW m \in Msgs, NEW t, CallRejected(m, t) \/ Request(m, t) \/ Notify(m, t)
        PROVE  /\ call[m] = "new"
               /\ \E c \in {"linking", "open", "rejected"} : call' = [call EXCEPT ![m] = c]
    BY <2>1 DEF CallRejected, Request, Notify, Caller
  <2>2. ASSUME NEW m \in Msgs, CallStep(m)
        PROVE  /\ call[m] \in {"linking", "open", "refused"}
               /\ \E c \in {"open", "sent", "refused", "rejected"} :
                    call' = [call EXCEPT ![m] = c]
    BY <1>1, <2>2 DEF CallStep, LinkNotify, SendTaken, SendRefused, TakeBack, CallStage
  <2> QED
    BY <1>1, <2>1, <2>2 DEF CallAction
<1>4. PICK m \in Msgs, c \in {"linking", "open", "sent", "refused", "rejected"} :
        /\ call' = [call EXCEPT ![m] = c]
        /\ call[m] \in {"new", "linking", "open", "refused"}
  BY <1>3
<1>5. outcome[m] = "none"
  BY <1>4 DEF CallStage
<1>6. ASSUME NEW o \in Msgs, o # m
      PROVE  Life'[o] = Life[o]
  <2>1. call'[o] = call[o] /\ outcome'[o] = outcome[o]
    BY <1>2, <1>4, <1>6 DEF TypeOK
  <2> QED
    BY <2>1, LifeOf
<1>7. Life[m] \in {"new", "open"} /\ Life'[m] \in {"open", "rejected"}
  BY <1>2, <1>4, <1>5, LifeOf DEF TypeOK
<1> QED
  BY <1>6, <1>7 DEF LifeMoves, Abstract!LifeStep

\* An outcome is given to a message that has been sent.
LEMMA DeliveryLife ==
    ASSUME TypeOK, UniqueIds, OneAtATime, CallStage, CallStage', Delivery
    PROVE  LifeMoves
<1>1. UNCHANGED call
  BY DeliveryMoves
<1>2. \A m \in Msgs : outcome[m] # "none" => outcome'[m] # "none"
  BY DeliveryMoves
<1>3. \A m \in Msgs : outcome'[m] # "none" => call[m] = "sent"
  BY <1>1 DEF CallStage
<1> QED
  BY <1>1, <1>2, <1>3, LifeOf DEF LifeMoves, Abstract!LifeStep

\* Every step moves each request along its life, or leaves it.
LEMMA LifeNext ==
    ASSUME IInv, IInv', [Next]_vars
    PROVE  LifeMoves
<1> USE DEF vars, callVars, transVars, deliverVars
<1>1. UNCHANGED <<call, outcome>> => LifeMoves
  BY LifeOf DEF LifeMoves
<1>2. ASSUME NEW t \in Threads, CallbackStep(t)
      PROVE  UNCHANGED <<call, outcome>>
  BY <1>2 DEF CallbackStep, CallbackEnd, HandlerEnd, PushEnd
<1>3. ASSUME NEW ms \in SUBSET inTrans, AckBegin(ms)
      PROVE  UNCHANGED <<call, outcome>>
  BY <1>3 DEF AckBegin
<1> QED
  BY <1>1, <1>2, <1>3, CallLife, DeliveryLife, AroundFrame, NextKinds DEF IInv

\* The client keeps the promise of RequestLife: a message is completed at most
\* once, and never after its call has failed.
THEOREM Refinement == Spec => ImplementsRequestLife
<1>1. Init => Abstract!Init
  BY DEF Init, Abstract!Init, Life
<1>2. IInv /\ IInv' /\ [Next]_vars => [Abstract!Next]_Life
  <2> SUFFICES ASSUME IInv, IInv', [Next]_vars
               PROVE  Abstract!Next
    OBVIOUS
  <2>1. Life' \in [Msgs -> Abstract!LifeStage]
    BY DEF Life, Abstract!LifeStage
  <2>2. LifeMoves
    BY LifeNext
  <2> QED
    BY <2>1, <2>2 DEF Abstract!Next, LifeMoves
<1> QED
  BY <1>1, <1>2, Inductive, PTL DEF Spec, ImplementsRequestLife, Abstract!Spec

=============================================================================
