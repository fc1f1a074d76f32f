# libpitaya in TLA+

A formal model of libpitaya's client: the client object and its calls, the TCP and
TLS transports that carry requests, the connection beneath them, and the packages
and messages exchanged with the server. The modules are checked with TLC on small
instances; every invariant they check, most of the action properties and the three
refinements are proved with TLAPS for every value of the constants.

The reference is the C code, in `src/src/` and `src/include/` (paths below are
relative to `src/src/`). The vendored libuv, OpenSSL, zlib and cJSON, the Unity
and iOS examples and the test servers are outside; libuv, OpenSSL and zlib are
modelled by how the transports use them.

## 1. The system

One `pc_client_t` has two kinds of threads: the user's, which call `pc_client_*`,
`pc_*_request` and `pc_*_notify`, and one uv thread, which runs every handler of
the transport. They meet in

- `client->state`, under `state_mutex`, read and written in separate critical
  sections;
- the lists `req_queue` and `notify_queue`, their pre-allocated slots and id
  counters, under `req_mutex` and `notify_mutex`;
- the transport's four write queues, under the recursive `wq_mutex`;
- the transport's `state`, written by the uv thread and read by all threads
  without a lock;
- the asyncs `conn_async`, `write_async`, `disconnect_async`, `cleanup_async`,
  which user threads send and the uv loop runs at some later time, several sends
  becoming one run;
- the user's callbacks and event handlers. Without polling the uv thread runs them
  from inside its handlers, some of them with `wq_mutex` held; with polling they
  wait in `pending_ev_queue` for a `pc_client_poll`, which runs them with
  `event_mutex` held. They may call the API.

| Component | Files | State | Operations | What makes it correct |
|---|---|---|---|---|
| Client API | `pc_pitaya.c`, `pc_pitaya_i.h` | client state, lists, slots, ids, event handlers | init, connect, disconnect, cleanup, request, notify, poll, add/remove handler | a call fails or opens a message, whose callback runs at most once; a slot has one owner; an answer reaches its own request; nothing is left at cleanup |
| Event dispatch | `pc_trans.c` | the polling queue | fire event, resp, sent, push and their queued forms | an event comes only in a state that fits it; a completion finds its message; nothing is dropped between the threads |
| TCP transport, requests | `tr/uv/tr_uv_tcp_i.c`, `tr_uv_tcp_aux.c` | four queues of write items, `is_writing`, the timeout check | send, write, write done, timeout check, response, heartbeat, reset | an item is in one queue; no open message without an item; no item without an open message, but for answered ones; handshake before data |
| TCP transport, connection | same | transport state, `uv_connect_t`, socket, four timers, `reconn_times` | dial, connect timeout, handshake, loss, kick, reset, reconnect, disconnect, cleanup | one attempt at a time; timers belong to the connection they were started for; the client keeps trying, at the configured pace |
| TLS transport | `tr/uv/tr_uv_tls_i.c`, `tr_uv_tls_aux.c` | the TCP transport's, plus two BIOs, the item to be retried and its buffer, the items whose bytes wait | write to the BIO, read cycle, write to the socket, write done, timeout check, reset | as the TCP transport; waiting items have their bytes in the BIO; ignored write errors strand nothing |
| Package parser | `tr/uv/pr_pkg.c` | head and body collected so far | feed, reset, encode | the packages sent are the packages handed over, wherever the stream is cut |
| Message codec | `tr/uv/pr_msg.c`, `pr_msg_json.c`, `pr_gzip.c` | none | encode, decode | the server reads the request that was made; the client reads the answer that was sent |
| Plugin repository, dummy transport, library set-up, pinned keys | `pc_trans_repo.c`, `tr/dummy/`, `pc_lib.c` | tables, a locked list | register, find, set up | registration before use |
| Unity wrappers, JSON, assertions | `pc_unity.c`, `pc_JSON.c`, `pc_assert.c` | none of their own | thin wrappers and conversions | — |

What is hard, and what the properties are for (`PROJECT.json` lists each hazard at
its line): a send that reads the transport state three times while the uv thread
resets; a response that overtakes the end of its own write; callbacks that send
from inside a reset; a `uv_write` that refuses after its items have moved, or whose
error is ignored; a timeout that meets a write; a buffer that SSL must be given
again when its item is gone; a connect request that is cancelled by a reset and
reported after it; two sources of `conn_async`; a state that is written in one
critical section and was read in another; slots that are looked for while a
callback still uses one; ids that come round again; mutexes taken in two orders;
a parser that is reset by the handler it calls, and goes on; a callback that sends
from inside the cleanup; a success that polling cannot carry.

## 2. The modules

```
RequestLife  what a call promises about its message (abstract)
     ^              ^                  ^
     | refinement   | refinement       | refinement
TcpWrite       TlsWrite            Client             Connection
     \            /          (slots, ids, lists,       /      \
      WriteQueues             callbacks, polling)   Link    Backoff
           |                                 (timers, socket, retries)
         Link
                                            PkgParser   MsgCodec
                                                  \      /
                                                  Session

Link_proofs, WriteQueues_proofs, TcpWrite_proofs, TlsWrite_proofs, Connection_proofs
Client_proofs, PkgParser_proofs, Session_proofs
MCTcpWrite, MCTlsWrite, MCConnection, MCClient, MCPkgParser, MCSession
```

### Link

The connection as a state machine over `cstate` (`client->state`), `tstate`
(`tt->state`), `dial` (the `uv_connect_t`, `is_connecting`), the asyncs, the delay
timer, and `uvpc`, the place the uv thread has reached inside a handler that runs
in several steps. A handler that loses the connection is cut where another thread
can see the difference:

1. `BeginReset`: the event is fired, which sets the client state
   (`pc__trans_fire_event`); the user's handlers run here;
2. `ResetFlush`: `tcp__reset` to the unlock of `wq_mutex`;
3. `ResetEnd`: `tt->state = NOT_CONN`, and the end of the handler or `tcp__reconn`;
4. `ReconnBegin`, `ReconnAnnounce`, `ReconnWait` or the ways to give up: the
   assignments of `tcp__reconn`, one at a time.

A package's handler is called by the loop of `pc_pkg_parser_feed`, which goes on with
the rest of the read after it. Such a handler may therefore come back to the place
`feed` (`Return`), where packages are handled whatever has become of the connection,
until `FeedEnd`; `PackageRead` is the guard of the handlers of packages.

`entered` holds the calls of `pc_client_connect` and `pc_client_disconnect` that
have read the client state and not yet written it.

Link's actions say nothing of what lies outside its variables. WriteQueues conjoins
them with what the same handler does to the queues, Connection with what it does
to timers and socket. So all see the same interleavings, and none pays for the
others' state. `Faults` names what the environment and the user may do, which lets
a run choose.

### WriteQueues, TcpWrite, TlsWrite

WriteQueues is what the two libuv transports share, in the code as here:
`tr_uv_tls_i.c` takes over the TCP transport's entry points and replaces the
functions that write, read and reset. One message is a model value in `Reqs` or
`Notifies`. `call` is how far its `pc_*_request` has come on its thread: the
client's check, the transport's first check (`SendCheck`), the enqueueing under
`wq_mutex`, which reads the state again and picks the queue by it (`SendEnqueue`),
and the last read, which decides whether the uv thread is woken (`SendWake`). `held`
is the client's `req_queue` and `notify_queue`; the four queues are sets of items,
`Internal` items being the handshake, its acknowledgement and heartbeats.

A handler of the uv thread that keeps `wq_mutex` is one step. The callbacks it
runs may send again from inside it; `Nested` is the choice of messages they send,
and `Complete` what that does to the client's side. `Retriers` bounds who does so.

TcpWrite adds `tcp__write_async_cb`, `tcp__write_done_cb`, the timeout check and
`tcp__reset`. TlsWrite adds the memory BIO: `retry` (`should_retry`) and `retryBuf`
(`retry_wb`), the item SSL could not take yet and the buffer it must be given again;
`tcpWait` (`when_tcp_is_writing_queue`), items whose bytes are in the BIO while a
write is under way; `outPending`, whether the BIO holds bytes; and `cycle`, that the
uv thread is inside `tls__cycle`: packages are read only there, between the write to
the BIO and the write to the socket. `ToTcp` is `tls__write_to_tcp`; SSL is external
and may fail, ask for a retry, or answer, whenever the code calls it.

`written` (what went to `uv_write` on the present connection) is not a variable of
the code; it stands for the server, which answers only what it was sent.

### RequestLife

Per message: new, then open or rejected; an open message is completed once. A call
may still be rejected while its message is open (`tr_uv_tcp_send` fails after the
client has queued it), and never after the message was completed. `Life` in
WriteQueues and in Client is the mapping.

### Client

The client object over an external transport that takes or refuses a message,
completes under `wq_mutex` what it has (`AckBegin`, `Ack`, `AckEnd`), and passes on
answers that may come after a timeout or reset has completed their request
(`Answer`; `granted` are those without an error). `host` is the thread that makes a call from inside a callback; `slot` and
`busy` are the pre-allocated slots and their BUSY marks, two pieces of state in the
code as well; `id` and `reqIdSeq` are the request ids, which wrap around at `MaxId`;
`at` is the callback each thread is in, with the message whose completion led to it.
`Found` is the walk over the list in `pc__trans_resp`, which stops at the first
element with the id it looks for. With `polling` the uv thread appends to `pending`
(`Tell`), which needs `event_mutex`, and `PollNext` runs the callbacks. Only errors
come that way: to queue a success the code copies its error, which is not there
(`pc__error_dup(NULL)`), and the process ends: `Crash`, after which nothing happens.

`LinkNotify` is a data race: a notify is appended to `notify_queue` under `req_mutex`
and removed under `notify_mutex`. If the last element is removed while the new one is
being put behind it, the new one may not be found afterwards, and then neither may those
that are put behind it in turn: `torn` stands until one is found. A push is polled like
everything else, although the assertion in `pc__handle_event` leaves it out.

### Connection, Backoff

Link with `timers` (conn, handshake, heartbeat; the delay timer is Link's), `sock`
(none, open, closing, closed), `retries` and `pause`. What Link leaves to chance is
decided here: the handshake timer fires only when it is running, the retry limit
compares `retries` with `reconn_max_retry`, a socket that was given to `uv_close` is
closed before a timer ends that was started for a second or more, and the delay timer
runs for a time that Backoff
computes from `retries` as `tcp__reconn` does: growing linearly or by doubling up to
the attempt `max_reconn_incr`, then the maximum, with the jitter, which may make it 0
if the delay or the maximum is 1. `Patient` is an
assumption about the user: connect is called only when the transport is at rest.

### PkgParser, MsgCodec, Session

PkgParser is `pc_pkg_parser_feed` with its two phases over a stream that is cut
anywhere, over several connections. `chunk` is what is left of the buffer being fed;
`ParseHead` and `ParseBody` are one turn each. The handler is called from
`ParseBody`; a kick and an undecodable data package reset the transport, and with it
the parser, from inside, after which the loop goes on over the same buffer, as in
the code.

MsgCodec is the encoder and decoder of `pr_msg.c` as operators over sequences of
numbers below `Base`: flags, ids in marked digits, plain and coded routes, bodies
compressed where that is shorter. Session composes the two: the client's messages as
it encodes them, and the server's as the parser and the decoder hand them on, with
the server external and its reading of the format (`Wire`, `Understood`) written
independently of the code's.

## 3. Runs

| Run | Shows |
|---|---|
| `write_safety` | TCP: the queue discipline, the accounting of messages, what a cleanup completes and the refinement, for a timed request and a notify that callbacks send too, with heartbeats, under bad packages, failing dials, refused and failing writes, reconnection, cleanup |
| `write_live` | TCP: a disconnect completes what the transport had, and ends; cleanup returns |
| `tls` | TLS: the same accounting with both messages timed, and what the BIO adds to it, under refused TLS handshakes, SSL errors, losses, bad packages, failing and ignored writes, time-outs |
| `tls_live` | TLS: a request with a timeout is completed, even if never answered |
| `conn_timed` | with a connect timeout: the connect timer belongs to its request, events come in expected states, the client keeps trying |
| `conn_lost` | without one, under losses and disconnects: one attempt at a time, heartbeats only on a connection, delays in their bounds, the client keeps trying |
| `client` | slots, ids, lists, callbacks, handlers and cleanup, with and without polling, and the refinement |
| `session` | requests reach the server and answers and pushes reach the client as they were meant, wherever the stream is cut, with a clean parser on each connection |

Four more runs (`handshake_first`, `timeout_fires`, `parser_stale`, `poll_deadlock`)
refute something the code or its comments say; see section 6. So do seven configurations
that are not among the runs of `PROJECT.json`; each takes a second by hand, with the
module given here, and would become an ordinary run once the code is changed:
`cleanup_leaves` (MCTcpWrite), `polled_success` and `polled_push` (MCClient),
`kick_in_read`, `cancelled_connect`, `stale_timer` and `second_dial` (MCConnection).

Bounds. In the write runs two messages suffice for what the queues can get wrong
between messages (every queue invariant relates one item to two places, or one
message to the client and a place), and one message that callbacks send covers the
reentrance. A message is sent once, so a run ends for it; the connection has no bound
and is dialled and lost again any number of times. What ends it differs between the write
runs, by `Faults`: bad packages (which leave the client CONNECTING, so that it
accepts messages during the reset), failing dials and the cleanup in `write_safety`,
losses and refused handshakes in `tls`. In Connection `MaxRetry` is 1 and
`RetryCap` 3 or 6: with `Delay` 2 and `DelayMax` 5 both kinds of growth have reached
the maximum before the counter stops, and every comparison with the limit has come
out both ways. In `client` one slot of each kind and request ids below
`MaxId` 3, which leaves 1 and 2, make the slots run out and the ids come
round with three requests; `MaxLoad` 4 bounds calls, events and handlers together,
which leaves room for every mixture of up to four of them, and symmetry is over names
only. In `session` a byte has 64 values, so that an id digit has 32 and the ids 31, 32
and 1061 take one, two and three digits; routes of 63 and 64 bytes stand at the two sides of
the length byte, a body of 64 bytes makes a package whose length needs its second
byte; `ReadSize` 5 cuts every package at every byte and lets one read hold several;
`MaxSent` 3 packages from the server and `MaxAsked` 2 from the client on each of
`MaxConns` 2 connections.

Deadlock is not checked: after `pc_client_cleanup`, when the bounds are used up, or
when the network and the user do nothing more, the system stops. Lock cycles are a
matter of liveness here (`PollReturns`).

Fairness. `UvFairness` states that the uv loop runs what is ready: a reset that has
begun ends (weak fairness), a read that is being parsed ends, and the disconnect, cleanup and write asyncs and the
timeout check, which other handlers can make wait, run if they are ready again and
again (strong fairness). `uv_run` visits every pending async and every due timer in
each iteration, which is what that says. User threads finish calls they have
begun. `FairSpec` gives the network, the server and the user no fairness at all.
`timeout_fires`, which refutes a promise for TCP, and `tls_live`, which confirms it
for TLS, assume with `LiveNetSpec` that connections are made and written to in the
end, and never that a response comes. Connection's `FairSpec` is the same for its
handlers: the loop, the closing of sockets, the report of cancelled requests, and
calls under way. Client's `FairSpec` lets every thread go on with what it is in.

Left apart between the two passing Connection runs. `conn_timed` has no losses or
disconnects, `conn_lost` no connect timeout and does not check the events, and both
have a user who is `Patient`. Each of these restrictions has a configuration that shows
what happens without it: a connect timeout with losses is `stale_timer`, events with
disconnects are `cancelled_connect`, a user who connects from the event that reports
a loss is `second_dial`. Packages behind one that has reset the transport are in both
passing runs; that their events are excepted from `EventsExpected` is `kick_in_read`.

## 4. Properties

Write path (TCP, and with its own list of places TLS)

- `OneQueue`: a write item is in one place. The queues are intrusive lists.
- `NoLostMessage`: an open message is on its way to the transport or in a queue,
  so somebody can still complete it. Breaks if a queue is emptied after the
  callbacks, if a reset forgets a queue, or if a refused write leaves items.
- `OnlyAnsweredOrphans`: an item without an open message is a request whose
  response came before the end of its write. It stays in `resp_pending_queue` until
  its timeout or the next reset.
- `WritingInFlight`: `writing_queue` is only used while `uv_write` is under way.
- `CleanupAcks`: the reset of a cleanup completes every message the client has, by
  whichever thread and whenever it was sent; what is listed afterwards has been sent by
  a callback of that reset itself, and nothing more comes until the uv thread is joined.
  It says of the steps, not of who may send, what `pc_pitaya.c:237` asks of a
  transport. The assertion at 260, that nothing is left at all, is `NothingLeft`, which
  `cleanup_leaves` refutes.
- `WaitHasBytes`, `IgnoredErrorSafe` (TLS): items that wait for a write have their
  bytes in the BIO and a write under way; the ignored error of `uv_write` leaves items
  behind only until the reset it announces.
- `ImplementsRequestLife`: no message is completed twice, or completed and then
  rejected to its caller, in any interleaving of response, timeout, reset, failed
  write and the three reads of `tr_uv_tcp_send`.
- `DisconnectCompletes`, `DisconnectEnds`, `CleanupEnds`, `TimeoutFires`: the calls and
  time-outs that must come to an end.

Client

- `SlotsOwned`: messages in a call, in a list or in a callback have different slots.
- `AnswersOwn`: a completion runs the callback of the message it belongs to.
- `NoAnswerLost`: what is sent and listed is with the transport, with the handler that
  is completing it, or its completion is in the polling queue (where only errors are).
- `SuccessAnswered`: success is what the server answered, without an error. No reset,
  time-out, failed write or answer to another request is told as a success.
- `HandlersCalled`: handlers added or removed during an event do not disturb the walk.
- `CleanupDrained`: nothing is queued or listed when the client is freed.

Connection

- `ConnTimerDials`, `HeartbeatDone`: a timer's callback finds the connection it was
  started for.
- `FreshSocket`: a dial never takes over a socket that is open or closing.
- `EventsExpected`: the assertions of `pc__trans_fire_event`, of the first package of a
  read that is refused and of everything else (`PackagesExpected`, of all packages, is
  refuted by `kick_in_read`; `ConnectErrorExpected`, a part of `EventsExpected`, by
  `cancelled_connect` and `stale_timer` for the users and faults they have).
- `PauseBounded`: a reconnection waits at least half the smaller of the delay and its
  maximum, and at most one and a half times the larger.
- `KeepsTrying`: with reconnection enabled a CONNECTING client always comes to an
  attempt, or to another state.

Packages and messages

- `FramesMatch`, `NothingWithheld`, `FreshParser`: the packages handed over are a
  prefix of those sent; all of them once all bytes are read; from the first byte.
- `RequestsUnderstood`, `AnswersMatch`: the server reads the request that was made,
  under its id; the client decodes what was sent, under the id of a request of this
  connection. The first leaves out two kinds of route for which it is false: a route in
  the dictionary (`pr_msg.c` encodes its code in two bytes, from numbers its call passes
  in the wrong order, and decodes one) and a route of 256 bytes and more (its length is
  cut to a byte). Both are among the messages of the run.

## 5. Proofs

`tlapm` proves the following for all messages, faults and configurations, from the
assumptions named in the modules: `LinkAssumption`, `MsgAssumption`,
`ConnectionAssumption`, `BackoffAssumption`, `ClientAssumption`, `ParserAssumption`,
`SessionAssumption` and `MessagesAssumption` say of which kind the constants are
(requests and notifies disjoint, a delay and a maximum of at least 1 and in either
order, packages and messages that are
bytes and fit their length fields, a zlib that loses nothing). `PowerAssumption`,
`PowerOfBase` and `Powers` are facts about `^`, which the provers do not know. TLC
evaluates all of them.

**TcpWrite_proofs.** `IInv == TypeOK /\ QueueInv /\ CleanupInv` is inductive.
The checked invariants alone are not: a response may only complete a message that
was written, so `QueueInv` adds `WrittenOnce` (what uv was given is not waiting to be
given again) and `CallStage` (a call that has not reached the queues has left
nothing in them; the client keeps a message exactly from its acceptance on).
`CleanupInv` follows a cleanup from the request to the join: `CleanupReleases`
(`CleanupAcks`) is an action property, and rests on it for the places of the uv thread
and on `LastReset` for what the last reset leaves, which is what was new before it. There is one lemma per
group of handlers, and lemmas about `Complete` and `Nested` that they share.
From it: `TypeCorrect`, `OneQueueHolds`, `NoMessageLost`, `OrphansAnswered`,
`WritingOnlyInFlight`, `CleanupReleases`, and `Refinement`, which maps every step
of TcpWrite to a step of RequestLife or a stutter.

**TlsWrite_proofs.** The same argument for the TLS transport with its own invariant.
`QueueInv` is stated message by message (`OnePlace`, `Owned`), because an item has six
places here; `WaitHasBytes` is a conjunct, and `RetryInv` says what the item to be
retried and its buffer have to do with each other. `Completion` is the lemma every
handler that completes messages uses. `SafeInv`, on top of it, says that
without a socket nothing is left of the last connection: `IgnoredErrorSafe` needs that. From it: `TlsTypeCorrect`,
`TlsOneQueue`, `TlsNoMessageLost`, `WaitingHasBytes`, `ErrorIgnoredSafely`, and
`TlsRefinement`.

**Connection_proofs.** `TypeCorrect`, `PauseIsBounded` (`PauseBounded`, for every two
delays with which the code can compute one: neither is 0, and the milliseconds fit an
int), and `ConnTimerOwned` (`ConnTimerDials`, made inductive by saying that the
timer is off when a reset has cancelled the request), without any assumption about the
user. `SingleAttempt` (`FreshSocket`, for pauses of at least a second: with a delay of 1
the code may dial at once) and `HeartbeatOwned` (`HeartbeatDone`) are proved
under `Patient`, and with a connect timeout for connections without losses and
disconnects; section 3 says why neither can go. Their invariant `OneAttempt` says that a
connection is wanted by a user, asked for by an async, waited for by the delay timer,
being dialled, in use, or being lost, and never two of these; `Placed` says where the uv
thread and the transport are in each case. `EventsAreExpected` proves the action
property `EventsExpected` for a user who does not disconnect, with losses if there is no
connect timeout, and packages that follow a refused one in the same read: `Settled` adds which client states go with a transport that is at rest,
dialling or connected, so that each event finds the client in a state that fits it.

**Client_proofs.** `IInv` joins the checked invariants to five that they need. `CallStage`
says for each stage of a call where its message is: in the list, with the transport, in
a callback, awaited in `pending`. `UniqueIds` keeps the ids of open requests apart while
they come round, and makes `Found` the one message that an answer is for. `OneAtATime`
says that with polling only the thread that holds `event_mutex` is in a callback, and
without it only the uv thread.
`SlotsBusy` says that whoever has a slot has it marked, which is what keeps `SlotsOwned`
when a slot is taken, and `HandlersInOrder` that the walk over the handlers has called
all before its place, while they are added and removed. `CleanupStage` follows
`pc_client_cleanup`, unless the process has ended. From it: `TypeCorrect`, `SlotsAreOwned`, `AnswersAreOwn`,
`NoAnswerIsLost`, `SuccessIsAnswered`, `HandlersAreCalled`, `CleanupIsDrained`, with and
without polling and for any number of threads, slots and requests, and `Refinement`, that
the client implements RequestLife.

**PkgParser_proofs.** The invariant is about the stream: what the parser has collected,
what is left of the chunk and what is not read yet, put together, are the bytes of the
packages sent and not handed over (`Stream`). As these bytes are the result of a
recursion over the packages, `Stream` says that there is a sequence of `tails`, each the
package's bytes and the next tail; taking the next package off it (`NextPackage`) is then
a fact about two ways of cutting one sequence. `LengthRead` is that `PkgLen` reads what
`LenField` wrote, for every base and width. The library's induction theorems cannot be
used here, but what they rest on can: a set of numbers has a least element
(`LeastElement`), and a recursive function with two values has no least number at which
they differ. From it: `TypeCorrect`, `FramesAreMatched`, `NothingIsWithheld`,
`ParserIsFresh`, for all packages, lengths, chunks and numbers of connections, under
`Undecodable = {}`: with packages whose handlers refuse them the properties are false,
which `parser_stale` shows.

**Session_proofs.** A session is a behaviour of PkgParser (`SessionParses`), so that its
theorems hold there. The rest is about the format. `EncodeIdIsWireId`: the digits that
`pr_msg.c` takes off one by one are the protocol's, which WireId gives by powers;
`IdRead`: `DecodeId` gets the id back from them, wherever they stand and whatever follows.
`Decoded`: the decoder gets every message that fits the format back from its bytes,
`EncodeMsgIsWire`: the encoder writes those bytes. As decoding gives one result, no two
requests have the same bytes. From it: `SessionIsTyped`, `RequestsAreUnderstood`, and
`AnswersAreMatched`, which also needs that what was written is never understood under
another id (`SameId`), whether the route is in the dictionary or too long or not.

**Link_proofs** and **WriteQueues_proofs** have the lemmas these share: types, what a
callback may send, what a call does.

Only model-checked: everything temporal that needs fairness (`DisconnectCompletes`,
`DisconnectEnds`, `CleanupEnds`, `TimeoutFires`, `KeepsTrying`), which the
prover does not reach.

## 6. Findings

The runs show 1 to 4, the configurations named like them 5 to 11.

1. `handshake_first`. Comments at `tr_uv_tcp_aux.c:1026` and `:1236` say that the
   handshake goes before any application data. A request that is enqueued between
   the unlock of `wq_mutex` in `tcp__reset` and its last assignment finds the
   state DONE, waits in `write_wait_queue`, and is written with the handshake of
   the next connection.
2. `timeout_fires`. `pitaya_trans.h:73` has requests answered or timed out. The TCP
   transport's check looks at three of the four queues and is not started again if it
   ran while the only timed item was being written. `tls_live` shows the same promise
   kept by the TLS transport, which starts the check with every write.
3. `parser_stale`. `tr_uv_tcp_i.c:90` asserts the types of packages. The parser goes
   on over its buffer after a handler has reset it, and a package cut there is
   glued to the first one of the next connection.
4. `poll_deadlock`. `pc_client_poll` holds `event_mutex` while it runs callbacks. One
   that sends waits for `wq_mutex`; the uv thread, completing messages in a reset, a
   timeout check or a failed write, holds it and waits for `event_mutex`.
5. `polled_success`. `pitaya_trans.h:71-76` has the client told of sent notifies and
   answered requests. With polling, `pc__trans_queue_resp` and `pc__trans_queue_sent`
   copy the error of the completion (`pc_trans.c:406`, `355`), and `pc__error_dup` reads
   through its pointer (`pc_error.h:50`), which is NULL for a success: the uv thread
   crashes on the first one.
6. `polled_push`. `pc_pitaya.c:294` asserts that what is polled is an answer, a sent
   notify or an event. Pushes are queued too, and handled by the same function.
7. `cleanup_leaves`. `pc_pitaya.c:260-261` asserts that the client's lists are empty
   after the transport's cleanup. What a callback sends from inside the reset goes
   behind the queues already taken, and nothing completes it any more.
8. `kick_in_read`. `pc_trans.c:151` and `165` assert the client's state when a kick or
   undecodable data comes. Behind a package that has reset the transport, in the same
   read, either comes in any state: KICKED to a client that is CONNECTING again,
   PROTO_ERROR to one that was kicked.
9. `cancelled_connect`. `pc_trans.c:130` asserts that CONNECT_ERROR does not come to a
   client that is INITED. A disconnect while dialling makes it INITED, and then uv
   reports the cancelled connect request.
10. `stale_timer`. The same assertion, by the handshake timer, the only one that
    `tcp__reset` does not stop (`tr_uv_tcp_aux.c:59-66`): it fires after the client
    has given up reconnecting.
11. `second_dial`. `tr_uv_tcp_aux.c:820` asserts that heartbeats are sent on an
    established connection. A user who connects from the event that reports a loss dials
    besides the reconnection; when its delay is over, `conn_async` dials over the
    connection that has been made, with its heartbeat timer running.

`pc_assert` does nothing unless the application installs a handler, so that the
assertions among these are silent in a release.

## 7. Abstractions and what is not modelled

- A queue is a set. The order inside a queue reaches only the wire, and what is put
  at the head leaves in the same `uv_write` as all behind it.
- Time is a choice: a timeout may come at any moment its timer runs. In the write
  modules the timers that only decide when something happens are the failure they
  report.
- In Client the callbacks that `pc_client_cleanup` leads to make no calls; TcpWrite and
  TlsWrite have them. Client takes the transport as external, and the write modules take the client as the
  set of open messages. They meet in RequestLife, which both implement.
- In polling mode the client state follows an event only when it is polled. Link has
  the client state change with the event; the lag is not modelled.
- A `reconn_delay` or `reconn_delay_max` of 0 is excluded (`BackoffAssumption`), as the
  code divides by the delay it computes, and so are waits of more milliseconds than an
  int holds.
- Fewer than 2^32 - 2 requests are made while one is outstanding (`Request`), which the
  code does not check; nor does a handler remove itself while it runs, which
  frees the element the walk stands on.
- The server keeps to the protocol, but for data that cannot be decoded, and kicks or
  sends data only on an established connection, several in one read if it likes. It
  writes its routes in full: for a code that is not in the dictionary
  `pc__resolve_dictionary` goes through a null pointer (`pr_msg.c:62-64`), where
  `Resolve` gives nothing. Its second handshake answer, which fires CONNECTED again, is
  outside, and so is what the handshake carries (dictionary, serializer).
- `tls__write_to_bio` works on `write_wait_queue` without `wq_mutex` while user threads
  append to it; the model takes the queue whole, so that a torn list is outside it, as
  is the reuse of the BIO's memory while uv still reads it.
- Allocation does not fail, as the code assumes.
- Not modelled: the plugin repository (a table filled by one thread), the dummy
  transport (a synchronous loopback for tests), the library's set-up and pinned keys
  (a key that is not pinned shows as a refused TLS handshake), the Unity wrappers,
  cJSON and the assertion hook, which have no state that threads share.

## 8. Plan

The modules of the first plan exist, and every invariant the runs check is proved. What
is left, in order:

1. The composition of Client with WriteQueues in place of the external transport, for
   one request, and the lag of the client state in polling mode.
2. `IgnoredErrorSafe` and `NoLostMessage` with the unlocked `write_wait_queue` as a
   choice over what a torn append can leave.
3. `RequestsUnderstood` for routes of the dictionary, once encoder and decoder agree on
   a code's width.
4. The safety part of the liveness properties as theorems: which handler is ready while
   a disconnect, a cleanup or a poll has not ended.
