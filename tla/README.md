# Verification of libevent_cpp

libevent_cpp wraps libevent for C++ programs: timers, TCP clients and servers with
message framing, an HTTP client and server, signals, standard input. This directory
holds TLA+ models of its classes and of the parts of the libevent it carries
(`src/External/libevent-2.1.8-stable`) that they rest on: the event base, the buffers,
evhttp's server connections, the resolver. TLC configurations check them, and TLAPS
proves theorems about all of them but the buffers. Every definition is translated from
the code; `PROJECT.json` says from which lines.

    tlc -config ConMgr.cfg MCConMgr            # one run; see "Runs" for the others
    tlapm ConMgrProofs.tla                     # one proof module

## The system

The library is **single threaded**. One `event_base`, one loop
(`EventMgr::Dispatch`), no locks. What makes it hard is re-entrancy: the loop
calls a static callback of the library, that calls a virtual function of the
program, and the program calls back into the library, which may change or
destroy what the frames below still work on. So the C++ **call stack is part of
the state** in all models of connections and of HTTP: a frame is pushed when a
callback starts, the program may take any of its actions while its frame is on
top, and what the library does after the callback returned is an action of the
frame below.

| Component | State | Operations | Modelled in |
|---|---|---|---|
| `Listener`, `SvrCon`, `BaseConMgr`/`ConnectorMgr` (`listener.*`) | map id → object (`m_all_connector`), vector of objects to delete (`m_vwdc`), per object its socket | accept, FindConn, PostDelConn, Foreach, DisConnect, the one-second delete timer, `~BaseConMgr` | `ConMgr`, `ConLife` |
| the identifier of a `SvrCon` (`listener.cc:96-106`) | process-wide counter, `time()` | the constructor | `SvrConId` |
| `ConCom`, `ClientCon` (`connector.*`) | `m_buf_e`, `m_fd`, `m_is_connect`, `m_rev_pack_len`, the kind of reading, watermarks | connects, Free, DisConnect, framed and raw reading, event callback, sends, setters | `ClientCon` |
| `Timer` and dispatch (`timer_mgr.*`, `lev_mgr.*`) | `m_event`, `m_state`, `m_is_loop`, `m_cb` | StartTimer, StopTimer, destructor, the callback; Dispatch, StopDispatch | `Timer`, `TimerPromise` |
| `EventMgr` (`lev_mgr.*`) on libevent's `event.c`, `signal.c` | the base: queues, timeouts, maps, counters; the signal pipe | Dispatch, StopDispatch, RegSignal, FreeEventBase; event_add, event_del, event_active, deferred callbacks, finalizers | `EventBase` |
| `BaseHttpClient` (`http.*`) | `m_is_req`, `m_con`, `m_dnsbase` | Request, Free, remote_read_callback, destructor | `HttpClient` |
| its resolver, libevent's `evdns.c` | servers and which are up, queries in flight, timers, deferred callbacks, lookups | lookup, transmit, answers, timeouts, probes, cancel, free | `Evdns` (in `HttpClient`) |
| `BaseHttpSvr` (`http.*`) on libevent's `http.c` | `m_cur_req`; per connection its state, input, output and flags | RevRequestCB, Send, destructor; reading, answering, closing | `HttpSvr` |
| libevent's buffers (`buffer.c`, `bufferevent_sock.c`) | chains of memory, `last_with_datap`, counters | add, prepend, drain, pullup, expand, read, write, moves | `Evbuffer`, `ByteQueues` |
| the rest of libevent, `Stdin`, logging, types, byte order | – | – | no, see below |
| samples, test programs, build files | – | – | no; read for how programs use the classes |

How they interact. `Listener` asks the manager for an object and hands it the accepted
socket; `SvrCon::OnDisconnected` posts the object to its manager; the manager deletes
from a `Timer`. `ConCom` is the base of both `SvrCon` and `ClientCon`, and reads from an
evbuffer, which must hand it head and message in one piece (`PulledUp`). `Stdin::Del`
closes descriptor 0, which the next `socket()` of a `ClientCon`, or the next `accept()`
of a `Listener`, gets. evhttp moves bodies between buffers and reads pipelined requests
from a deferred callback of the base. Everything is registered in the one base of
`EventMgr`.

What each component has to get right:

* **Connection manager.** User code never deletes a managed object
  (`listener.h:32`): every object has one owner, none is deleted twice or
  forgotten, and none is deleted while a frame of the stack still uses it.
  What is posted is eventually deleted.
* **Identifiers.** Unique for the life of the process, or one object would
  overwrite another in the map.
* **Client connection and framing.** Messages are cut where they begin,
  a message that has arrived is delivered without waiting for another byte,
  nothing is delivered for a connection that is over, each connection is
  reported as connected once and as disconnected once, and every accepted
  connect request gets an answer.
* **Timer.** `m_state` agrees with libevent; a timer stopped, restarted or
  destroyed by a callback of the same pass of the loop does not fire; a started
  one does.
* **Event base.** No event and no signal is lost or reported for the wrong
  reason, nothing runs for a freed bufferevent, Dispatch ends when it is told
  to and not before, and the base is empty once freed.
* **Buffers.** Whatever chains the bytes lie in, each call does what a queue of
  bytes does, and what is put into an output gets written.
* **HTTP client.** Each request is reported once, and the object is ready for
  the next one by then. Its host is looked up once, with one outcome, whatever the
  name servers do; a name server that failed is tried again; and nothing of a
  lookup outlives the request dangerously.
* **HTTP server.** Each request is answered once and in its turn, with pipelined
  requests, bodies, refused and broken requests; nothing is read into a
  connection that is answering.

The hazards — at which line each of these can go wrong — are listed in
`PROJECT.json`, each with the properties that cover it.

## Modules

`MC*` modules only give values to the constants. `*Proofs` modules hold the
theorems about the module they are named after, and `DataLemmas` the lemmas about
stacks, queues and folds that they share.

### ConMgr, ConLife, ConMgrProofs

One manager and the objects it makes. `obj` is the life of an object, `all` the
map, `vwdc`/`cap` the vector and its capacity (a `push_back` at capacity
invalidates the iterators of a running range-for), `at`/`end`/`iter` the
range-for of `OnTimerDelConn` or `~BaseConMgr`, `stack` the call stack, `heap`
becomes `"corrupt"` at the first undefined behaviour, after which nothing is
promised. `open` are the connections with a socket; `zero` is what has become of
one that `accept` gave descriptor 0, which has a bufferevent and an `m_fd` of 0
(`Live` are both). `prog` is the program that runs: whether derived destructors
call the manager, whether `AcceptInit` may fail, whether the manager dies, whether
`Stdin::Del` has closed descriptor 0. A *tidy* program does none of the first three.

| Code | Definition |
|---|---|
| `Listener::listener_cb`, `AcceptInit`, `CreateConnectForListener` | `Accept`, `AcceptInit`, `CreateConnectForListener` |
| `BaseConMgr::PostDelConn`, `FindConn`, `Foreach` | `PostDelConn`, `FindConn`, `UserForeach`/`ForeachNext`/`ForeachEnd` |
| `BaseConMgr::OnTimerDelConn` | `OnTimerDelConn`, `SweepNext`, `SweepStale`, `SweepEnd`, `DtorReturn` |
| `~BaseConMgr` | `MgrDestroy`, `MgrDtorNext`, `MgrDtorStale`, `MgrDtorEnd` |
| `SvrCon::DisConnect`, `OnDisconnected` | `SvrConDisConnect`, `ConComDisConnect` |
| read loop and event callback as the manager sees them | `ReadCb` … `ReadReturn`, `EventCb`, `ErrorReturn` |

The messages are left to `ClientCon`; here the read loop only calls `OnRecv` any
number of times. An object stands for its identifier. `ConLife` is what the
manager promises, with no map, vector, timer or stack: managed, then posted,
then deleted when no callback of any connection runs, and eventually.

### ClientCon, ClientConProofs

One object that connects again and again. Every connect makes a bufferevent with
a number; the properties are about what belongs to which. A byte stream is
modelled in units, by where its messages begin: `pos` units were drained, `avail`
are in the input buffer, and `PackLen` gives any value when the buffer no longer
begins at a message. A *program* is the set of pairs (callback, operation) it may
do, the watermarks it sets, and what may happen to it: a connect that fails at
once, a socket that gets descriptor 0. The properties name the programs they hold
for by these, and each such condition excludes a behaviour that TLC showed to
break the property.

| Code (`connector.cc`; buffers: `bufferevent_sock.c`) | Definition |
|---|---|
| `Free`, `DisConnect` | `Free`, `DisConnect` |
| `SetSocketInfo` | `SetSocketInfo` |
| `ConnectInit`, `TryReconnect`, `ConnectByAddr` | `ConnectByAddr` = `ConnectStarts` or `ConnectFails`, `ConnectReturn` |
| `conn_event_callback` | `Connected`, `ErrorEvent`, `ErrorReturn` |
| `readcb`, `bufferevent_readcb` with watermarks | `ReadEvent`, `Suspended`, `ReadLimit`, `Triggers`, `AfterRaw` |
| `conn_read_callback_no_cp` | `ReadReturn`, `ReadBadLength`, `ReadDeliver`, `AfterRecv*` |
| `SendPack`, `SendData` with too much output queued | `UserSendOverflow` |
| `SetRawReadCb`, `Setwatermark` | `UserSetRaw`, `UserSetMark` |
| `~ConCom` | `UserDelete` |

### Timer, TimerPromise, TimerProofs

Timers on libevent's loop. A pass of the loop moves all due events to the queue
`active` and runs them one by one. `now` is the time that libevent caches: it
does not advance during a pass, also not for a `StartTimer` in a callback.
`StopDispatch` is `event_base_loopexit`: the exit is itself an event in the
queue, behind those already there. `TimerPromise` says what `timer_mgr.h`
promises without events and queues.

### EventBase, EventBaseProofs

The base itself, with one event of every kind the library makes: one-shot and
persistent timers, the two I/O events of a bufferevent with their timeouts, a
signal and the internal event of the signal pipe, a deferred callback, the event
of `StopDispatch`, and finalizers. `base` is `struct event_base` as a record, so
that the functions of `event.c`, which call each other, are operators on it.

| Code (`event.c`, `signal.c`, `lev_mgr.cc`) | Definition |
|---|---|
| `event_queue_insert_*`, `event_queue_remove_*`, `event_queue_make_later_events_active` | `InsertActive`, `RemoveActive`, `InsertLater`, `RemoveLater`, `SetFlag`, `ClearFlag`, `MakeLaterActive` |
| `event_add_nolock_`, `event_del_nolock_` | `Add` (`AddInserted`, `TakeBack`, `AddTimeout`), `Del` (`Unqueue`) |
| `event_active_nolock_`, `event_callback_activate_nolock_`, `event_deferred_cb_schedule_`/`_cancel_` | `Activate`, `CallbackActivate`, `Schedule`, `UserCancel` |
| `event_callback_finalize_many_`, `bufferevent_decref_and_unlock_` | `FinalizeMany`, `BevFree`, `RunFinalizer` |
| `event_base_loop`, `timeout_process`, `event_process_active_single_queue` | `Turn`, `Reported`, `TimeoutProcess`, `Processing`, `TurnEnds`, `DispatchReturn` |
| `event_persist_closure`, `event_signal_closure` | `Persist`/`RunEvent`, `RunSignal`/`CbReturn` |
| `evsig_handler`, `evsig_cb`, `evsig_add` | `Caught`, `RunPipe`, `RegSignal` |
| `EventMgr::Dispatch`, `StopDispatch`, `RegSignal`, `FreeEventBase` | `Dispatch`, `StopDispatch`/`RunExit`, `RegSignal`, `FreeEventBase` |

The variable `owed` counts, for each signal, the calls its callback has still to
get; it is not in the code and no guard reads it.

### Evbuffer, ByteQueues

A buffer is its list of chains `ch` — memory, misalignment, data — and the place
of `last_with_datap` in it. Each call is a function from buffers to buffers
(`AddTo`, `PrependTo`, `DrainFrom`, `PullupOf`, `ExpandSingle`, `ExpandFast`,
`ReadTo`, `PrintfTo`, `Joined`, `RemoveFrom`) and an action that applies it and
tells the callbacks. The sizes that `buffer.c` defines are constants. A program
gives each buffer a role — input or output of a bufferevent, or the program's own —
and the calls made on it. `ByteQueues` is what the calls promise, with no chains.

### HttpClient, HttpClientProofs

One object and evhttp as it reports to it. evhttp reports a complete response,
or a refused or timed-out connect, with a request; a broken connection or a late
response with a **null** request, which `remote_read_callback` ignores; a
connect can also fail inside `evhttp_make_request`, in which case `ConnectFail`
runs inside `Request` (frames `"make"`, `"made"`). A host that is a name is
looked up before (`Evdns`), and `LookupDone` says what becomes of the
connection.

### Evdns

The resolver that each `Request` makes and each `Free` destroys, as operators on
one record (`evdns` in `HttpClient`): the servers that are up, the queries in
flight, the armed timers, the deferred callbacks that wait, and the lookups.
Callbacks, lookups and their timers outlive the resolver (`Blank`), which is
where the hazard at `http.cc:316` lies. `Then` does one thing after another to
the record; nested calls in the C code read as a chain of it.

| Code (`evdns.c`) | Definition |
|---|---|
| `nameserver_pick`, `request_swap_ns` | `Pick`, `Swap` |
| `nameserver_failed`, `nameserver_up` | `Failed` (`Unsent`, `SwapAll`), `Up` |
| `search_request_new`, `request_submit`, `evdns_request_transmit` | `Ask`, `Submit`, `Transmit` |
| `reply_handle`, `request_reissue`, `search_try_next` | `Handle` (`Praised`, `Refused`, `Reissued`, `GiveUp`), `TryNext` |
| `evdns_request_timeout_callback` | `TimedOut`, `Blamed` |
| `reply_schedule_callback`, `request_finished`, `evdns_cancel_request` | `Schedule`, `Finished`, `Cancel` |
| `nameserver_send_probe`, `nameserver_probe_callback` | `SendProbe`, `ProbeCallback` |
| `evdns_getaddrinfo`, `evdns_getaddrinfo_gotresolve`, `evdns_getaddrinfo_timeout_cb` | `Launch`, `GotResolve`, `GotSkew` |
| `evdns_base_new`, `evdns_base_free` | `NewBase`, `FreeBase` (`FailAll`) |

### HttpSvr, HttpSvrProofs

The server object and its connections. The bytes of a request are the parts the
reader tells apart (`Parts`): first line, headers, body, chunks, trailer, or what
is wrong at one of these places. `state`, `read`, `readcb`, `write`, `cb`, `more`
are fields of evhttp's connection and its bufferevent.

| Code (`http.c`; `http.cc`) | Definition |
|---|---|
| `evhttp_get_request`, `evhttp_associate_new_request_with_connection`, `evhttp_start_read_` | `Accept`, `NewRequest`, `StartRead` |
| `bufferevent_readcb`, `evhttp_read_cb`, `evhttp_deferred_read_cb` | `ReadEvent`, `DeferredRead`, `ReadCb`, `ReadMore` |
| `evhttp_read_firstline`, `_header`, `_body`, `_trailer`, `evhttp_get_body` | `ReadFirstLine`, `ReadHeadersBody`, `ReadHeadersExpect`, `ReadLastChunk`, `ReadBad` |
| `evhttp_handle_request`, `evhttp_connection_done` | `ReadRefused`, `Completed` |
| `evhttp_send`, `evhttp_send_error`, `evhttp_connection_fail_` | `Send`, `SendReply`, `SendError`, `Fail` |
| `evhttp_write_cb`, `evhttp_send_done`, `evhttp_send_continue_done` | `WriteEvent`, `SendDone` |
| `evhttp_error_cb`, `evhttp_connection_free`, `evhttp_free` | `ErrorEvent`, `FreeCon`, `UserDelete` |
| `BaseHttpSvr::RevRequestCB`, `Send` | `RevRequestCB`/`RevReturn`, `UserSend` |

### SvrConId, SvrConIdProofs

The constructor's identifier, `time()` in the upper half, a counter in the
lower. The comment at the constructor claims uniqueness under two conditions,
which are the guards of `Tick` and `NewSvrCon`; `Rate <= W` and an age below `W`
seconds are exactly the ranges in which it is true.

## Runs

| Run | Question | Bounds | States |
|---|---|---|---|
| `conmgr` | Is an object deleted twice, forgotten, or used after its deletion? Is everything posted deleted, and `ConLife` implemented? (`TypeOK`, `SingleOwner`, `NoOrphan`, `NoDangling`, `Reclaimed`, `LifeSpec`) | 3 connections, 4 frames, 3 programs, 1 connection on descriptor 0 | 172,600 |
| `client` | Framing, order of reports, lifetimes, ownership of sockets; are connects answered and messages delivered? (`FramingOwn`, `NoUseAfterFree`, `OwnedBev`, `ToldOnce`, `RecvWhileConnected`, `ErrorClosesOwn`, `Answered`, `Delivered`) | 2 connects, 5 frames, a head of 2 units, lengths up to 2, 3 streams, 7 programs | 240,142 |
| `timer` | Does `m_state` agree with libevent, is the promise kept, do due timers fire? (`StateMatchesEvent`, `PromiseSpec`, `Fires`) | 2 timers, intervals 0 and 1, 3 starts, 1 StopDispatch, clock to 2 | 360,574 |
| `event_base` | Is every event, signal and finalizer run for the right reason, once, and in the end? (`BaseOk`, `SignalsCounted`, `FreedBevQuiet`, `CauseTrue`, `Watched`, `Served`, `Stops`) | one event of each kind, in five mixes of two or three; 2 signals in the pipe | 36,436 |
| `evbuffer` | Do the calls on chains do what a queue of bytes does? (`ChainsOk`, `PulledUp`, `WriteScheduled`, `CallsImplement`) | chains of 2, 5, 11 bytes; calls of up to 3 bytes; 5 programs of up to 6 bytes | 75,272 |
| `http_svr` | Is each request answered once, in turn and in the end? (`AnswersInTurn`, `CurReqIsTrue`, `ReadsInTurn`, `NoUseAfterFree`, `Served`) | 2 connections, 9 streams, 4 programs | 159,071 |
| `http_client` | Is each request reported once, and in the end? Does each lookup end once, and does each name server that failed come back? (`ToldOnce`, `IsReqIsTrue`, `NoUseAfterFree`, `ServersWatched`, `Told`) | 4 requests to numbers, 3 to names, 1 or 2 with failing name servers; 2 servers, 2 transmissions, 1 reissue, 1 timeout in a row, 2 names; 30 programs and networks | 324,526 |
| `svrcon_id` | Are identifiers unique? (`TypeOK`, `IdsUnique`) | counters of 2 bits that both wrap | 3,120 |

The other four runs, `conmgr_dtor_posts`, `client_stale_buffer`,
`client_failed_fd` and `http_client_stuck`, are expected to end in a
counterexample and are described below.

Why the bounds are enough. Three connections let one be deleted while another is
posted and a third is not touched, and push the vector through its capacities 1,
2 and 4, so that a push during a sweep reallocates in some states and not in
others; four frames hold a sweep, a destructor, a Foreach and its functor.
Two connects are one old and one new connection, which is all that any property
of `ClientCon` compares; a head of two units makes it possible to split the
length field, lengths up to two to split the message, and the streams contain
several messages, a length of zero and one above the maximum. Two timers are one
that acts and one it acts on; three starts allow a restart of one while the other
waits; the intervals 0 and 1 put timers into the same pass and into later ones.
In `EventBase` an event interacts with others through the queues and counters
only, and the mixes put together the kinds that meet there: a timer and an I/O
event with a timeout, the two events of a bufferevent and a deferred callback, a
signal with a deferred callback and the end of the loop, a persistent timer with
each of these. `MaxDeferreds` is 0 instead of 32, so that the second queue is
used. In `Evbuffer` the smallest chain holds 2 bytes and the next ones 5 and 11:
five or six bytes lie in up to three chains, and calls of up to three bytes end
inside, at the end of, and past the next chain. The 9 streams of `HttpSvr` have
every kind of request, each way one can follow another (after an answer, after a
body, after an error), and a second connection with a request of its own. In
`SvrConId` both counters go around. In `http_client` two name servers are enough for
one to fail, for a query or a probe to move to the other, and for both to be
down; two transmissions and one time-out in a row reach every limit the resolver
has, and a second request meets what the first one's resolver left behind.

No run uses symmetry; `event_base` and `conmgr` check temporal properties, for
which it would not be sound. Deadlock is not checked where the system really
stops: after undefined behaviour, the death of the manager or the last connection
(`ConMgr`, `ClientCon`), at the end of the bounded clock (`Timer`, `SvrConId`),
in a base that is freed (`EventBase`), in a buffer that is full and may only be
added to (`Evbuffer`), when every connection is
closed (`HttpSvr`), and when the HTTP object is destroyed, stuck or out of
requests (`HttpClient`).

### What the runs refute

Four runs each look for a state that a comment of the code excludes, and find it.

* `conmgr_dtor_posts` — `listener.h:92` tells programs to handle a disconnect in
  the derived destructor. That destructor runs inside the loop over `m_vwdc`;
  if it posts another connection, the loop does not reach it (or reads a
  reallocated vector) and `clear()` forgets it: the object is never deleted.
  `NoOrphan` and `NoDangling` hold for programs whose destructors do not do that;
  `SingleOwner` holds up to the first undefined behaviour also for those that do.
* `client_stale_buffer` — after `OnRecv` the read loop asks `m_fd == 0` to see
  whether the connection is gone and drops the rest of the buffer
  (`connector.cc:200`). A reconnect inside `OnRecv` sets `m_fd` again: messages
  of the old connection are delivered as messages of the new one.
* `client_failed_fd` — `connector.cc:525` says a failing connect closes the
  descriptor. libevent closes only descriptors it made; this one, and the
  bufferevent that points at the object, are lost. When the lost bufferevent
  reports its error, `DisConnect` closes whatever connection the object then has.
* `http_client_stuck` — `http.h:103` says `ConnectFail` is called when no
  response comes in time. evhttp reports that with a null request, and
  `http.cc:332` returns: nobody is told, `IsReq` stays true, and each further
  `Request` is refused.

Also seen while modelling, and stated as the exceptions of properties:

* `PostDelConn` on an open connection leaves the socket registered until the
  sweep; the object goes on receiving although `FindConn` no longer finds it.
  (`CloseConnect`, which `listener.h:33` names for this, does not exist.)
* `~BaseConMgr` deletes the objects of the map and leaks those of `m_vwdc`.
* Deleting a `ClientCon` in `OnRecv` or `OnError` makes the library use freed
  memory; only `OnDisconnected` promises that deleting is allowed. So does
  deleting a `BaseHttpSvr` in `RevRequest`.
* `Free` destroys the resolver with `fail_requests`. If a name server is being
  probed then, its probe ends in a callback with a name server that has been
  freed; if an answer waits to be delivered, its callback locks the freed
  resolver. The second takes a program that deletes the object outside its
  functions; the first only name servers that fail. (In `NoUseAfterFree`.)
* Descriptor 0 means "not connected": a connection that gets it is never closed
  by `DisConnect`. An accepted one whose peer goes is therefore not posted: unless
  the program posts it, the object stays in the map with a dead socket. (The
  exception of `Reclaimed`.)
* `SendData(MsgPack)` accepts a length of 0, which the receiver takes for a
  protocol error: it disconnects (`ReadBadLength`).
* `SetRawReadCb` in the middle of a message, whose head was converted in place,
  hands `OnRawRecv` bytes that are not those of the network; switched back,
  complete messages wait for the next read event.
* A read low-water mark above a length field, or a high-water mark below a whole
  message, stops the stream for good.
* A timer loop of interval 0 fires once, because libevent does not reschedule a
  persistent event without an interval, and then claims for ever to be started.
* `event_add` with a timeout, on an I/O event whose own timeout has elapsed and
  whose callback waits to be called, takes the callback out of the queue but does
  not put the event back among the watched ones: it only has its timeout then.
* A connect that fails inside `evhttp_make_request` lets `Request` set
  `m_is_req` of an object that has no request any more, or of a deleted one.
* A `RevRequest` that answers with `evhttp_send_reply` on `GetCurReq`, as the
  comment at `http.cc:192` suggests, leaves `m_cur_req` set: an error page is
  sent as a second answer to the same request.

## Fairness

* **ConMgr.** Library code that is running goes on (weak fairness). Callbacks of the
  program return: strong fairness for each depth of the stack, because a program may
  call `Foreach` again and again, which makes the return of the outer callback
  unavailable from time to time; weak fairness for the two upper depths, where the
  bounded stack has no room for a `Foreach` and its functor. The read loop ends, as the
  input is finite. The delete timer runs although it is not always enabled (an event
  that is being handled disables it): the loop runs due timers once per pass.
* **ClientCon.** Library code goes on, callbacks return, and the result of a
  connect is delivered once the loop is idle often enough (strong fairness for
  each bufferevent that connects: it is not ready while a callback runs).
  Nothing is assumed about the peer: no data need arrive, no connection need end.
* **Timer.** The loop goes on inside Dispatch, callbacks return, time passes.
  Nothing makes the program call Dispatch.
* **EventBase.** The loop goes on, callbacks return (weak fairness), and time
  passes: strong fairness, because it does so only while the loop waits or
  outside of it. No descriptor need become ready and no signal need come.
* **HttpClient.** Calls return, and every connect and every wait ends somehow:
  evhttp arms a timeout for both, with a default when the program gives none.
  Deferred callbacks run. The answers to a query and its timer come with strong
  fairness: probes of dead servers go on for ever meanwhile, and `EventBase`
  shows that the loop serves what is ready. Name servers that are not silent
  answer before the timer.
* **HttpSvr.** Library code goes on and `RevRequest` returns; the loop delivers
  the events of every connection (strong fairness per connection: they are not
  available while another is served, and `EventBase` shows that the loop serves
  what is ready). A peer that was told to go on with `100 Continue` sends its
  body; otherwise peers may stop at any point.

## Proofs

| Theorem | Says | For any |
|---|---|---|
| `ConMgrProofs!TypeCorrect` | `Spec => []TypeOK` | connections, depth of the stack, set of programs |
| `ConMgrProofs!SafetyCorrect` | `Spec => []((Quiet => SingleOwner) /\ NoOrphan /\ NoDangling)` | the same |
| `ConMgrProofs!OwnersCorrect` | `Spec => []SingleOwner`: also for destructors that use the manager | the same |
| `ConMgrProofs!NoOrphanCorrect` | `Spec => []NoOrphan` | the same |
| `ConMgrProofs!LifeCorrect` | `Spec => Life!SafeSpec`: the manager implements `ConLife` but for its fairness | the same |
| `SvrConIdProofs!TypeCorrect` | `Spec => []TypeOK` | width and rate |
| `SvrConIdProofs!UniqueCorrect` | `Spec => []IdsUnique` | width `W`, `Rate <= W` |
| `ClientConProofs!OwnedBevCorrect` | `Spec => []OwnedBev` | connects, depth, lengths, streams, programs |
| `ClientConProofs!NoUseCorrect` | `Spec => []NoUseAfterFree` | the same |
| `ClientConProofs!ErrorCorrect` | `Spec => ErrorClosesOwn` (action property) | the same |
| `ClientConProofs!ToldOnceCorrect` | `Spec => ToldOnce` (action property) | the same |
| `ClientConProofs!RecvCorrect` | `Spec => RecvWhileConnected` (action property) | the same |
| `ClientConProofs!FramingCorrect` | `Spec => []FramingOwn` | the same |
| `TimerProofs!StateCorrect` | `Spec => []StateMatchesEvent` | finite set of timers, intervals, numbers of starts and stops, length of the clock |
| `TimerProofs!PromiseCorrect` | `Spec => PromiseSpec`: the timers implement `TimerPromise` | the same |
| `EventBaseProofs!BaseCorrect` | `Spec => []BaseOk` | finite sets of events of each kind, bufferevents, timeouts, mixes, bounds |
| `EventBaseProofs!SignalsCorrect` | `Spec => []SignalsCounted` | the same |
| `EventBaseProofs!FreedCorrect` | `Spec => []FreedBevQuiet` | the same |
| `EventBaseProofs!CauseCorrect` | `Spec => CauseTrue` (action property) | the same |
| `EventBaseProofs!WatchedCorrect` | `Spec => Watched` (action property) | the same |
| `HttpSvrProofs!CurReqCorrect` | `Spec => []CurReqIsTrue` | connections, streams, programs |
| `HttpSvrProofs!ReadsCorrect` | `Spec => []ReadsInTurn` | the same |
| `HttpSvrProofs!NoUseCorrect` | `Spec => []NoUseAfterFree` | the same |
| `HttpSvrProofs!TurnsCorrect` | `Spec => []AnswersInTurn` | the same |
| `HttpClientProofs!ToldOnceCorrect` | `Spec => []ToldOnce` | programs and networks, requests, name servers, retransmits, reissues, timeouts |
| `HttpClientProofs!WatchedCorrect` | `Spec => []ServersWatched` | the same |
| `HttpClientProofs!IsReqCorrect` | `Spec => []IsReqIsTrue` | the same |
| `HttpClientProofs!NoUseCorrect` | `Spec => []NoUseAfterFree` | the same |

The inductive invariants themselves are the theorems `InvCorrect` (`ClientConProofs`,
`TimerProofs`, `HttpSvrProofs`), `Invariant` (`EventBaseProofs`), and `ClientCorrect`
and `CalmCorrect` (`HttpClientProofs`). The assumptions are the `ASSUME`s of the
modules, which TLC evaluates in the runs. They say of what type a constant is, and in
two places a little more: the set of timers and the set of events are finite, as a
program's memory is, and in `EventBase` an event is of one kind and belongs to at most
one bufferevent (`KindsAssumption`, `BevsAssumption`), as `event_assign` gives an event
one set of flags and `bufferevent_socket_new` embeds its two events in the bufferevent.
`NotArmedAssumption` says that a value that stands for "no promise" is not a promise.

In every module the shape of the argument is the same: `TypeOK` and the property
are not inductive, `IInv` (or `Inv`) is; one lemma for each action says that it
keeps `IInv`, one step for each conjunct it can disturb; actions that do the same to
the stack or the queues share a lemma.

**ConMgr.** `TypeOK` alone is not inductive: `m_vwdc[at]` is an object only if the
range-for stays inside the vector, and that needs to know that a delete loop is always
the first frame of the stack and runs once (`RangeInv`). The safety properties rest on
four conjuncts. `StackInv`: a delete loop is at the bottom of the stack with at most the
one destructor it runs above it. `SweepInv`: the range-for of a running sweep covers the
vector and its iterators are valid — this is where quiet destructors (`Quiet`) are
needed, and `conmgr_dtor_posts` shows that they are. `OwnerInv`: the part of the vector
that is still to be deleted has no repetitions and nothing in common with the map, every
living object is in one of the two, one with a bufferevent (`Live`) is not deleted, and
only the object whose destructor runs is dying; without the exact states of the objects
a step of the sweep would not be known to start from a living one. `FrameInv`: outside
delete loops the frames of connections, and always the copies that `Foreach` walks, name
living objects. Actions that only push, pop or post share the `Quiet*` lemmas.

`OwnersCorrect` needs another invariant, because destructors that post, iterate and
disconnect break `SweepInv`. `OwnInv` says less about the vector and more about the
stack: whatever destructors do, the one that a delete loop called is the second
frame (`DtorSecond`) and belongs to the object at the iterator (`MidDeleteInv`), and
while the manager lives, what is left to be deleted is owned once (`LiveOwner`).

`LifeCorrect` maps each action to a step of `ConLife` or to none: an accept creates, an
event of a connection or a step of a `Foreach` enters a callback, a pop of the stack
leaves one, whatever takes an object out of the map posts it, and the sweep's call of
a destructor is the deletion, at a moment when no callback of any connection runs
(`BusyNone`). The mapping is about tidy programs, so the proof also shows that nothing
of theirs destroys the manager (`TidyInv`).

**SvrConId.** Uniqueness is about any two connections, however far apart.
The invariant relates them through differences: the seeds of two connections
fewer than `W` births apart differ by the number of births, or by that less `W`
(`CloseInv`); seen from now, the clock of a connection is as far back as its age
is, or that less `W` (`TimeInv`); connections of the same second are fewer than
`W` births apart (`ApartInv`). Equal clocks then mean the same second, the same
second means fewer than `W` births, and with equal seeds that means the same
birth. `SeedInv` and `SecondInv` tie this to the counter and to the current
second; the lemma `Onward` is the arithmetic of a step that wraps.

**ClientCon.** What can run above what decides most of it. `LoopInv`: nothing is
above the read loop but the `OnRecv` it called, and events start only on an empty
stack. `NestInv`: above a callback that may not connect there is nothing but the
`OnDisconnected`s of its own disconnects. `BevInv`: a bufferevent that works is the
current one, and what the program was told of a bufferevent follows the life of
that bufferevent. `RunInv`: the connection that a running read loop or
`conn_event_callback` was started for has not been replaced by another.
`DeleteInv`: a program that deletes nowhere below library code leaves none of it on
the stack when the object is gone. The action properties are about the frame that a
step pushes; their proofs go through the actions and say which callback each of them
can start, and for which bufferevent (`ToldOnce`, `RecvWhileConnected`), or which
frame can return (`ErrorClosesOwn`). The conditions on programs (`Fails`,
`ReconnectsInRecv`, `Leads`) are in the conjuncts that need them, not in front of
the whole: what holds for every program is proved for every program.

`FramingCorrect` adds what the stream is like, in `FramingInv`. `BytesInv`: no more is
read than the peer sends, and nothing before the connection is up. `HeadInv`: a
connection that is read in frames has drained whole messages (`AtBoundary`), and a
length in `m_rev_pack_len` is the one at that boundary. `BottomInv`: the reader at the
bottom of the stack works on the current bufferevent, the amount it will drain after
`OnRecv` is the message it delivered, and in `OnConnected` nothing of the connection was
read yet, which is why choosing to read raw there is safe. That the end of a message
is the beginning of the next is `UnitsFacts`, about the prefix sums of any stream.
`Units` is a fold over a sequence, and its sums are reached by the same induction over
sets of positions as the folds of `EventBase` (below). Where the boundary is the end
of the stream there is nothing to read (`BytesInv`), so a head that is read is always
that of a message: the alternative in `PackLen`, any bytes, is never taken.

**Timer.** `QueueInv`: a timer is in the queue of active events once, exactly if its
event is active. `TimerOk`: the state of a timer agrees with its event, an active
event is due, and an object that does not exist has no event. With it each step of
the loop and of the program is a step of `TimerPromise` or none (`Mapped`), and the
conjuncts and the mapping are proved together, action by action. `event_del` takes a
timer out of the middle of a queue and `timeout_process` appends those that are due in
some order of their times: that neither loses nor doubles an event is
`UnqueueFacts`, `ConcatFacts` and `OrderFacts`.

**EventBase.** `base` is changed by operators that call each other, as the functions
of `event.c` do, so the proof has two levels. Below, each function has a lemma that
says what it does to the flags of its event, that flags, queues and counters still
agree (`QueueInv`), and what it leaves alone. Above, each action has a lemma for the
other conjuncts: `KindInv` (a timer is never in the maps, only a deferred callback
waits in the second queue), `CauseInv` (the result of an event whose callback waits is
still true, and a descriptor that is not watched meanwhile waits for its timeout),
`LoopInv` (signals are delivered by the event of the pipe, within one turn),
`SigInv` (what is owed to a signal is in the pipe or waits), `BevInv` (of a
bufferevent that was freed exactly one event is queued, with the finalizer) and
`FreedInv`. `CauseInv` is what `CauseTrue` and `Watched` come from: it ties a result
that was stored when the event became active to the state in which its callback
starts, with user code in between.

Four functions are C loops over what is ready, due, caught or queued, and folds in
the model: the report of the back end, `timeout_process`, `evsig_cb`, and the loops
of `event_base_free`. What a fold returns is reached by induction on the subset of
the elements that were done already. The provers cannot instantiate an induction
theorem that takes an operator, but they can instantiate `SetInduction`, which takes
a **set** of numbers; `FoldInduct` and `FoldExists` bring folds over finite sets to
that form: an invariant of the loop, given as the set of values it holds for at each
subset, that holds at the start and is kept by each element, holds at the end.

**HttpSvr.** `CallsInv`: at most one frame runs; a read callback runs for a connection
that reads, `RevRequest` for one that writes, and the request presented is the one its
connection works on until it is answered. `ReaderInv`: the read callback of a connection
is set only while a request is being read, and a deferred read is scheduled only for a
connection that lives. `DeleteInv`: a freed server has no connection left, and
`RevRequest` runs on one only if the program deletes there; with `ReaderInv` nothing
that was deferred is left either, whichever way it went. That is `CurReqIsTrue`,
`ReadsInTurn` and `NoUseAfterFree`. `AnswersInTurn` is about the whole history of what
each peer received; `TurnInv` adds what is on its way: while a request is read nothing
but status lines 100 are in the output, once it is answered its answer is the last
there, and the peer has received the answers to all requests before. It holds for
programs that answer with `Send`; one that uses `evhttp_send_reply` answers twice
(above).

**HttpClient.** A step of the client may contain a whole call of the resolver, which
changes `evdns` by operators that call each other, so the resolver comes first.
`DnsInv` is what it keeps between calls: the counts are those of the lists
(`Counted`); a query has a timer and no timer is armed for a query that is gone
(`Timed`); a server that is down returns (`Watched`), which needs that there is one
probe of it at a time, that its timer is off meanwhile, and that the end of a probe
that waits is seen before the timer fires (`Probed`); a lookup waits for a query that
is in flight or whose callback waits, each at most once (`Calls`); and a lookup that
was told keeps no timer (`Cut`). Inside a call it does not hold: `DnsInv(e, X, Y)`
excepts the queries `X` whose answer is being handled and the servers `Y` that are
being looked after. Two kinds of operators keep it, in two ways. Those that end no
query (`Swap`, `Failed`, `Transmit`, `Submit`) are related to what they start from by
`Goes`: servers may fail, but only with their timer armed, queries may move, but the
counts follow. `Goes` composes (`GoesOn`), so it goes through the loops over queries
by `FoldInduct`, and `DnsInv` survives it. Those that end queries or bring servers
back (`Ended`, `Cancel`, `Up`, `Handle`, `FailAll`, `GotSkew`) keep `DnsInv` by
themselves, and leave alone what their callers go on with (`Kin`).

`ClientInv` adds what the object has to do with it. `Shape`: only the frame on top is
in `evhttp_make_request`, and a frame whose connect failed is there only if connects
can. `Link`: the base and the connection are those of the last request, whose user was
not told yet. `Once`: a lookup that can still report has not done so. `Idle`: a host
that is a number leaves the resolver alone. `ToldOnce` and `ServersWatched` follow for
all programs and networks.

The two others say more where less goes wrong, and so do their invariants. `CalmInv`:
while servers answer none is taken for dead (`Smooth`), and if the object is deleted in
its own functions only, callbacks that wait are for the base that is there, and none
waits while a function runs, but the ones that report the shutdown (`Settled`).
These the resolver may run at any time: `evdns_getaddrinfo_gotresolve` looks at their
result before it looks at the base. From it follows `NoUseAfterFree`: no step that
sets `bad` can be taken. `NetInv`: on a network without faults a lookup finds its
host, so that no connection is lost and `IsReq` is not true for nothing
(`IsReqIsTrue`). Both are relative to `ClientInv`, and
`CalmInv` holds in every state in which `NetInv` is needed.

This proof changed the model in two places. `ServersWatched` had said that every query
has a timer; it now says that timers are those of queries, because a timer that fires
for a query that is gone would be as bad. And `ProbeCallback` treats a shutdown as the
code does, as a failure: no probe is ever told of one while its base lives, but the
operator must be defined there.

### Model-checked only

* Liveness: `Reclaimed`, `Answered`, `Delivered`, `Fires`, both `Served`, `Stops`,
  `Told`, and the fairness in `LifeSpec`. It needs `ENABLED`, which the proof system
  does not handle.
* `Evbuffer` (`ChainsOk`, `PulledUp`, `WriteScheduled`, `CallsImplement`). Its calls
  cut and join sequences of chains, and what a chain may hold depends on sums over the
  chains before it (`Cum`): each call needs an induction of its own.

## Not modelled, and why

* **The rest of libevent.** evrpc, evtag, OpenSSL, filters, pairs, rate
  limits, locking and priorities, the back ends for other systems, and the many
  headers, tests and samples that come with it: the library does not use them. The
  vendored tree is most
  of the code here, which is why the modules stand for less than a tenth of it,
  although they cover the library's own classes. Of evhttp, the timeouts of idle
  connections, chunked answers, virtual hosts and `evhttp_set_cb`.
* **Evdns.** Packet formats, the queue of queries behind the first 64, sockets that
  cannot take a packet at once, failing `recvfrom`, `resolv.conf` and the hosts
  file, the growing intervals between probes, `evdns_getaddrinfo_cancel` (nothing
  in the library reaches it) and the DNS server. A query is sent up to 2 times
  (3 in the code) before it is given up.
* **Evbuffer.** Pinned, referenced and file chains, reserve/commit, searching and
  `readln`, `evbuffer_prepend_buffer`, overflow of the total length. An
  `evbuffer_remove_buffer` of everything is an `evbuffer_add_buffer` in the code.
  Errors of reads and writes are events of the connection modules.
* **Failing allocations** (`event_new`, `event_add`, `evhttp_request_new`; the last
  leaves `Request` at `http.cc:292` with `m_con` set and refuses every later one),
  and the timing of blocking calls: the socket of `ConnectByAddr` is blocking
  (`connector.cc:505`), so a connect holds up the loop.
* **Stdin, logging, type names and conversions.** No protocol, or no state any
  other part depends on. `PrintfCond` uses the logger without the test `Printf`
  makes (`log_file.cc:33`); `MsgPack::Set` refuses a string of exactly the size of
  the data array (`connector.cc:571`). Both are visible in one line and have no
  behaviour over time. The width of the integers matters to identifiers only and
  is modelled there; the byte order of the length field cancels out.
* **The death of the manager inside a callback.** `MgrDestroy` runs when no callback
  does; a callback of a connection that destroys the manager, and with it that
  connection, is outside of `NoDangling`.
* **Order of static destruction.** `event_base_free` before timers and connections
  are destroyed leaves them with events of a freed base; which comes first is the
  program's order. That the base is left clean is `BaseOk`.
* **Samples, tests.** Users of the library.

## Plan

Every safety invariant of the modules other than `Evbuffer` is proved, and so are the
action properties but `CallsImplement`. What is left:

1. `Evbuffer`: the chains' part of `TypeOK` and `WriteScheduled`, which need only that
   a call that adds bytes counts them; then `ChainsOk` and `PulledUp`, for which the
   sums over chains (`Cum`) and `FlattenSeq` need lemmas of their own, by
   `SetInduction` on the places of the chains. `NewChain` takes the smallest of six
   sizes; for all sizes the bound on them has to become an assumption.
2. `CallsImplement`, call by call, on top of these lemmas.
