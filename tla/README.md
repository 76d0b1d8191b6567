# A TLA+ model of ttlive-cpp

`ttlive-cpp` is a C++ client for TikTok LIVE: it resolves a room, signs its
requests with TikTok's own JavaScript in an embedded QuickJS, follows the LIVE by
WebSocket, by HTTP long polling or by both at once ("dual mode"), and hands each
server message to the application's callbacks. This directory holds a
specification of its control logic, checked with TLC on small instances and, in
part, proved with TLAPS for every value of the constants.

Source paths below are relative to the repository; `client.cpp` is
`src/client.cpp`, `client.hpp` is `include/ttlive/client.hpp`. `PROJECT.json`
maps every definition to the lines it stands for.

## 1. Inventory

| Component | State | Operations | Talks to |
|---|---|---|---|
| **Dispatch** (`client.cpp` `dispatch_message`, `remember_id`, `emit`) | `dispatch_mu_`, `seen_ids_`, `seen_order_`, `live_ended` | deliver a message once, evict the oldest id, note a LiveEnd | called by both transports; calls `parse_event` and the callbacks |
| **Session** (`run`, `run_websocket*`, `poll_loop`, `fetch_once`, `disconnect`, `fetch_gift_list`) | `running`, `stop_requested`, `net_mu_`, `ws_ever_connected`, cursors, the poll thread | set up, fetch, pump the socket, reconnect, poll, fall back, stop, join, tear down | everything below, and the application's threads |
| **WsClient** (`ws_client.cpp`) | `connected_`, the curl handle, `partial`, the header list | `connect`, `send_binary`, `recv_binary`, `close` | libcurl; called by `run()` and by `disconnect()` |
| **Signer** (`qjs_signer.cpp`) | the JS runtime, `initialized_` | lazy initialisation, `drain`, `set_cookies`, `sign` | called under `net_mu_` by `fetch_once` and `build_ws_url`; runs the shim and the SDK |
| **DOM shim** (`js/hybrid-fake-dom.js`) | the cookie jar, the timer queue, requests with their listeners, what scripts stored in `window` | timers, `XMLHttpRequest`, the window proxy, codecs, stubs | called by the SDK's scripts and by the signer |
| **HttpClient** (`http_client.cpp`) | one curl handle with its cookie engine | `get`, `set_cookie`, `cookie_header` | libcurl |
| **Scraping** (`clean_unique_id`, `json_*`, `scan_room_id`, `gunzip`) | none | pure functions over response bodies | called by the setup steps |
| **Event parsing** (`event_parser.cpp`, `events.hpp`) | none | protobuf message to `Event` | called by `dispatch_message` |
| **Request parameters** (`web_defaults.cpp`) | none (a cached CA path) | parameter lists, percent-encoding | called by every request |
| **Demo** (`demo/main.cpp`) | a global client pointer | registers callbacks, SIGINT handler, `run()` | the library's API |
| Build, schema, SDK scripts | | | not part of the program's logic |

### How they interact

`run()` executes in the application's thread. It stores its three flags, warms up
cookies, resolves the room, checks that it is live, reads stream and gift
information, fetches once, emits `Connect`, dispatches the backlog, and enters
its transports. With one transport everything stays in that thread; in dual mode
`run()` starts a second thread for `poll_loop()`, drives the WebSocket itself,
and joins the poll thread before it tears down. `disconnect()` and
`fetch_gift_list()` come from a third thread (or a signal handler, or a
callback). Two mutexes exist: `net_mu_` around fetching and signing,
`dispatch_mu_` around dispatching with its callbacks. The flags are atomics; the
rest (`ws_ever_connected`, the WsClient's members, `gift_list`) has no lock.

### What is hard here

* Two threads bring the same messages; the window of seen ids has to make one
  delivery of them, and evicts.
* Three atomics stop the loops; `run()` resets them on entry, `disconnect()` sets
  two of them in two stores.
* Sockets drop anywhere, frames do not decode, fetches fail: each failure takes
  a different path through retry, reconnect and fallback, with different cursors.
* Exceptions from callbacks unwind through mutexes, loops and a joinable thread.
* `disconnect()` calls into the WebSocket that another thread is using.
* Reassembly state survives a connection.
* The shim has no event loop: timers and promise jobs run when the signer drains
  them, which it does while it initialises and never again.
* Every event of the shim's `XMLHttpRequest` fires inside `open()`, `send()` or
  `abort()`; the functions it calls may call these again, and change the arrays
  of listeners that are being gone over.
* JSON and HTML are read by scans that know quotes, backslashes and braces, in
  responses whose strings may hold any of these.

`PROJECT.json` lists the hazards one by one, each at its line, with the properties
that cover it or the reason why none does.

### What makes each component correct

* **Dispatch**: set and deque agree; no id twice within the window; eviction is
  oldest first; what two transports bring is delivered once each (it is not if the
  id is 0, section 6).
* **Session**: one `Connect`, each message at most once, `Disconnect` after the
  last of them; callbacks never overlap; the network is used by one thread at a
  time; a poll loop never skips; in dual mode no failure ends a transport; after a
  LiveEnd each finishes what it is in and brings nothing more; `run()` returns after
  a stop or a LiveEnd (if the WebSocket upgrade is answered or fails, section 6).
* **WsClient**: what it returns is one message; order is kept; no freed handle is
  used; one thread at a time (the first, third and fourth of these do not hold,
  section 6; the runs that pass say how far they do).
* **Signer**: nothing is signed in a half-made engine, the finished one is kept, a
  failed attempt costs no more than its runtime; what is signed goes with the
  cookies of the request (it does not, section 6); the signature gets into the
  URL (it does if the SDK puts it there, and not from a header, section 6).
* **DOM shim**: timers run in the order of their creation, once, and not after they
  were cleared; a drain ends; an event reaches each listener once; a name of the
  window means what the script that set it last meant; what is encoded decodes.
* **Scraping**: fields are read whatever the strings of a response hold, escapes
  above 0x7f excepted, which are dropped (section 6); the first positive room id.
* **Event parsing**: an event holds the fields of its type, and nothing of a payload
  that did not decode.
* **Request parameters**: a server reads in a query the parameters that went into it.

## 2. Modules

| Module | What it is |
|---|---|
| `Dispatch` | the dispatch component on its own: any thread may bring any message at any time |
| `MCDispatch` | its bounds for TLC |
| `DispatchProofs` | the inductive invariant of `Dispatch` and the theorems that follow |
| `EventStream` | the abstract specification: what the callbacks are promised |
| `LiveSession` | `run()`, both transports, `disconnect()`, `fetch_gift_list()`, the server; EXTENDS `Dispatch` |
| `MCLiveSession` | the sets of `ClientOptions` the configurations use |
| `SessionProofs` | the inductive invariant of `LiveSession`, and that it is a use of `Dispatch` |
| `StreamProofs` | that `LiveSession` implements `EventStream`, what its polls cover and in which order, what ends its transports |
| `WsClient` | the WebSocket wrapper with its reassembly buffer, and `close()` from a second thread |
| `WsClientProofs` | the inductive invariants of `WsClient` and the theorems that follow |
| `Signer` | the JavaScript engine's initialisation and retry, and the cookies it signs with |
| `TaskQueue` | the abstract specification of timers: what a page may expect of them |
| `EventLoop` | the shim's timers, QuickJS's jobs, and `drain()`, which runs both |
| `FakeXhr` | the shim's `XMLHttpRequest`, as a stack of what is left to do |
| `SigningPage` | `Signer`, `EventLoop` and `FakeXhr` together, and what the SDK's scripts may do with them |
| `PageProofs` | the inductive invariants of `Signer`, that `SigningPage` implements it, the invariant of its event loop, and the theorems that follow |
| `XhrProofs` | the invariant of the stack of `FakeXhr`, under anything the scripts of `SigningPage` do |
| `FakeWindow` | the shim's window proxy, and what scripts assign, define and delete |
| `SignedUrl` | the request of `sign()`, and which signature gets into the URL that it returns |
| `ShimCodecs` | `atob`, `btoa`, `TextEncoder`, `TextDecoder` |
| `Scraping` | the functions of `client.cpp` that read JSON and HTML |
| `RequestParameters` | percent-encoded queries |
| `EventParser` | what `parse_event()` makes of a message |
| `MCTextFunctions` | inputs for the modules of pure functions, scripts for `FakeWindow` and steps of a request for `SignedUrl`, and what has to come of them |
| `TextProofs` | the invariants of `FakeWindow` and `SignedUrl`, the events of any message, and that queries, base64 and UTF-8 of any length read back |
| `DocumentProofs` | that names, room ids and the string fields of JSON are read, for inputs of any length |

`LiveSession` composes `Dispatch`: its transports do not deliver, they take the
actions `DropDuplicate`, `BeginDelivery`, `EndDelivery` and `AbortDelivery` of
that module, so what is proved there about the window holds for whatever the
transports do. `LiveSession` implements `EventStream` (property
`ImplementsEventStream`); the mapping is the identity on the two history
variables `session` and `delivered`, which the actions that emit events update.
`WsClient` is separate: `LiveSession` sees of it `connected`, a position on the
server's side, and that frames may be lost, which includes the ones that
reassembly spoils. `Signer` is separate too: `LiveSession` sees of it that a
signing succeeds or throws, and sees to it that one thread at a time is in it
(`NetSerialized`), which `Signer` builds on. `SigningPage` extends `Signer`,
`EventLoop` and `FakeXhr`; it implements `Signer` (theorem `PageImplementsSigner`)
and, by `ImplementsTaskQueue`, `TaskQueue`.

### Dispatch

A message is its `msg_id`; all messages with id 0 are the one value `NoId`, since
the code cannot tell them apart. A delivery is two steps, `BeginDelivery` (lock,
look up, remember, enter the callbacks) and `EndDelivery` (callbacks returned,
`live_ended`, unlock), because the mutex is held while user code runs.
`AbortDelivery` is a callback that throws: the lock is released, the id stays
remembered, a LiveEnd goes unnoticed. `parse_event()` is abstracted to whether
its result is a LiveEnd (`EndMessages`). `delivered` is a history variable.

### LiveSession

| Model | Code |
|---|---|
| `pc[Main]`, labels `begin_stop` ... `initial_fetching` | `run()` up to the initial fetch, `client.cpp:749-800` |
| labels `connect_callback`, `backlog`, `disconnect_callback` | steps 4, 5 and 7 of `run()` |
| labels `ws_*` | `run_websocket_with_reconnect()` and `run_websocket()` |
| labels `poll_*` | `poll_loop()`, by `Main`, or by `Poller` in dual mode |
| `pc[Poller]`: `off`, `exited` | no poll thread; returned but not yet joined |
| `pc[User]` | another application thread in `disconnect()` or `fetch_gift_list()` |
| `cursor[t]`, `initial`, `batch[t]`, `batchCursor[t]` | the local variables `cur`, `cursor`, `initial`, `batch` |
| `connected`, `ws_ever_connected`, `fails` | `WsClient::connected_`, `ws_ever_connected`, `consecutive_handshake_fails` |
| `published`, `wsPos` | the server: messages it has, and the last one this socket was sent |

Abstractions, and why they lose nothing the properties look at:

* **Messages are 1, 2, 3, ...** in the order the server produces them, and a
  cursor is the number of the last message it covers, 0 the empty cursor. A fetch
  with a cursor returns what follows it, a fetch without one any recent suffix;
  either may carry no new cursor, since the field is optional. This is the
  meaning the code gives to cursors by the way it passes them on.
* **Time**: a sleep takes as long as the other actors like. Backoff lengths,
  heartbeats' period and `interval_ms` are not there; that a heartbeat may be due
  (and lose the socket) at any tick is.
* **Receiving**: the condition of the receive loop and the call of `recv_binary()`
  are two steps (`WsReceive`), so a frame may come when a flag has changed in between;
  a turn that got one ends with the heartbeat if one is due (`WsTurnEnds`).
* **The end of dual mode**: what `run_websocket_with_reconnect()` returns is
  discarded; then `stop_requested` is stored (`WakePoller`), then the poll thread is
  joined.
* **Flags**: a loop condition that loads three atomics one by one is read at
  once. This is exact as long as each flag changes in one direction during a run,
  which is checked (`FlagsOneWay`).
* **`ws_saw_live_end` and the poll loop's local `live_ended`** are folded into
  the atomic `live_ended`, which is set before either of them and is the next
  thing the loop looks at.
* **Setup steps** are one action each: they touch the network and members nobody
  else reads. Which of them may throw, and which swallow it, is kept.
* **Undecodable frames**: `ws_handle_frame()` drops a frame that fails to decode
  at any of its three early returns; the model drops its messages. The ack goes
  out before the messages are dispatched, and may lose the socket.
* **A throwing callback** unwinds: through `run()`, which leaves `running` set and
  an open socket behind and emits no `Disconnect`; through a `std::thread`
  function or past a joinable thread it is `std::terminate()` (`Crash`).
* **`msg_id` 0** occurs in `Dispatch` only.
* **`raw_sink`** is there as the steps in which it is called (`UsesSink`), not as
  what it is given.

### WsClient

Calls into libcurl are two steps, so that `close()` from the other thread can
overlap them; what curl does then is undefined, and the model lets the call
return anything it could have returned. `impl_->curl` is a plain pointer that
`close()` reads for its test and again for the call: by the thread of
`disconnect()` these are steps of their own, with the load of `connected_` between
them. A callback that throws leaves the receive loop past `ws.close()`
(`PumpThrows`), so that the next `connect()` may begin with `connected_` set. Handles are numbered; `handles` holds
those not cleaned up. A message travels in parts; whether a part is the last is
`bytesleft` and `CURLWS_CONT`. Control frames may arrive between parts
(`ControlFrames`; curl usually answers pings itself, the code handles what it
does hand over). `received` is the history of what `recv_binary()` returned, as
the sequence of parts each message was made of. An empty message, the header list
and the destructor are left out.

### Signer

A call is what `signed_url()` and `build_ws_url()` do: read the cookies
(`Call`), `set_cookies()`, `sign()`, both of which begin with
`ensure_initialized()`. The initialisation is one action per statement that can
fail: `NewRuntime`, `NewContext`, then `SetupStep` for each script or drain in
order, then `Initialized`. A failure throws out of the call (`Throws`) and leaves
`rt` and `ctx` as they are; only `initialized_` is what the next call looks at.
Runtimes are numbered, `live` holds those not freed, so one that is overwritten
stays in `live`. `done` counts the steps the current runtime has behind it.

A cookie is a name with a value, `http` and `jar` are the two stores,
`cookie_header()` lists the first in any order, and `document.cookie = header` is
`Assign`: the shim cuts at the first `;`. The SDK may store cookies whenever it
runs. Missing SDK files are no error, as in the code: an absent file is skipped,
and `window.byted_acrawler` is then a stand-in, since the shim's window answers
every unknown name with a proxy, which is truthy (`FakeWindow` has the case that a
script stored a falsy one). HTTP responses change `http` between calls; one
that comes during a call (on-demand `fetch_gift_list()` takes no lock) counts as
coming after it, since a call reads the cookies first.

### EventLoop, FakeXhr and SigningPage

| Model | Code |
|---|---|
| `timerQueue`, `timerId` | `__timerQueue`, `__timerId`, `hybrid-fake-dom.js:849-850` |
| `jobs` | the pending jobs of the QuickJS runtime |
| `draining`, `turns`, `inTask` | where `drain()` is (`qjs_signer.cpp:104-112`): in its loop over jobs, in `__drainDeferredTimeouts()`, in a function one of them runs |
| `readyState`, `handlers`, `listeners`, `arrays` | the fields of one `FakeXMLHttpRequest`; arrays of listeners are objects, so `listeners` holds references to `arrays` |
| `stack` | what is left to do of the calls in progress, the innermost first |
| `signing` | `sign()` has made its request |

The shim queues a timer whatever its delay; `setInterval()` is `setTimeout()`, and
`requestAnimationFrame()` and `requestIdleCallback()` call their function at once
and only take an id. A `drain()` runs up to 40 jobs, then up to 5000 timers; jobs
that the timers queue wait for the next one. The comment at
`hybrid-fake-dom.js:1314` says "fire all pending timers", which holds up to that
limit. The function of a job or of a timer may take every action of `Defers`
before it returns, and so may a script of the SDK.

Of the request, the model has what decides who is called when: `_changeState()`
calls `onreadystatechange` and then `_fireEvent()`, which calls it once more
before the listeners; `forEach` goes to the length its array had when it began;
`addEventListener` appends to that array while `removeEventListener` makes a new
one; `abort()` in a handler does not stop the events of the `send()` it was called
from. A function of the SDK may open, send, abort, set handlers, add and remove
listeners, in any nesting, and an SDK that replaced `open` or `send` runs before
and after the shim's method, or instead of it (`CallMethod`).

`SigningPage` lets `drain()` turn the event loop at the two steps of the
initialisation that call it and at no other time. A bound on what the SDK calls
between two steps of the signer (`MaxOps`) keeps the instance finite.

### FakeWindow, SignedUrl, ShimCodecs, Scraping, RequestParameters, EventParser

The last four are operators, without state of their own: `MCTextFunctions` grows
an input element by element and checks at each what the operators make of it.
`FakeWindow` and `SignedUrl` are small state machines with a specification of
their own (`WindowSpec`, `RequestSpec`), which `MCTextFunctions` takes the steps of
up to a bound; both keep what was done as a history (`script`, `requested`), and
the property says what can be read in terms of that history alone.

* `FakeWindow` has what scripts stored (`target`, the function under the proxy;
  `apis`, the shim's `browserAPIs`; `globals`, what went to `globalThis`), one
  action for each way to store or delete, and the order in which a name is looked up.
  What it does not forgive: an assignment to a builtin has no effect, a stub that
  was replaced does not come back by `delete`, `window.name` is the name of the
  function under the proxy, `window.call` and `window.apply` are what every function
  inherits (`PrototypeProps`; `prop in target` finds these too), `window.prototype`
  can be assigned but not deleted (`Permanent`), and `globalThis.x = v` is not seen
  as `window.x`. `Object.defineProperty()` has no trap: what it defines lies in the
  target, in front of a stub of that name (`WindowDefine`). The sweep at
  `hybrid-fake-dom.js:906-931` makes the shim's own global variables builtins too. A
  value is an object, a function, a primitive, `null` or `undefined`, or falsy; the
  signer's `globalThis.byted_acrawler||window.byted_acrawler` goes by which it is
  (`Truthy`).
* `SignedUrl` has, of a URL, the two parameters of a signature; the SDK may open the
  request again and set headers, in any order. `sign()` looks in
  `_headers` for `X-Bogus` and `X-Gnarly`, where `setRequestHeader()` has stored
  the names in lower case, so the code under "Ensure the returned URL carries both
  params" (`qjs_signer.cpp:196`) is never reached and the URL is the one the SDK
  opened the request with.
* `ShimCodecs` computes with the numbers of characters and bytes. `atob()` strips
  the padding, looks up what is not there as -1, and so turns the last group of a
  padded text into three characters of code 255. A buffer that is part of a larger
  one is decoded whole.
* `Scraping` reads sequences of symbols. A symbol is a character a scan cares for
  or a whole word none looks into; one symbol stands for the four digits of
  `\uXXXX`. Of a character above 0x7f
  written that way nothing is left, as in the code, so the passing runs write such
  characters as they are; `unicode_escapes` is about the escapes. Counts of diamonds
  wrap at `int32_t` (`Int32`). `roomId` out of range throws, also when a good one
  follows. The first
  field of a name is taken at any depth, so `title` before `stream_url`, or `icon`
  before `name`, must not hold a field of that name: the instances have text that
  looks like one, which is escaped and is not taken. `clean_unique_id()` trims
  after it has looked for the `@`, so one behind a space stays (`SpacedName.cfg`).
* `RequestParameters` has characters as their codes, since their bits are what is
  encoded. The check is a reader of queries, written as a server reads them.
* `EventParser` takes of a payload whether it decodes and the fields it looks at;
  one that does not decode may have any of these, as protobuf leaves what it read
  before it gave up. An image is the list of its URLs; values are opaque.

## 3. Runs

| Run | Instance | What it shows |
|---|---|---|
| `dispatch_window` | 2 threads, 4 messages and id 0, window of 2, up to 6 deliveries | set and deque agree, eviction is oldest first, no repeat within the window. The window is overrun more than twice, so ids leave it and come back |
| `session_safety` | WebSocket only (all setup steps; and none of the optional ones, without backlog), polling only and dual mode; 3 messages, the last ends the LIVE; 2 runs, 1 in dual mode and with all setup steps; 1 `disconnect()` | callbacks and network serialised; the poll loop never skips, also after a fallback; alone it delivers every message directly after the one before; in dual mode neither transport returns for a failure; after a LiveEnd neither takes in more; flags go one way; `EventStream` is implemented |
| `session_ends` | dual mode, 2 messages, fair | `run()` returns after a stop request and after a LiveEnd |
| `ws_reassembly` | 3 connections, 2 messages each in up to 2 parts, control frames, 1 `close()` by the other thread | damage by reassembly is confined to leading parts; server order; `run()` uses no freed handle, and `close()` by the other thread none unless a `connect()` overlaps it |
| `signer_engine` | 2 runtimes, 1 failure anywhere, drains limited to 1 job and 1 timer, 2 timers, 1 job, 1 listener and the handler of one event, 3 calls of the shim between steps | the engine that signs is finished, current and kept; a failure costs at most one runtime; a drain ends, and empties the queue or has reached its limit; `TaskQueue` is implemented; each listener is called once; nothing that is deferred while signing runs |
| `text_functions` | names and URLs of up to 3 pieces out of 15, among them quotes, backslashes, braces, escapes and what looks like a field; up to 3 room ids; up to 5 bytes and 3 characters at the boundaries of the codings; scripts of up to 3 steps that assign, define and delete; a name of the LIVE in up to 6 pieces; up to 3 parameters with separators and percent signs in them; every kind of message, decoded or not | responses are read right; two string fields next to each other, of any text, are told apart and read; the room id; the codecs invert each other but for what `atob()` loses; what a name of the window means; which `byted_acrawler` the signer takes, and when it throws; the name of the LIVE is found in each of its forms; queries read back; events hold the fields of their type |
| `lost_disconnect`, `gift_list_race`, `dual_loss`, `ws_message_intact`, `ws_single_threaded`, `unicode_escapes` | small | six disagreements of code and documentation, section 6, where six more configurations show others |

**Why the bounds are enough.** Two messages are enough for a loss in front of a
delivery, a duplicate after it and a LiveEnd after both; the third lets
one transport be behind by one message while the other ends the LIVE.
`kMaxHandshakeFails` is 2 instead of 6: one failure that retries and one that gives
up. Two runs show what the first leaves behind (seen ids, `ws_ever_connected`, an
open socket after an exception). One `disconnect()` can fall between any two
steps of a run; a second one repeats its stores. Three connections let parts of
two earlier ones meet in the third. In the session runs `kMaxSeenIds` is at least
the number of messages, as it is in use (500000); eviction is the matter of
`dispatch_window` and of the proofs. `MaxRuns`, `MaxDisconnects`, `MaxConnects`,
`MaxCloses`, `MaxMessages`, `MaxParts`, `MaxDelivered`, `MaxRuntimes`,
`MaxFailures`, `MaxTimerId`, `MaxJobs`, `MaxOps` and `MaxLength` are bounds of the
models and nothing in the code. With two runtimes an attempt fails anywhere and
its retry succeeds (the proofs are for any number); two cookies are what it takes
to lose one. A second timer is what a limit of one leaves behind, for the drain
after it or for ever; three calls of the shim are enough to add a listener, remove
it in the middle of a `forEach` and open the request again. `session_safety`
is kept small by two constraints: a second run is made with one transport and the
least setup or with polling, and in it the LIVE does not end or nobody calls
`disconnect()` (`SecondRunIsSimple`); in dual mode the application's other thread
does not call `fetch_gift_list()` (`NoGiftListInDual`), which touches nothing that
the properties of this run look at.

**Deadlock** is checked everywhere. The session may rest when no run is in
progress or the process is gone, the WebSocket when neither thread is in it, the
signer when it is destroyed or its bound is reached, the inputs of
`text_functions` when they have their length; each has an explicit stuttering
action for that and for nothing else.

**Fairness** (`FairSpec`): weak fairness of `run()`'s thread, of the poll thread
and of a `disconnect()` that has begun. It says that the operating system
schedules threads, that `net_mu_` and `dispatch_mu_` are not withheld for ever,
that callbacks return, and that a network call answers or fails. Requests have a
time limit of 30 s (`http_client.cpp:175`), connecting the WebSocket one of 20 s, and the
sleeps are bounded. The upgrade of the WebSocket has none: `ws_client.cpp:60` sets
`CURLOPT_TIMEOUT` to 0, so that a server which accepts the connection has to answer
the upgrade or close it. That is an assumption about the server, and
`MCUntimed.cfg` checks `UntimedSpec`, the same without it, which fails (section 6). Else nothing is assumed
of the server: it may never publish, may fail every request, and the socket may drop
each time. `DisconnectSetsStop` and `Publish` have no
fairness, so an application that never stops gets no promise.

## 4. What is proved

`DispatchProofs` proves, for any threads, any messages and any window of at least
one id (`DispatchAssumption`), four theorems of `DispatchSpec`:
`DispatchTypeCorrect`, `WindowInStep`, `WindowHoldsLatest` and
`DeliveredOncePerWindow`, the invariants that `dispatch_window` checks.

The invariants are not inductive one by one. That a new id repeats nothing within
the window needs the window to be the latest deliveries (`WindowIsRecent`); that
the lookup in the set is a lookup in the window needs the two to agree
(`SeenInStep`); that erasing the front of the deque from the set keeps them in
agreement needs the deque to hold no id twice, which is what a lookup that found
nothing gives. Their conjunction with the type invariant, `DispatchInv`, is
inductive. Only `remember_id()` disturbs it, so the argument is in lemmas about
`remember_id` (one for the case that it evicts, one for the case that it does
not), and the steps that leave the window alone are one case.

`SessionProofs` proves five theorems of `LiveSession`'s `Spec`, for any set of
options, any messages numbered from 1, any `kMaxHandshakeFails` and any bounds
(`SessionAssumption`):

* `SessionTypeCorrect`;
* `SessionImplementsDispatch`: `Spec => DispatchSpec`. Every action of the session
  is an action of `Dispatch` or leaves its variables alone. What carries this is
  that a transport begins a delivery with a message of its batch, and that a
  thread which holds `dispatch_mu_` still has that message in front of it when the
  callbacks return. What is proved of the window then holds of the whole system;
  `SessionDeliversOncePerWindow` is that corollary;
* `NetStaysSerialized`, `CallbacksStaySerialized`.

The inductive invariant `SessionInv` is `DispatchInv`, `TypeOK`, a fact about the
server (`PublishedKnown`) and `ControlInv`, which relates the threads. The mutual
exclusions are not inductive by themselves because only half of the steps take a
mutex: the setup steps use the HTTP handle, and `Connect` and `Disconnect` run
callbacks, without one. What protects those is the structure of `run()`, and
`PollerPhase` says it: while the poll thread exists `run()` is in its WebSocket
loop or between that and the join, so in none of the unlocked steps. `NetOwned` and `DispatchOwned` say who holds which mutex where, which
serialises the other half. The message a transport takes next is the least of its
batch, written with `CHOOSE`; that it is a member is the well-foundedness of the
naturals (`FirstOfIsMember`).

`StreamProofs` proves, under the same assumption:

* `TransportsEndTogether`, for the invariant `TransportsOutlastFailures`: the poll
  thread exits, and the reconnect loop returns, only when a flag ends the run. The
  second half is stated where the loop returns, before `stop_requested` is stored for
  the poll thread, and rests on the loop not giving up in dual mode; that it stays true
  until then needs flags to go one way;
* `LiveEndEndsIntake`, for the action property `LiveEndStopsTransports`: once
  `live_ended` is set, a thread that has an empty batch and is past no check of the
  flags (`Settled`) stays so. A batch, a fetch or a receive under way may still bring
  messages, also such as come after the LiveEnd; the code allows that;
* `FlagsStayOneWay`, the action property which the reading of three atomics at once
  rests on. Only the first three stores of `run()` take flags back, and that the other
  steps do not needs to know which thread can be where (`ControlInv`);
* `SessionImplementsEventStream`: with no more messages than the window holds
  (`Cardinality(Messages) <= kMaxSeenIds`), `Spec` implements `EventStream`, over
  any number of runs. The hypothesis is the code's own limit: after 500000
  deliveries an old id may be forgotten and delivered again, which is what
  `SessionDeliversOncePerWindow` leaves open too. `StreamWhileWindowLasts` is the same for any messages, for as long as
  no more has been delivered than the window holds (`WindowSuffices`). The step that
  matters is a delivery: that the message is not in `delivered` needs the window to
  be all of `delivered` (`WindowIsHistory`, from `DispatchInv`), that the session is
  open needs `OpenPhase` and that a poll thread exists only in the WebSocket loop or
  the join of `run()`, which is `PollerPhase`. From a set of messages to the length of
  a history it takes a counting argument: a history as long as that, whose ids
  differ, has used them up (`DistinctDeliveriesFit`);
* `PollLoopSkipsNothing`, for `PollNeverSkips`: in any mode, after any failures and
  after a fallback, a poll loop with a cursor has handed to `dispatch_message()` every message
  from the initial fetch up to it. `PollInv` adds the batch: while one is
  being dispatched, each message between the loop's cursor and the one the batch came with is
  still in it or was delivered (`BatchCovers`), and the message whose callbacks run,
  which leaves the batch only afterwards, counts as delivered (`EmittingFirst`). A
  duplicate that the loop drops was delivered by someone, since all ids in the
  window were (`SeenWasDelivered`);
* `PollingLeavesNothingOut`, for `PollingGapless`: with polling alone, a window with
  room for all messages, and a cursor from the initial fetch, the first run of a
  client delivers the messages one directly after the other. `PollNeverSkips` does
  not give this: it allows any order, and says nothing beyond the cursor, where a
  batch that came without one leaves the loop behind its own deliveries. `OrderInv`
  says what then holds: what was delivered is an interval (`Consecutive`), each batch
  begins with messages that were delivered and goes on with the next
  (`BatchContinues`), and the cursor lies inside the interval or directly before it
  (`CursorTouches`), so a fetch that repeats messages can neither jump nor go back.
  The condition on the initial fetch is one of the code: without a cursor the first
  poll asks for whatever the server thinks is recent, and that may leave a gap.

`WsClientProofs` proves four theorems of `WsClient` for any numbers of
connections, closes, messages and parts:

* `WsTypeCorrect` and `NoHandleUsedAfterCleanup`, from `HandleInv` (`PointerIsAlive`). A handle is cleaned
  up only in a `connect()` that fails, which clears the pointer with it, so what the
  pointer holds is alive between two calls; the history `overlapped` says whether a
  `connect()` ran since `close()` began in the other thread. While none did, the
  pointer that `close()` tests is the one it passes to curl. With one,
  `WsHandleFreed.cfg` shows what happens;
* `MessagesKeepTheirOrder`, from `OrderInv`: the parts in `partial` and everything
  already returned lie before the part the server sends next (`BehindServer`).
* `DamageStaysConfined`, from `DamageInv`, for the property that no single step
  shows: what a message has of its own connection is an unbroken tail of one message
  of the server, and parts of earlier connections come before it, in the first
  message of a connection only. The parts that matter are still in `partial` when
  they go wrong, so the invariant says of those what the property says of what was
  returned (`PartialTail`): nothing in them is newer than the connection, those of
  the connection are consecutive, of the message the server is sending, up to the
  part before the next one, and once the connection has returned a message there is
  nothing foreign left.

`PageProofs` begins with the five properties of `Signer` itself, proved for any finite
set of cookie names and any bounds. `EngineInv` says at each point of a call what is
known of `rt`, `ctx` and `live`; its core is that `initialized_` goes with a
current runtime that has all its steps behind it. `LeakInv` counts: a runtime in
`live` is accounted for by a failure, but for the one that is being made or is in
use; the step that needs it is `NewRuntime`, which loses the runtime that the
failed attempt before it left in `rt`.

It then proves four theorems of `PageSpec`, for any limits and bounds:

* `PageImplementsSigner`: every step of the page is a step of `Signer` or leaves it
  alone, so the theorems of `Signer` hold of it;
* `DrainIsBounded`, `DeferredWorkIsLost` and `TimersAreTaskQueue`.

`LoopInv` is what they have in common. That timers run in order needs the ids in
the queue to be increasing, above the last that fired and at most `timerId`
(`Ordered`); appending the next id, removing one anywhere and taking the first all
keep that, which are lemmas about sequences. That nothing runs later needs to know
where `drain()` can be at all: only while the initialisation is at a step that
calls it, so not when `initialized_` holds, which is `EngineInv` of `Signer`.

`XhrProofs` proves `EveryListenerOnce` of `PageSpec`: an event calls the listeners
its array held when it fired, once each and in order, however they call one another
and whatever they add or remove meanwhile. `XhrInv` says it of every frame of the
stack: of a `forEach` under way, what its array held is still there and in its
place, and it has called all before the next one (`UnderWay`). That holds since
`addEventListener` only appends, to any array (`ArraysGrow`), and
`removeEventListener` puts a new array in the place of the old one instead of
cutting that (`WithoutIsList`). The rest is that a step changes the top of the stack
only, replaces it by frames that are under way again, or adds frames.

`TextProofs` proves, of the window, the request and the events,

* `NamesMeanWhatWasSet` and `AcrawlerIsFoundIfGiven`, of `WindowSpec`, for any
  tables of names, any names and values that scripts use, falsy ones included, and
  scripts of any length. The window has to be a function of its history: `WindowInv`
  gives `target`, `apis` and `globals` as what each step so far makes of them. The
  history has a last step of each kind (`HasLast`), as `Max` needs to mean anything;
* `HeadersNeverSign`, of `RequestSpec`, which says why `HeaderSignature.cfg` finds a counterexample: the
  names of headers are lower case (`toLowerCase`), so `_headers` has none of the two
  `sign()` looks for, and what is returned is the URL opened last (`RequestInv`);
* `EventsOfAnyMessage`, of the inputs of `text_functions`; the lemma it rests on,
  `EveryEventHoldsItsFields`, is about any message with any lists of URLs.

The rest of `TextProofs` and `DocumentProofs` are about functions that loop over data,
and prove of them, for inputs of any length,

* `QueryIsRead`: a server that reads `encode_query(params)` byte by byte gets the names
  and values of `params`, whatever bytes are in them. One byte reads back since a
  reader takes three characters of `%XY`, or one that is unreserved, and is then where
  it was (`ReadsEncodedChar`); the rest follows the nesting of the loops: a text
  (`ReadsEncoded`), a parameter with its separators (`ReadsParam`), a query;
* `TextRoundTrip`: `decode(encode(text))` is `text`, for texts of whole UTF-16
  characters (`Utf16Characters`). A character alone, or a surrogate with its pair, becomes
  one to four bytes of which the first tells how many follow, and its bits are put
  together again (`BasicPlane`, `OutsideBasicPlane`); before and after a character
  neither codec holds anything back, so characters do not disturb one another
  (`CharacterRoundTrip`);
* `BytesRoundTrip`: `atob(btoa(bytes))` is `bytes` up to the last whole group of three, then three
  times 255 if there is more. Four digits hold the 24 bits of three bytes
  (`SextetsAre`, `EightBits`); padding is stripped from a last group only
  (`StrippedIs`), which leaves as many groups of digits as there were of bytes, the last
  one short (`DigitsOfGroups`);
* `NameIsCleaned`: of a name of any length, in any of its forms, with any number of
  spaces before and after, `clean_unique_id()` leaves the name, and in front of it an `@`
  that stood behind a space. What is erased occurs once, where the form has it
  (`EraseOneOrNone`), and trimming ends where the spaces do (`HullIs`);
* `FirstPositiveIsRead`: of a page with any number of room ids, quoted or not, with any digits or
  none, `scan_room_id()` returns the first that is positive, or throws if that one is
  out of range. The key is found where the fields begin and nowhere else
  (`PagesAreLocated`), the digits at a place are those of its field, and what is least
  of the places comes from what is least of the fields;
* `StringIsRead`: wherever in a document a JSON string stands, `StringAt` yields the text
  that was written, in whichever of the ways a serialiser may write it (`Written`: as it
  is, behind a backslash, or as `\uXXXX` below 0x80; above that the code drops it). Symbols of a string are hidden or not piece
  by piece: a piece begins unhidden, hides each quote in it and leaves what follows
  unhidden (`WrittenHides`, `ClearAt`), so the first quote that none hides is the closing
  one (`StringEndIs`); and unescaping takes pieces as they were written;
* `FieldIsRead`: of an object with any number of string fields of differing keys, any
  text in each, `json_string_field()` yields for each key its text, and nothing for
  another key. The search has no parser: it takes the first `"key":"` of the document.
  A text that holds one holds its quotes behind backslashes, and those of a field have
  none, so each place found is where a field begins (`ObjectHasFields`);
* `QueriesReadBack`, `CodecsAgree`, `NamesCleaned`, `RoomIdsRead` and `FieldsAreRead`,
  which say that of the inputs of `text_functions`, so of `QueryReadBack`,
  `CodecsRoundTrip`, `UniqueIdCleaned`, `RoomIdRead` and `FieldsRead`.

The library states induction with an operator as parameter, which the provers cannot
instantiate. Here an induction is about a set instead, of the numbers (`NumbersBySet`)
or of the sequences (`SequencesBySet`) for which the claim holds; both follow from the
well-foundedness of `<`. That a recursive function has the values its definition
gives needs a function with those values to exist, which is the union of its
beginnings (`LoopHasValues`). Loops over growing inputs agree on the common part
(`LoopsAgree`), and with that each function of the modules gets a lemma that says what
one element more adds to it (`EncodedIs`, `QueryIs`, `ReadUpToIs`, `EncodeUpToIs`,
`DecodeUpToIs`, `FlattenIs`).

The assumptions on constants are those named in the modules (`DispatchAssumption`,
`SessionAssumption`, `WindowAssumption` and the like); TLC evaluates each of them in
the run of its module.
`WindowAssumption` says of the shim's tables what can be read in them: what is given
out behind a `safeProxy()` is among the browser APIs, what cannot be deleted is a
property of the function itself, `byted_acrawler` is in no table and no property of
functions. No relation between the tables and the properties of functions is assumed. `ScrapingAssumption` says that no digit is a
quote, a space, a comma or the key, that the four hex digits of a `\u` are neither quote nor
backslash and stand for one symbol or, above 0x7f, for none; `IdDigitsAssumption` says
that the digits of the instance are digits, `HexGroupsAssumption` what the two groups of
hex digits that its texts hold stand for.

Only model-checked:

* `ResponsesRead`, whose documents have arrays and objects in objects. Its strings are
  read by `StringIsRead`; that `ObjectEnd` finds the brace that closes an object, which
  needs the strings of a whole document to be found one after the other (`InStrings`) and
  braces to be counted between them, and that no field of an inner object is taken
  for one of the outer, has not been proved;
* `StopEndsRun` and `LiveEndEndsRun`, which are liveness under fairness;
* the configurations of section 6, which are counterexamples.

## 5. Not modelled

* TikTok's SDK scripts (`js/browser.sg.js`, `dw-index.js`, `webmssdk*.js`,
  `secsdk-lastest.umd.js`): third-party, minified or compiled to the bytecode of
  a virtual machine of its own, and more than nine tenths of the repository's
  JavaScript. What they compute is left open; what they may do to the shim and
  through it is in `SigningPage`, `FakeWindow` and `SignedUrl`. The share of the
  JavaScript that the map covers is small for that reason: the rest of it is
  `hybrid-fake-dom.js`, of which most lines are tables of constants and empty
  functions.
* Of the shim: the element tree, storage, `fetch()`, events other than those of
  the request, and the objects that answer with constants (canvas, WebGL,
  navigator, screen, performance); of `safeProxy()`, its traps: only that what it
  returns is truthy and callable is used.
* Of the scraping functions: `gunzip()`, which is zlib; what `std::stoi()` makes of four characters after
  `\u` that are no hex digits (it throws, or reads fewer); a number in
  `json_int_field()` that does not fit `int64_t`, which is undefined behaviour that
  no property would tell from another wrong number.
* Of the shim's window: properties with getters or that cannot be changed, `caller`,
  `arguments` and `fileName` of functions, deleting from `globalThis`, and a script that
  replaces `globalThis.window`.
* What `raw_sink` is given; who calls it is in `LiveSession`.
* `HttpClient`: a thin wrapper of libcurl; who may be in it at once is
  `UsesNet` in `LiveSession`, its cookies are in `Signer`.
* Of `web_defaults.cpp`: the lists of constants, and `ca_bundle_path()`, which looks
  for files and keeps the answer; the decoding of protobuf itself; the demo, the
  build, the schema generator.

## 6. Where code and documentation disagree

TLC ends each of these with a counterexample. The first six are runs of
`PROJECT.json`, which quotes the lines in full:

1. **`lost_disconnect`** (`client.cpp:751`). A `disconnect()` that overlaps the
   start of `run()` is undone by the three stores `run()` begins with; `run()`
   then blocks until the LIVE ends. `client.hpp:93-94` says that it pumps "until
   the stream ends or ``disconnect()`` is called".
2. **`gift_list_race`** (`client.cpp:940`). `fetch_gift_list()` on demand uses the
   HTTP handle without `net_mu_`, which the comment at `client.cpp:212-215`
   requires of "every network/signing operation".
3. **`dual_loss`** (`client.cpp:855`). A LiveEnd over the socket ends the poll loop
   before it fetched what the socket lost; `client.hpp:21-24` promises that "the
   count stays accurate even if one transport misses a message".
4. **`ws_message_intact`** (`ws_client.cpp:34`). `partial` is not cleared when a
   connection ends, and what is in it is prepended to the next connection's first
   message; `ws_client.hpp:39-41` promises "one complete binary message".
5. **`ws_single_threaded`** (`client.cpp:928`). `disconnect()` closes the socket
   from its own thread while `run()` may be in curl with the same handle;
   `ws_client.hpp:17-18` says "Single-threaded usage".
6. **`unicode_escapes`** (`client.cpp:105`). `\uXXXX` above 0x7f is dropped; the comment
   at `client.cpp:104` says "non-ASCII: keep as-is (URLs are ASCII anyway)". The property
   accepts the character as well as the six characters as they are.

The next six have their configuration here, to be run in the same way
(`tlc -config X.cfg M`):

7. **`HeaderSignature.cfg`** of `MCTextFunctions` (`qjs_signer.cpp:191`), property
   `BothParamsCarried`. A signature in a request header is stored under a lower-case
   name and never found; the comment at `qjs_signer.cpp:196` says "Ensure the returned
   URL carries both params." The theorem `HeadersNeverSign` says so for any headers.
8. **`SignerCookies.cfg`** of `Signer` (`hybrid-fake-dom.js:112`), property
   `SignsWithSameCookies`. `set_cookies()` assigns the whole Cookie header to
   `document.cookie` and the shim keeps the first pair; `qjs_signer.hpp:29-30` says "so
   the SDK signs with the same cookies as the HTTP client".
9. **`SpacedName.cfg`** of `MCTextFunctions` (`client.cpp:55`), property
   `UniqueIdStripped`. The `@` of `" @name"` stays; the comment at `client.cpp:49` says
   "Strip URL prefixes / @ / /live suffix."
10. **`MCRawSink.cfg`** of `MCLiveSession` (`client.cpp:828`), property
    `SinkFromClientThread`. In dual mode the poll thread calls `raw_sink`, also while the
    thread of `run()` does; `client.hpp:59` says "Called from the client thread".
11. **`MCUntimed.cfg`** of `MCLiveSession` (`ws_client.cpp:60`), property `StopEndsRun`.
    The WebSocket upgrade has no time limit and looks at no flag: a server that leaves
    it unanswered keeps `run()` from returning after `disconnect()`, against
    `client.hpp:93-94` as in 1.
12. **`WsHandleFreed.cfg`** of `WsClient` (`ws_client.cpp:128`), property
    `HandlesInUseAreAlive`. After a callback threw, `connected_` is still set when the
    next `run()` connects, so `close()` from `disconnect()` passes curl a handle that a
    failed handshake cleans up at the same time; it also reads the pointer again after
    its test. `client.hpp:98` offers `disconnect()` "from another thread".

One more follows from an invariant that holds, and has no configuration:

13. A message whose `msg_id` is 0 never enters the window (`DispatchTypeOK`;
    `client.cpp:498`), so each transport of dual mode delivers it; `client.hpp:21-23`
    says "every message is de-duplicated by its server msg_id and delivered to callbacks
    exactly once".

## 7. Plan

Done: all modules of section 2; every safety property that a passing run checks is
a theorem, but for `ResponsesRead`, see the end of section 4. What is left:

1. **What dual mode delivers**: polling alone is complete (`PollingGapless`), WebSocket
   only is not, between drop and reconnect, and `dual_loss` shows where dual mode is
   not either. What it does cover, until a LiveEnd comes over the socket, is not
   stated yet; `PollInv` has most of it.
2. **Objects in objects**: that `ObjectEnd` finds the end of an object and `ArrayObjects`
   those of an array, for any document, by the induction of `DocumentProofs`.
