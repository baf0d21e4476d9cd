# jsocketio: specifications, model checking and proofs

jsocketio is a socket.io 0.9 server for Java EE containers (a servlet for the
HTTP side, a JSR-356 endpoint for the WebSocket transport) that ships the
socket.io 0.9.10 browser client. This directory holds TLA+ modules translated
from its source, the TLC configurations that check them on small instances, and
TLAPS proofs of what holds for every instance.

## 1. Inventory

Server paths are relative to `src/src/at/jsocketio`.

| Part | State it keeps | Operations | Interacts with |
|---|---|---|---|
| `core/TimeoutTask`, `core/websocket/WebSocketTimeoutHandler` (heartbeat clock) | `value` (AtomicLong), `future`, `duration` | `run`, `resetTimeout`, `sendHeartbeat`, `timeout`, `setScheduledFuture` | called by the managed executor and by `WebSocketHandler.message`; sends on the session; calls @WhenTimeout |
| `core/websocket/WebSocketHandler` (one instance per connection) | `timeoutTask`, `timeoutTaskHandle`, the session | `open`, `message`, `close`, `cleanup` | container callbacks; executor; `SessionMap`; dispatch |
| `core/SessionMap`, `core/websocket/WebSocketCloseHandler` | session id -> close handler, `mapLock` | `add`, `remove`, `close` | shared by every connection and every HTTP request |
| `core/SocketIOServlet` | `config` string | `init`, handshake, forced disconnect, `socket.io.js` | `SessionMap.close`; `HandlerMap.register` |
| `core/HandlerMap`, `core/utils/InvokeMethod`, `CDIUtils`, `TypeConversionUtils` (event dispatch) | event name -> handler classes | `register`, `get`, `invoke...` | application beans |
| `api/Frame`, `api/EventObject`, `SocketIOFrameDecoder/Encoder`, `com/glines/.../SocketIOFrame` (frame codec) | none | `parse`, `encode` | both ends of the wire |
| `core/SocketIOConfiguration`, `SocketIOServletInitializer` | servlet parameters, executor | `init`, `onStartup` | container |
| `resources/socket.io.js`, `Socket`, `Transport`, WebSocket transport | socket flags, reconnection counters, timers, buffer | `connect`, `handshake`, `disconnect`, `reconnect`, `packet`, the events of WebSockets and timers | the server; transports and namespaces by calls and events |
| `resources/socket.io.js`, `SocketNamespace`, `Flag` | namespaces, acknowledgment counters and callbacks, flags | `of`, `send`, `emit`, `disconnect`, `onPacket` | the application; `Socket.packet` |
| `resources/socket.io.js`, polling transports (XHR, XHR polling, JSONP, htmlfile) | requests under way, close timers | `open`, `ready`, `get`, `post`, `onData`, `onClose` | `Socket.setBuffer`, `onConnect`, `onDisconnect` |
| `resources/socket.io.js`, parser | none | encode and decode packets and payloads | transports |
| `resources/socket.io.js`, `EventEmitter` | `$events` | `on`, `once`, `removeListener`, `removeAllListeners`, `listeners`, `emit` | base of sockets, namespaces and transports; listeners call back into it |

A message of the application goes through all of it: `SocketNamespace.send`
makes a packet, `Socket.packet` sends or buffers it, the transport puts it on the
wire as text, `SocketIOFrame.parse` makes frames of that, `WebSocketHandler.message`
resets the clock after it has handed each frame to `InvokeMethod`, which calls the
handler classes that `HandlerMap` has for it.

What is hard here is concurrency on the server (three kinds of threads per
connection and one lock that is held over application code), identity (a socket
is named by the id of the HTTP session, which two sockets may share), failure
halfway (exceptions that skip the second half of a handler), and timing on both
sides (heartbeats, reconnection). The list of hazards, each at its line with the
properties aimed at it, is in `PROJECT.json`.

What makes each part correct:

* heartbeat clock: gives up only a silent client, only after probing it, once;
  never dies silently; ends by itself;
* connection handler and session map: a live connection can be reached, a closed
  one leaves nothing behind (task, map entry), nobody waits for ever;
* dispatch: every handler that matches is called once, a failing one harms no
  other, and nothing is dispatched before the server has started;
* codec: what one end encodes the other decodes, whatever the data hold that the
  format can carry;
* client: no state in which it neither is connected nor will ever try; what is
  emitted while disconnected is sent once, in order;
* namespaces: an acknowledgment calls the callback of its own message, once;
* polling: one POST at a time, a GET or a timer while the transport is open,
  nothing from a transport that is closed;
* emitter: listeners that change the list under an emission disturb nobody.

## 2. Modules

| Module | What it is |
|---|---|
| `Watchdog` | abstract: what the heartbeat clock promises |
| `TimeoutTask` | the clock of one connection, step by step; implements `Watchdog` |
| `TimeoutTaskProofs` | theorems about it |
| `WebSocketSessions` | connections, session map, forced disconnects |
| `MCWebSocketSessions` | instances for TLC |
| `WebSocketSessionsProofs` | theorems about it |
| `Dispatch` | the start of the server, the handler map, dispatch of frames to handler classes |
| `MCDispatch` | its applications for TLC |
| `DispatchProofs` | theorems about it |
| `ClientSocket` | the client's socket, its transport and its WebSockets |
| `ClientSocketProofs` | theorems about it |
| `ClientNamespace` | namespaces, acknowledgments and flags, over one socket and its wire |
| `MCClientNamespace` | its worlds for TLC |
| `ClientNamespaceProofs` | theorems about it |
| `PollingTransport` | the transports that work with HTTP requests, and the socket's buffer |
| `PollingTransportProofs` | theorems about it |
| `EventBus` | abstract: what an event emitter promises |
| `EventEmitter` | the client's EventEmitter; implements `EventBus` |
| `EventEmitterProofs` | theorems about it |
| `PacketCodec` | the client's parser, as operators on texts |
| `SocketIOFrame` | the server's parse and encode, as operators on the same texts |
| `FrameCodec` | both ends of the wire format |
| `FrameCodecProofs` | theorems about them |
| `MCClientLibrary` | `EventEmitter` and `FrameCodec` for TLC |

`FrameCodec` composes `PacketCodec` with `SocketIOFrame`; `Dispatch` composes the
servlet's thread with a connection's; `WebSocketSessions` composes connections,
clocks and requests over the shared map; `ClientNamespace` composes namespaces
with the socket's buffer and a server. `Watchdog` and `EventBus` are the abstract
specifications, used with INSTANCE.

Definitions whose comment starts with "Mutated" belong to no specification: each
is a plausible mistake in the definition of the same stem. `PROJECT.json` pairs
every property with one, which TLC refutes when it is put in the place of the
original, so that no property holds only by the shape of the model.

### TimeoutTask

State: the AtomicLong (`value`), the executor's thread in `run` (`run`), the
ScheduledFuture (`future`), whether `WebSocketTimeoutHandler.future` has been
assigned (`handlerFuture`), the session, and the message thread. `quiet`,
`probes` and `timeouts` are history. If the dispatch of @WhenTimeout throws,
`timeout()` tries to close the session; that may throw, too (`CloseAbnormally`): a
`CloseReason` takes 123 bytes at most, and only IOException is caught. The session
then stays as it is, and the exception, not the cancel, ends the task.

One step of the model is one shared access: `addAndGet` with the (purely local)
branch on its result, the send, the call of @WhenTimeout, the cancellation, the
reset. Hence a reset may come between what `run` decided and what it does. Three
things the Java memory model and the container allow are choices: the plain field
`future` may be read as null by the executor's thread at any time; a send on an
open session succeeds or fails in one of the ways of `SendFails` (IOException,
which `run` catches, or a RuntimeException such as the IllegalStateException of
concurrent sends, which ends a fixed-rate task); a send on a closed session
fails. `Malformed` says whether a message may hold EVENT or JSON data the parser
rejects, whose exception leaves `message()` before the reset. `mishaps` is the
history of the two: `OpenIsWatched` and `DeadMeansQuiet` hold as long as they have
not happened.

### WebSocketSessions

For every connection: the session (`ws`), the container's thread in `open` or
`message` (`cb`), `@OnClose` (`oc`), the task (`task`) and the executor's thread
(`tm`); shared: the map (`sessions`), its lock (`mapLock`) and the request
threads (`http`, `subject`). A step is again one shared access.

* The container is external: callbacks of one connection do not overlap; a thread
  that calls `session.close()` on an open session runs `@OnClose` itself before
  `close()` returns (`Close`, and the program counters `aborting` and `closing`);
  when the other side closes, the container calls `@OnClose` once no callback is
  running; a second `close()` returns at once. Messages reach a connection only
  after `open` has returned normally. That a nested `@OnClose` starts together with
  the close is the container's doing, not the code's; no property is about it.
* `cleanup` appears twice, in the CLOSE frame and in `@OnClose`, as its three
  steps: remove, cancel, close.
* The map's lock: `add` and `remove` are single steps that need it to be free;
  `SessionMap.close` keeps it from taking the handler out until the nested
  `@OnClose` has returned, and that one may take it again.
* Of `TimeoutTask` only the branch of each period is left, as a choice: what
  matters to the map is that a probe or a timeout may happen.
* `Sid` gives each connection the session id of its URL. The handshake hands out
  the id of the HTTP session, so a client that reconnects, or a second page of the
  same browser, gets the same id: the runs have both cases.
* `Faults`: @WhenConnect or the CONNECT frame fails, the dispatch of @WhenDisconnect
  throws (the methods' own exceptions are caught; what the lookup of a bean throws is
  not), the session is closed from within `open`.

### ClientSocket

JavaScript runs one event at a time, so one event (a call of the application, an
answer to a handshake, a timer, an event of a WebSocket) is one action. What the
handler does is a composition of operators from state to state, one for each
function of `socket.io.js`, which is why the state is one record. An exception
that leaves a handler keeps what was done before it: the field `threw` ends the
composition there. Each WebSocket ever opened has its own state, since the events
of one that is no longer `this.transport` still reach the socket. Time is left
out: a pending timer may fire at any moment. The server offers "websocket" only,
so the list of transports is either there or used up (`transports`). `sent`,
`emitted` and `down` are history. The default options are assumed (reconnect, no
manual flush, several transports allowed); there is one namespace; the listeners
of the application do not call back into the socket.

### Dispatch

`servlet` is `SocketIOServlet.init` in its steps (configuration, one step for each
`HandlerMap.register`, executor lookup) with the map it fills; `conn` is a
connection's thread in `open` and `message`; `loop` is the loop of `InvokeMethod`
over handler classes that runs or ran last, one step for each class. An application
is a record: the pattern and the annotated methods of each class, the classes that
give no bean, the patterns that match "message". Registering goes on while
`open` reads the live view of all classes without the lock: from the first new
class on, the loop may miss classes, meet them, or end with a
ConcurrentModificationException. `register` makes a new `Pattern`, which equals no
other: after an init whose lookup failed, the next one registers everything again.
A method that throws is caught; a missing bean, an exception of its lookup and a
parameter that cannot be made end the loop (`cut`); in `open`, an exception of the
loop ends the connection (`LoopThrows`). Which value a parameter gets is left out.

### ClientNamespace

Two namespaces over one socket: `c` holds what the client keeps (namespaces, flags,
counters, callbacks, buffer), `wire` the packets under way, `server` what the
server has read. `world` is chosen at the start: the kinds of messages that are
sent, whether sends may throw (a transport that is not there or still connecting),
and whether the transport polls. If it does, a packet or a flush that it takes sets
`doBuffer`, and `TransportPosts` is `setBuffer` as the transport calls it, when a POST
begins or is answered. Each operation of the application is one action, with the
flag, `send` or `emit`, `packet` and `Socket.packet` that it goes through;
`UserDisconnects` includes `of('')`, which may make the root namespace, and its packet,
which may be buffered or throw. The wire keeps the order of what is sent: `ClientSocket`
and `PollingTransport` say when a transport does.

### PollingTransport

One module for four transports that share `Transport`, `XHR` and the socket's
buffering: where they differ, the operators ask for the kind of the browser, which
is chosen at the start. Requests have a life of their own: a POST is taken by the
server and answered, or fails, at any later moment, also after its transport was
closed; a GET that was forgotten (`orphans`) still has its handlers; a JSONP POST
loses its callback when its iframe is replaced (`deaf`). `ready` may defer the
opening, which opens whatever transport is current then.

`connect()` asks for `connecting` only. Called on a connected socket it replaces a
transport that stays open, whose requests and close timer meet the next one; the
handshake between the two (`requests`) is an event of its own. The connect timeout
ends `connecting`, may use up the list of transports, and leaves the transport open,
whose late answer still connects the socket. Of the four, only htmlfile has heartbeats
(`heartbeatTimer`); it answers the server's with a POST of its own, whether or not one is
under way. Of a reconnection, the flag and its calls of `connect()` are kept
(`ClientSocket` has the rest), with the last attempt's transport, which is made and
not opened. History: `stale`, that an answer ended the buffering of another request's
messages; `dropped`, that a listener threw when no close timer was set; `revived`, that
a transport connected the socket which was not its current open one. The properties
name these where the code does not keep its promise. The listeners of the application
do not call back into the socket.

### EventEmitter, FrameCodec

`EventEmitter` has one action per method; a listener runs between the step that
calls it and the return of its emission, so that every other action may come from
within it; its exception ends the emissions up to the listener that catches it. `PacketCodec` and `SocketIOFrame` are operators on texts, sequences of
small numbers that stand for the characters the format uses; `FrameCodec` is the
writing, sending and reading of bounded payloads. JSON is opaque: a value between
two marks that may hold any other character, among them U+2028 and U+2029
(`LineEnd`), which JSON.stringify leaves as they are, and where the expression that
reads an acknowledgment (1182) stops. Namespaces may have a colon in their name.

## 3. Runs

| Run | Instance | Shows |
|---|---|---|
| `timer_hostile` | all failures | `TypeOK`, `AtMostOneTimeout`, `OpenIsWatched`, `DeadMeansQuiet`, `ProbedBeforeTimeout`, `SilentClientEndsTask`, refinement `ImplementsWatchdog` (with fairness) |
| `timer_reset` | malformed data | violation: not every message resets the clock |
| `sessions_same` | 2 connections, one id, 1 disconnect, callbacks that fail | `TypeOK`, `LiveIsRegistered`, `NoZombieEntry`, `DisconnectExcludesAdd` |
| `sessions_live` | 1 connection, 2 disconnects, all faults | `NoTaskAfterClose`, liveness: `DisconnectReturns`, `OnCloseReturns`, `ClosedStopsTask` |
| `sessions_disconnect` | 2 connections, one id | violation: a forced disconnect finds nothing though a socket of the session is up |
| `dispatch` | 2 classes, 2 patterns, 2 inits, messages of 2 frames | `AnnouncedOnce`, `LiveMeansReady`, `EachHearsOnce` |
| `client_buffer` | 3 WebSockets, 2 messages | `SentInOrder` |
| `client_reconnect` | 2 WebSockets, 1 message, 1 attempt, refused handshakes | `TypeOK`, `ReconnectionIsDriven`, `ConnectingEnds`, liveness `ReconnectionEnds` |
| `client_disconnect` | 2 WebSockets | violation: disconnect() leaves the socket connected |
| `namespaces` | 2 namespaces, 2 messages, 2 connections; sends that throw, a polling transport | `TypeOK`, `AckOfItsMessage`, `CalledOnce`, `CallbackWaits`, `JsonAsAsked`, `JoinedFirst` |
| `library` | emitter: 2 events, 2 functions, depth 2; codec: texts of 3 characters alone, of 1 in payloads of 2 | `TypeOK`, refinement `ImplementsEventBus`; `RoundTrip`, `ServerUnderstands`, `ClientUnderstands` |
| `polling` | 4 kinds of transport, 2 transports, 2 messages, 1 heartbeat | `InOrder`, `NoDuplicates`, `PolledOrTimed`, `ClosedIsQuiet`, liveness `BufferDrains` |

`library` runs two parts that share no state; `part` says which of them a behaviour
is of, so that their states add and do not multiply.

Bounds. The clock needs none: its state is finite because a task ends at its
fourth period. Its values are multiples of the period, so any period stands for
all (the runs use two). Two connections are enough for one to overwrite or
remove the entry of another; one request for the lock to be held over @OnClose of
the first while the second waits in `add` or `remove`; two requests for one to
wait for the other. A connection lives once, a request is served once; the bound
on connections is what ends a run, and deadlock checking is off for that reason
(a thread that waits for ever is caught by the liveness properties). With one id
for all connections the case of an id each is there as well: one of the two may
never open.

In `dispatch`, two classes let a class be called before or behind one that lacks
the method or the bean, under the same pattern or another; two inits let one fail;
two frames let one come behind a CLOSE. A class lacks at most one method, since a
loop looks for one. In the client, two
WebSockets let every event of an old one meet every state of its successor; for a
message to overtake another, a third one must open (its `onopen` flushes what a
late close of the first left buffered); two
messages are enough for one to overtake or be repeated; one attempt leads through
a regular attempt and the last one. One handshake is pending at a time, and one
reconnection timer at most that nobody can clear. Two messages in two namespaces
have equal or different ids; two connections let one be lost or wait between them;
wire and buffer hold three packets, which is a connect packet and two messages. The
polling world sends plain messages only, the throwing one events: what a POST or a
failed send does to a packet does not depend on its kind. Two emissions nested in one another with two
listeners each reach every change of a list under an emission. Texts of three characters,
over a digit, the three delimiters, the mark of JSON and the end of a line, hold every
pair and triple of them, at the beginning and the end; ids have one digit and two,
endpoints are empty, plain or with a colon. Two polling transports let everything late
of the first (answers and failures of its POSTs and GETs, its close and connect
timers) meet every state of its successor; two messages are enough for one to overtake
the other, and the heartbeat makes a POST besides theirs. Symmetry is used where names are only compared (classes
and patterns, events and functions); ids and targets of sessions are fixed by the
instance.

Fairness. The executor calls a live task once per period (weak fairness of
`Run`); calls of the application, of a send and of the container return (weak
fairness of the steps behind them). A message has finitely many frames (strong
fairness of `MessageReturns`, which CLOSE frames would otherwise postpone for
ever). The lock is not fair, but contention is finite: weak fairness is enough.
In `WebSocketSessions` a task on a closed session comes to its timeout (strong
fairness of `RunTimeout` there): that is `SilentClientEndsTask` of `TimeoutTask`.
No fairness on clients, on closing or on messages.
In the client, pending timers fire, a handshake is answered somehow (an
XMLHttpRequest ends), and a WebSocket that is being closed gets its close event;
that a WebSocket opens or that the server speaks is not assumed, and
`ReconnectionEnds` supposes that the application does not keep calling connect().
In `PollingTransport` a browser ends every POST somehow; nothing else is fair.

## 4. Proofs

All theorems hold for every value of the constants.

`TimeoutTaskProofs`. The inductive invariant `IInv` adds to `TypeOK`: the clock
shows a whole number of periods and the fourth only after the timeout
(`WholePeriods`); before the timeout `run` is idle or probing, after it `run` is
inside `timeout()` or the task has ended (`OneTimeout`), without which a fifth
period could be counted; and how many probes lie behind each count (`Probed`). It
gives `TypeOK`, `AtMostOneTimeout`, `ProbedBeforeTimeout` and, with
`value \div Duration` as the abstract count, that every step of the clock is a
step of `Watchdog` or a stutter (`Refinement`). `DeadMeansQuiet` and
`OpenIsWatched` need what the clock has counted since the client was last heard
(`CountedInv`): as long as no message failed to parse, and no heartbeat ended the
task with an exception.

`WebSocketSessionsProofs`. `IInv` ties the lock to the request that holds it and
its session's slot to emptiness (`LockInv`), a handler in the map or in a
request's hand to a connection past `open` (`OpenInv`), `@OnClose` to a closed
session (`CloseInv`) and the task to `open` and `@OnClose` (`TaskInv`).
`LiveIsRegistered`, for a connection that is alone with its id, is inductive under it. `NoZombieEntry` also needs `AbortInv`:
an `@OnClose` that a connection meets inside `open` ends with an exception; it is
proved for applications that do not close a session from within `open`.

`DispatchProofs`. `ServletInv`: an init registers each pattern once, and the executor
is looked up behind the last registration, so that a connection that got its clock
(`ConnInv`) found everything registered: `LiveMeansReady`. `HeardInv`: as long as the
map does not change under the loop, what a class has heard and what is left for it
make up what is due to it; at the end nothing is left, which is `AnnouncedOnce` and
`EachHearsOnce`. `CalledInv` bounds the calls, for the type.

`ClientSocketProofs`. What a handler does is a composition of operators on one
record, so the parts of `IInv` are predicates of a record and every operator has a
lemma that says which parts it needs and which it gives. `Attempted`, `Chosen` (a
socket has a transport from its first WebSocket on, unless they are used up) and
`Ordered` hold throughout an event; `Driven`, `Ending` and `Waiting` (a buffer that
holds messages while connected and not buffering has no open transport) may be lost
inside an event and are restored before it ends, whether or not it throws. `Ordered`
is about one line of messages, on the wire and behind it in the buffer.
`Waiting` is why a message that is sent at once cannot overtake one in the buffer.
`ReconnectionIsDriven` needs `Chosen`: `reset` throws if there is no transport, which
happens only when the transports are used up.

`ClientNamespaceProofs`. For acknowledgments: the callbacks of a namespace are those
of different messages (`Registered`), its counter is never behind an id (`Counted`),
and every packet with an id that is buffered, on the wire or read finds its callback
under that id until it was called (`Awaited`). For joining: on the first connection,
the packets on the wire, those that the event under way adds to it, and the buffer
behind them make one line in which the connect packet of a namespace comes before its
messages (`Ready`); a polling transport moves packets along that line only. For the flag:
`AsAsked`.

`PollingTransportProofs`. For the connection: a transport that is not made yet does
nothing, and there is a current one unless none was made or the list is used up
(`Fresh`); a request is forgotten only where opens wait for the page (`NoneForgotten`);
where they do not, none of XHR polling outlives its transport (`Quiet`); and `Polled`.
For the messages: what may be sent does not wait (`Buffered`), each is in the buffer or
in one POST, in order (`Ordered`), a POST under way that has messages is the last such
of its transport and, if that is the current one, makes messages wait (`OneAtATime`,
while no answer of another request has ended the buffering), and what the server has
came in a POST that it took (`Got`).

`EventEmitterProofs`. `WrappersInv`: each call of `once` makes a wrapper of its own, so
no list has one twice. `ImplementsEventBus` is proved step by step: the bus sees the
list that `$events` stands for, whether it is kept as nothing, a function or an array
(`Fits`), and `removeListener`, which takes the first match out of a copy, removes what
the bus drops (`RemoveTakesFirst`).

`FrameCodecProofs`. The codec's functions call themselves at one earlier place
(`Decimal` at `n \div 10`, `DecodePayload` and `ParseFrames` behind the packet they
have read), and their properties hold for texts of any length. The library's induction
theorems cannot be instantiated, so both principles are proved here for sets and
functions instead of operators: `Descent`, that a set which holds the base and inherits
membership from an earlier place holds all places, and `Recursion`, that the recursive
function exists and has its type, both from the least element of a set of numbers
(`Least`). `LaidOut` says where the parts of a packet stand in its text, `TheMatch` that
the pattern's leftmost match is at its first two colons, `DataRoundTrip` that each type's
data fragment is read back: together `PacketRoundTrip`. In a payload the blocks stand one
behind the other (`Offsets`), and from the place of each the decoder reads the packets
from there on, by induction from the last one: `PayloadRoundTrip` for the client,
`PayloadServed` for the server. `IInv` adds that the payload is the text of what was
written, and what was decoded and parsed is what the decoders make of it, which gives
`RoundTrip`, `ServerUnderstands` and `ClientUnderstands`. The round trips ask of a packet
that it is one the client can write (`IsPacket`: any text, id, acknowledgment and
endpoint) and that the format can carry it (`Legible`): no colon in the endpoint, and no
line end in the arguments of an acknowledgment. Packets that it cannot carry may stand
beside it in the payload: they are misread, each in its own place.

Only model-checked: liveness, and the fairness part of the refinements (no prover
for ENABLED is at hand). `BufferDrains`, `ReconnectionEnds`, `SilentClientEndsTask`,
`DisconnectReturns`, `OnCloseReturns` and `ClosedStopsTask` are of that kind.

Assumptions on constants: a positive period; `SendFails`, `Malformed`, `Refuses` and
`Faults` are of their types; `Sid` and `Target` are functions to session ids; `None` is
no connection and no request; `Apps` and `Worlds` are sets of records of their types,
`Kinds` of kinds of transports; `Root` is a name; every bound is a natural number.
Bounds are parameters here: the theorems hold for each value of them.

## 5. Findings

* `timer_reset`: WebSocketHandler.java:189 says every message resets the clock; a
  malformed EVENT or JSON frame does not.
* `sessions_disconnect`: socket.io.js:1849 counts on the forced disconnect to
  "ensure disconnection"; sockets that share an HTTP session share a map entry, so
  it may find nothing, or another socket.
* `client_disconnect`: socket.io.js:1835 says disconnect() handles the
  disconnection immediately; it throws before it does so if the current transport
  is missing or still connecting, and the socket stays connected.

Other behaviour the modules show and no document contradicts: after a timeout
whose @WhenTimeout methods return, the session stays open and registered, with no
clock, and so it does if the dispatch threw with a message too long for a
`CloseReason` (WebSocketTimeoutHandler.java:71); a session closed from within `open` can be registered after its @OnClose
and then stays in the map; a RuntimeException of a send stops the clock of an
open session. In the client, the transports that a connect timeout uses up are
never restored (`origTransports` is the same array), after which no connection is
made and a reconnection polls for ever; a handshake refused with 403 leaves
`connecting` set; if the handshake of a reconnection's last attempt fails,
`reconnecting` stays set and nothing retries. `ConnectingEnds`,
`ReconnectionIsDriven` and `ReconnectionEnds` exclude just these.

More of the kind, from the modules of the client and the dispatch:

* `disconnect()` of a namespace leaves it in `socket.namespaces`: a reconnection
  joins it again, and `of()` does not (1568, 1999).
* The flag `json` survives a send that throws and reaches the next message (2131);
  on later connections `onConnect` flushes the buffer before `reset` joins the
  namespaces (1896). `JsonAsAsked` and `JoinedFirst` exclude these.
* A listener of `once` may be called twice if an emission within an emission
  calls it first: the outer one has its copy of the list.
* `SocketIOFrame.parse` promises to ignore what it cannot parse (line 100); the
  exceptions of `Integer.parseInt` and `substring` leave it, and the whole message is
  lost: so for an event that is sent with a callback, whose id is written "1+". A
  packet without data is read from the wrong place. `ServerUnderstands` is about the
  others.
* The arguments of an acknowledgment that hold U+2028 or U+2029 decode to `[]` (1182),
  and a colon in the name of a namespace (1567) is read as a delimiter. `RoundTrip` and
  `ServerUnderstands` are about the others.
* The answer of a POST whose transport was closed, or replaced by `connect()` while it
  was open, and that of a heartbeat end the buffering while messages are under way; an
  open that was deferred may open a transport twice, which makes two POSTs overlap and
  two GETs: the forgotten one can even connect a socket that was closed. JSONP delivers
  what comes in after a close, and so does htmlfile if a failed POST closed it (1446),
  since only `close()` takes its iframe away (3386). `InOrder` and `ClosedIsQuiet` name
  these.
* After a connect timeout has given up, `onData` does not set the close timeout again
  (1293); a listener that throws then leaves an open transport, which the same answer
  may have connected, with neither GET nor timer (`dropped` in `PolledOrTimed`).
* If a transport that was replaced or closed connects the socket, or the heartbeat's
  POST of a replaced one fails after a connect timeout, buffering is on with no POST
  under way that would end it: `BufferDrains` excludes these, and a list of transports
  that is used up.
* After an init whose executor lookup failed, each handler is called twice for an
  event. A client that comes with an old id before the first request has started
  the servlet may not be announced, and usually is refused with a
  NullPointerException. @Group(n) counts from 0 to one less than the pattern's
  groups; one more throws (InvokeMethod.java:198), and skips the other handlers.

## 6. Plan

1. `TimeoutTask`, `WebSocketSessions` and their proofs (done).
2. `FrameCodec`, `Dispatch`, `ClientSocket`, `ClientNamespace`, `EventEmitter`,
   `PollingTransport` (done).
3. Proofs about them: `DispatchProofs`, `EventEmitterProofs`, `PollingTransportProofs`,
   `ClientNamespaceProofs`, `ClientSocketProofs` (done).
4. Proofs about the codec, `FrameCodec`: done.
5. Heartbeats in both directions between `ClientSocket` and `TimeoutTask`, which
   needs a model of time.

## 7. Not modelled

Flashsocket, swfobject, web-socket-js and JSON2 inside `socket.io.js` (third-party;
the server offers websocket only and does not serve the swf file); the helpers of
`io.util` and the table of sockets of `io.connect`; the texts of configuration
parameters, the handshake's answer and the serving of `socket.io.js` (pure data and
I/O); which values parameters of handler methods get; error packets with advice (1328),
which the server never sends, and connect packets of namespaces, which only emit
events; the timer that an iDevice puts around `send` (2402); `SocketIOHandlers`,
`Lockable` and `hasSession` (unused); logging; file copying. A message the decoder
rejects never reaches `message()` and counts as silence. The handshake announces
its heartbeat in milliseconds, which the client multiplies by 1000: since pending
timers may fire at any moment, the models have the behaviours with and without it.
