---------------------------- MODULE PollingTransport ----------------------------
(***************************************************************************)
(* The transports of socket.io.js that work with HTTP requests: XHR polling *)
(* (with XMLHttpRequest or XDomainRequest), JSONP polling and htmlfile, and *)
(* the part of Socket they work with: the buffer, which holds messages     *)
(* while a POST is under way, connection and disconnection.                *)
(*                                                                         *)
(* As in ClientSocket, an event is one action and the functions of the     *)
(* source are operators from state to state.  Of a reconnection only the   *)
(* flag is kept: its attempts are calls of Connect, which asks whether the *)
(* socket is connecting and nothing else, so that a transport that is open *)
(* may be replaced, and its requests and timers meet the next one.         *)
(***************************************************************************)
EXTENDS Integers, Sequences, FiniteSets

CONSTANTS
  Kinds,          \* of "xhr", "xdr", "jsonp" and "htmlfile"
  MaxTransports,  \* bound: transports that are looked for
  MaxRequests,    \* bound: handshakes under way
  MaxEmits,       \* bound: messages of the application
  MaxBeats        \* bound: heartbeats of the server

ASSUME KindsAssumption == Kinds \subseteq {"xhr", "xdr", "jsonp", "htmlfile"}
ASSUME BoundsAssumption ==
  {MaxTransports, MaxRequests, MaxEmits, MaxBeats} \subseteq Nat

(* A POST holds a message at least, or answers a heartbeat.                *)
MaxPosts == MaxEmits + MaxBeats

Transport == 1 .. MaxTransports
Post == 1 .. MaxPosts

VARIABLE s

vars == <<s>>

(* The browser, which does not change: its kind of transport, and whether  *)
(* ready() waits for the page to load, as WebKit does for XHR polling and  *)
(* Gecko for JSONP.                                                        *)
Browser ==
  {b \in [kind : Kinds, defers : BOOLEAN] :
     b.defers => b.kind \in {"xhr", "jsonp"}}

TypeOK ==
  s \in [browser : Browser,
         connected : BOOLEAN,
         connecting : BOOLEAN,
         reconnecting : BOOLEAN,
         doBuffer : BOOLEAN,
         buffer : Seq(1 .. MaxEmits),
         requests : 0 .. MaxRequests,         \* handshakes under way
         made : 0 .. MaxTransports,           \* transports looked for so far
         current : 0 .. MaxTransports,        \* socket.transport, or 0
         usedUp : BOOLEAN,                    \* is socket.transports empty?
         once : BOOLEAN,                      \* does it wait for "connect"?
         connectTimer : BOOLEAN,              \* the one set last
         strays : Nat,                        \* earlier ones
         heartbeatTimer : BOOLEAN,
         deferred : Nat,                      \* opens that are due
         isOpen : [Transport -> BOOLEAN],
         closeTimers : SUBSET Transport,
         gets : [Transport -> 0 .. 1],        \* this.xhr, script or iframe
         orphans : [Transport -> Nat],        \* earlier ones
         posts : 0 .. MaxPosts,               \* POST requests so far
         owner : [Post -> 0 .. MaxTransports],
         messages : [Post -> Seq(1 .. MaxEmits)],
         pending : SUBSET Post,
         deaf : SUBSET Post,                  \* their iframe was replaced
         taken : SUBSET Post,                 \* the server has them
         emitted : 0 .. MaxEmits,
         got : [Transport -> Seq(1 .. MaxEmits)],  \* what the server has
         threw : BOOLEAN,       \* within an event only
         stale : BOOLEAN,       \* history: an answer ended what was not its own
         dropped : SUBSET Transport, \* history: a listener threw unheard
         revived : BOOLEAN]     \* did another transport connect?

Init ==
  \E b \in Browser :
  s = [browser |-> b,
       connected |-> FALSE, connecting |-> FALSE, reconnecting |-> FALSE,
       doBuffer |-> FALSE, buffer |-> <<>>, requests |-> 0, made |-> 0,
       current |-> 0, usedUp |-> FALSE, once |-> FALSE,
       connectTimer |-> FALSE, strays |-> 0, heartbeatTimer |-> FALSE,
       deferred |-> 0,
       isOpen |-> [t \in Transport |-> FALSE], closeTimers |-> {},
       gets |-> [t \in Transport |-> 0], orphans |-> [t \in Transport |-> 0],
       posts |-> 0, owner |-> [p \in Post |-> 0],
       messages |-> [p \in Post |-> <<>>], pending |-> {}, deaf |-> {},
       taken |-> {}, emitted |-> 0, got |-> [t \in Transport |-> <<>>],
       threw |-> FALSE, stale |-> FALSE, dropped |-> {},
       revived |-> FALSE]

Threw(q) == [q EXCEPT !.threw = TRUE]

(***************************************************************************)
(* POST requests.                                                          *)
(***************************************************************************)

(* Mutated: the handler is set before the iframe is replaced.              *)
PostMessagesDeaf(q, t, messages) ==
  LET p == q.posts + 1 IN
  [q EXCEPT !.doBuffer = TRUE, !.posts = p, !.owner[p] = t,
            !.messages[p] = messages, !.pending = @ \cup {p},
            !.deaf = IF q.browser.kind = "jsonp" THEN @ \cup {p} ELSE @]

(* post: buffering is on until it is answered.  JSONP replaces the iframe  *)
(* of the form, and with it the callback of an earlier one.                *)
PostMessages(q, t, messages) ==
  LET p == q.posts + 1 IN
  [q EXCEPT !.doBuffer = TRUE, !.posts = p, !.owner[p] = t,
            !.messages[p] = messages, !.pending = @ \cup {p},
            !.deaf = IF q.browser.kind = "jsonp"
                     THEN @ \cup {o \in q.pending : q.owner[o] = t} ELSE @]

(* Mutated: the buffer is not emptied.                                     *)
SetBufferKeeps(q, v) ==
  LET set == [q EXCEPT !.doBuffer = v] IN
  IF v \/ ~q.connected \/ q.buffer = <<>> THEN set
  ELSE IF q.current = 0 THEN Threw(set)
  ELSE PostMessages(set, q.current, q.buffer)

(* Socket.setBuffer and flushBuffer: payload joins the messages in one     *)
(* request of the current transport.                                       *)
SetBuffer(q, v) ==
  LET set == [q EXCEPT !.doBuffer = v] IN
  IF v \/ ~q.connected \/ q.buffer = <<>> THEN set
  ELSE IF q.current = 0 THEN Threw(set)
  ELSE [PostMessages(set, q.current, q.buffer) EXCEPT !.buffer = <<>>]

(* Mutated: emit does not wait for the answer of the request under way.    *)
SocketPacketAtOnce(q, m) ==
  IF ~q.connected THEN [q EXCEPT !.buffer = Append(@, m)]
  ELSE IF q.current = 0 THEN Threw(q)
  ELSE PostMessages(q, q.current, <<m>>)

SocketPacket(q, m) ==
  IF ~q.connected \/ q.doBuffer THEN [q EXCEPT !.buffer = Append(@, m)]
  ELSE IF q.current = 0 THEN Threw(q)
  ELSE PostMessages(q, q.current, <<m>>)

(***************************************************************************)
(* GET requests, and the end of a transport.                               *)
(***************************************************************************)

XhrPolling(q) == q.browser.kind \in {"xhr", "xdr"}

(* get: XHR polling asks for isOpen; JSONP takes the script of the last    *)
(* request away, the others forget it.                                     *)
Get(q, t) ==
  IF XhrPolling(q) /\ ~q.isOpen[t] THEN q
  ELSE [q EXCEPT !.gets[t] = 1,
                 !.orphans[t] = IF q.browser.kind = "jsonp" THEN @ ELSE @ + q.gets[t]]

(* Mutated: the request stays when the transport closes.                   *)
ShutKeepsGet(q, t, closing) ==
  [q EXCEPT !.isOpen[t] = FALSE, !.closeTimers = @ \ {t},
            !.heartbeatTimer = FALSE]

(* What onClose does to its transport: XHR polling aborts the last request. *)
(* htmlfile takes its iframe away only if close() was called.              *)
Shut(q, t, closing) ==
  [q EXCEPT !.isOpen[t] = FALSE,
            !.closeTimers = @ \ {t},
            !.heartbeatTimer = FALSE,
            !.gets[t] = IF XhrPolling(q) \/ (q.browser.kind = "htmlfile" /\ closing)
                        THEN 0 ELSE @]

(* Socket.onDisconnect: the current transport is closed, if there is one.  *)
SocketOnDisconnect(q, booted) ==
  LET off == [q EXCEPT !.connected = FALSE, !.connecting = FALSE,
                       !.revived = FALSE]
  IN
  IF ~q.connected /\ ~q.connecting THEN off
  ELSE IF q.current = 0 THEN Threw(off)
  ELSE [Shut(off, q.current, TRUE) EXCEPT
          !.reconnecting = @ \/ (q.connected /\ ~booted)]

(* Transport.onClose, directly, or through close().  An exception of       *)
(* Socket.onDisconnect comes before XHR polling aborts its request.        *)
OnClose(q, t, closing) ==
  LET off == SocketOnDisconnect(Shut(q, t, closing), FALSE) IN
  IF off.threw /\ XhrPolling(q) THEN [off EXCEPT !.gets[t] = q.gets[t]] ELSE off

(* Transport.onDisconnect                                                  *)
OnDisconnect(q, t) ==
  LET closed == IF q.isOpen[t] THEN OnClose(q, t, TRUE) ELSE q IN
  IF closed.threw THEN closed
  ELSE SocketOnDisconnect([closed EXCEPT !.closeTimers = @ \ {t}], FALSE)

(***************************************************************************)
(* Connection.                                                             *)
(***************************************************************************)

(* Socket.setHeartbeatTimeout: of the four, htmlfile has heartbeats.       *)
SetHeartbeatTimeout(q) ==
  [q EXCEPT !.heartbeatTimer = (q.current = 0 \/ q.browser.kind = "htmlfile")]

(* The callback of ready(): XHR.open of the current transport, and the     *)
(* connect timeout.  An earlier one stays pending.                         *)
OpenTransport(q) ==
  LET t == q.current
      ready == SetBuffer([q EXCEPT !.connecting = TRUE], FALSE)
      opened == Get([ready EXCEPT !.isOpen[t] = TRUE], t)
  IN
  IF t = 0 THEN Threw([q EXCEPT !.connecting = TRUE])
  ELSE [opened EXCEPT !.closeTimers = @ \cup {t}, !.connectTimer = TRUE,
                      !.strays = IF q.connectTimer THEN @ + 1 ELSE @]

(* The inner connect of Socket.connect.  The last transport stays open.    *)
(* ready() may wait for the page.                                          *)
CreateTransport(q) ==
  LET clear == [q EXCEPT !.closeTimers = @ \ {q.current}]
      new == [clear EXCEPT !.made = @ + 1,
                           !.current = IF q.usedUp THEN 0 ELSE q.made + 1]
  IN
  IF q.usedUp THEN new
  ELSE IF q.browser.defers THEN [new EXCEPT !.deferred = @ + 1]
  ELSE OpenTransport(new)

(* Socket.onConnect, and the listeners of "connect", which end the connect *)
(* timeout and a reconnection; that needs the transport.  A listener of    *)
(* connect() is there as long as its timer, unless the open was deferred.  *)
OnConnect(q) ==
  LET on == [q EXCEPT !.connected = TRUE, !.connecting = FALSE]
      flushed == IF q.doBuffer THEN on ELSE SetBuffer(on, FALSE)
  IN
  IF q.connected THEN q
  ELSE IF flushed.threw THEN flushed
  ELSE [flushed EXCEPT !.connectTimer = @ /\ q.browser.defers /\ ~q.once,
                       !.once = FALSE,
                       !.reconnecting = @ /\ q.current = 0,
                       !.threw = q.reconnecting /\ q.current = 0]

(***************************************************************************)
(* The events.                                                             *)
(***************************************************************************)

(* The end of an event: an exception is forgotten, and the bounds are kept. *)
Becomes(q) ==
  /\ q.requests <= MaxRequests
  /\ q.posts <= MaxPosts
  /\ s' = [q EXCEPT !.threw = FALSE]

(* connect(), of the application or an attempt of a reconnection.          *)
Connect ==
  /\ ~s.connecting
  /\ Becomes([s EXCEPT !.connecting = TRUE, !.requests = @ + 1])

(* The last attempt of a reconnection, whose transport is not opened.      *)
RedoTransports ==
  /\ s.reconnecting /\ ~s.connected /\ ~s.connecting
  /\ s.made < MaxTransports
  /\ Becomes([s EXCEPT !.connecting = TRUE, !.requests = @ + 1, !.made = @ + 1,
                       !.current = IF s.usedUp THEN 0 ELSE s.made + 1])

ReconnectionFails ==
  /\ s.reconnecting /\ ~s.connected /\ ~s.connecting
  /\ Becomes([s EXCEPT !.reconnecting = FALSE])

(* The handshake is answered: 200, 403, or something else.                 *)
HandshakeDone ==
  /\ s.requests > 0
  /\ s.made < MaxTransports
  /\ LET timed == SetHeartbeatTimeout([s EXCEPT !.requests = @ - 1])
     IN  Becomes([CreateTransport(timed) EXCEPT !.once = s.browser.defers])

HandshakeRefused ==
  /\ s.requests > 0
  /\ Becomes([s EXCEPT !.requests = @ - 1])

HandshakeFails ==
  /\ s.requests > 0
  /\ Becomes([s EXCEPT !.requests = @ - 1, !.connecting = FALSE])

(* The page has loaded.  It is the current transport that is opened.       *)
DeferredOpen ==
  /\ s.deferred > 0
  /\ Becomes(OpenTransport([s EXCEPT !.deferred = @ - 1]))

(* A connect timeout leaves the transport open.  With several transports   *)
(* allowed it uses up the list, which holds the browser's only.            *)
GiveUp(q) ==
  \E used \in {q.usedUp, TRUE} :
    Becomes(IF q.connected THEN q
            ELSE [q EXCEPT !.connecting = FALSE, !.usedUp = used])

ConnectTimeout ==
  \/ s.connectTimer /\ GiveUp([s EXCEPT !.connectTimer = FALSE])
  \/ s.strays > 0 /\ GiveUp([s EXCEPT !.strays = @ - 1])

UserEmits ==
  /\ s.emitted < MaxEmits
  /\ LET m == s.emitted + 1
     IN  Becomes(SocketPacket([s EXCEPT !.emitted = m], m))

(* The disconnect packet is left out: its POST goes over a transport that  *)
(* is closed at once.                                                      *)
UserDisconnects ==
  /\ s.connected \/ s.connecting
  /\ Becomes(SocketOnDisconnect(s, TRUE))

HeartbeatTimeout ==
  LET fired == [s EXCEPT !.heartbeatTimer = FALSE] IN
  /\ s.heartbeatTimer
  /\ Becomes(IF s.current = 0 THEN fired ELSE OnClose(fired, s.current, FALSE))

CloseTimeout(t) ==
  /\ t \in s.closeTimers
  /\ Becomes(OnDisconnect([s EXCEPT !.closeTimers = @ \ {t}], t))

Waiting(q) == q.connected \/ q.connecting \/ q.reconnecting

(* What a packet does: a heartbeat is answered over the transport it came  *)
(* on, whether or not a POST is under way.                                 *)
OnPacket(q, t, packet) ==
  LET timed == SetHeartbeatTimeout(q) IN
  CASE packet = "connect"    ->
         OnConnect([timed EXCEPT !.revived =
           IF q.connected THEN @ ELSE t # q.current \/ ~q.isOpen[t]])
    [] packet = "disconnect" -> SocketOnDisconnect(timed, TRUE)
    [] packet = "heartbeat"  -> PostMessages(timed, t, <<>>)
    [] OTHER                 -> timed

(* Mutated: the close timeout does not start again.                        *)
OnDataUntimed(q, t, packet) ==
  OnPacket([q EXCEPT !.closeTimers = @ \ {t}], t, packet)

(* onData: the close timeout starts again, unless the socket neither is    *)
(* connected nor tries to be.                                              *)
OnData(q, t, packet) ==
  OnPacket([q EXCEPT !.closeTimers = IF Waiting(q) THEN @ \cup {t} ELSE @ \ {t}],
           t, packet)

(* Data come in: the answer of a GET, after which there is the next one,   *)
(* unless a listener throws, or a piece of htmlfile's stream.              *)
Answered(q, t, packet, throws) ==
  LET data == OnData(q, t, packet) IN
  IF q.browser.kind = "htmlfile" THEN data
  ELSE IF throws \/ data.threw
  THEN [data EXCEPT !.dropped =
          IF Waiting(q) \/ t # q.current THEN @ ELSE @ \cup {t}]
  ELSE IF data.isOpen[t] THEN Get(data, t)
  ELSE data

Beats == {p \in 1 .. s.posts : s.messages[p] = <<>>}

(* What the server may send.  It probes the transports with heartbeats.    *)
Sends(packet) ==
  packet = "heartbeat" =>
    s.browser.kind = "htmlfile" /\ Cardinality(Beats) < MaxBeats

Answer(t, packet, throws) ==
  /\ s.gets[t] = 1
  /\ Sends(packet)
  /\ Becomes(Answered([s EXCEPT !.gets[t] = IF s.browser.kind = "htmlfile" THEN @ ELSE 0],
                      t, packet, throws))

(* The same for a request that was forgotten, whose handlers still work.   *)
OrphanAnswer(t, packet, throws) ==
  /\ s.orphans[t] > 0
  /\ Sends(packet)
  /\ Becomes(Answered([s EXCEPT !.orphans[t] = @ - 1], t, packet, throws))

(* htmlfile has no handler for it.                                         *)
GetFails(t) ==
  /\ s.browser.kind # "htmlfile"
  /\ \/ s.gets[t] = 1 /\ Becomes(OnClose([s EXCEPT !.gets[t] = 0], t, FALSE))
     \/ s.orphans[t] > 0 /\ Becomes(OnClose([s EXCEPT !.orphans[t] = @ - 1], t, FALSE))

(* The server takes what was posted, in the order in which it comes in.    *)
ServerTakes(p) ==
  /\ p \in s.pending \ s.taken
  /\ Becomes([s EXCEPT !.taken = @ \cup {p},
                       !.got[s.owner[p]] = @ \o s.messages[p]])

(* Messages are under way over the current transport, and p is not their   *)
(* request, but a heartbeat's or another transport's.                      *)
Foreign(p) ==
  /\ s.messages[p] = <<>> \/ s.owner[p] # s.current
  /\ \E o \in s.pending \ {p} :
       s.owner[o] = s.current /\ s.messages[o] # <<>>

(* The answer of a POST: for XHR a success, or a failure; the others take  *)
(* every end for a success.                                                *)
PostAnswered(p) ==
  LET done == [s EXCEPT !.pending = @ \ {p}]
      unbuffered == SetBuffer([done EXCEPT !.stale = @ \/ Foreign(p)], FALSE)
  IN
  /\ p \in s.pending
  /\ IF p \in s.deaf THEN Becomes(done)
     ELSE \/ p \in s.taken /\ Becomes(unbuffered)
          \/ Becomes(IF s.browser.kind \in {"xhr", "htmlfile"}
                     THEN OnClose(done, s.owner[p], FALSE)
                     ELSE unbuffered)

Data == {"connect", "disconnect", "message", "heartbeat"}

Next ==
  \/ Connect
  \/ RedoTransports
  \/ ReconnectionFails
  \/ HandshakeDone
  \/ HandshakeRefused
  \/ HandshakeFails
  \/ DeferredOpen
  \/ ConnectTimeout
  \/ HeartbeatTimeout
  \/ UserEmits
  \/ UserDisconnects
  \/ \E t \in Transport :
       \/ \E d \in Data, throws \in BOOLEAN :
            Answer(t, d, throws) \/ OrphanAnswer(t, d, throws)
       \/ GetFails(t)
       \/ CloseTimeout(t)
  \/ \E p \in Post : ServerTakes(p) \/ PostAnswered(p)

Spec == Init /\ [][Next]_vars

(* A browser ends the requests that are under way.                         *)
FairSpec == Spec /\ WF_vars(\E p \in Post : PostAnswered(p))

(***************************************************************************)
(* Properties.                                                             *)
(***************************************************************************)

(* The server gets the messages of a connection in the order of emit and   *)
(* none of them twice: of the requests, which the server may take in any   *)
(* order, there is one at a time.  Only the answer of a heartbeat or of    *)
(* another transport's POST, and an open that comes twice, end the         *)
(* buffering too early.                                                    *)
InOrder ==
  ~s.stale /\ ~s.browser.defers =>
    \A t \in Transport : \A i, j \in DOMAIN s.got[t] :
      i < j => s.got[t][i] < s.got[t][j]

(* A message is in one place, whatever is answered late or fails.          *)
NoDuplicates ==
  \A p, q \in 1 .. s.posts : \A i \in DOMAIN s.messages[p] :
    \A j \in DOMAIN s.messages[q] :
      s.messages[p][i] = s.messages[q][j] => p = q /\ i = j

(* The server can reach the client: the current transport, while it is     *)
(* open, has a GET, or the close timeout, which ends it, though a listener *)
(* may throw out of the answer, unless it did so when a connect timeout    *)
(* had given up.                                                           *)
PolledOrTimed ==
  \A t \in Transport :
    s.isOpen[t] /\ t = s.current =>
      s.gets[t] = 1 \/ t \in s.closeTimers \/ t \in s.dropped

(* XHR polling delivers nothing to a transport that is closed, be it the   *)
(* current one or one that was replaced: it has no request under way.  An  *)
(* open that comes twice makes two, of which one is forgotten; and the     *)
(* abort is skipped if there is no transport left.                         *)
ClosedIsQuiet ==
  XhrPolling(s) /\ ~s.browser.defers /\ ~s.usedUp =>
    \A t \in Transport : s.gets[t] = 1 \/ s.orphans[t] > 0 => s.isOpen[t]

(* The buffer of a connected socket is emptied, though a POST may take     *)
(* away the callback of another.  The socket was connected by its current  *)
(* transport, and there is one.  XHR polling that was opened twice may     *)
(* have two GETs; the one it forgot may connect a socket that was closed.  *)
BufferDrains ==
  (s.browser.kind = "xhr" => ~s.browser.defers) /\ s.connected /\ s.buffer # <<>>
    ~> (s.buffer = <<>> \/ ~s.connected \/ s.revived \/ s.usedUp
          \/ \E p \in Beats : s.owner[p] # s.current)

==============================================================================
