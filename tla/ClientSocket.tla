----------------------------- MODULE ClientSocket -----------------------------
(***************************************************************************)
(* The client: Socket, Transport and the WebSocket transport of            *)
(* socket.io.js 0.9.10, as a browser runs them against this server, whose  *)
(* handshake offers "websocket" only.                                      *)
(*                                                                         *)
(* JavaScript runs one event at a time, so each event (a call of the       *)
(* application, an answer, a timer, an event of a WebSocket) is one        *)
(* action.  What its handler does is a composition of operators from state *)
(* to state, one for each function of the source; an exception ends the    *)
(* event with what was done before it, which the field threw stands for.   *)
(* Time is left out: a pending timer may fire at any moment.               *)
(***************************************************************************)
EXTENDS Integers, Sequences, FiniteSets

CONSTANTS
  MaxSockets,   \* bound: the WebSockets that are opened
  MaxRequests,  \* bound: the handshakes that are pending at a time
  MaxEmits,     \* bound: the messages that the application emits
  MaxStrays,    \* bound: the reconnection timers that nobody can clear
  MaxAttempts,  \* the option "max reconnection attempts"
  Refuses       \* may a handshake be answered with 403?

ASSUME BoundsAssumption ==
         {MaxSockets, MaxRequests, MaxEmits, MaxStrays, MaxAttempts} \subseteq Nat
ASSUME RefusesAssumption == Refuses \in BOOLEAN

WebSocket == 1 .. MaxSockets

(* self.transport: not there, or a transport that was never opened.        *)
NoTransport == 0
Unopened == -1

(* The packet that disconnect() sends; a message is a positive number.     *)
DisconnectPacket == 0

VARIABLE sock

vars == <<sock>>

TypeOK ==
  sock \in
    [connected : BOOLEAN,
     open : BOOLEAN,
     connecting : BOOLEAN,
     reconnecting : BOOLEAN,
     doBuffer : BOOLEAN,
     buffer : Seq(0 .. MaxEmits),
     tryMultiple : BOOLEAN,   \* options["try multiple transports"]
     attempts : 0 .. MaxAttempts + 1,
     redo : BOOLEAN,          \* redoTransports, and a connect_failed listener
     transports : {"unset", "websocket", "empty"},
     transport : WebSocket \cup {NoTransport, Unopened},
     requests : 0 .. MaxRequests,          \* pending handshakes
     ws : [WebSocket -> {"new", "connecting", "open", "closing", "closed"}],
     isOpen : [WebSocket -> BOOLEAN],      \* Transport.isOpen
     closeTimers : SUBSET WebSocket,       \* pending Transport.closeTimeout
     connectTimers : SUBSET WebSocket,     \* pending connect timeouts
     connectTimer : WebSocket \cup {0},    \* connectTimeoutTimer
     onceFirst : BOOLEAN,   \* is the listener that clears it called first?
     heartbeatTimer : BOOLEAN,
     reconnectionTimer : BOOLEAN,          \* is the one set last pending?
     strays : 0 .. MaxStrays,              \* earlier ones that are pending
     threw : BOOLEAN,                      \* within an event only
     emitted : 0 .. MaxEmits,              \* history: messages emitted
     sent : Seq(1 .. MaxEmits),            \* history: messages on the wire
     refused : BOOLEAN,                    \* history: was a handshake refused?
     down : BOOLEAN]                       \* history: connection ended by choice

Init ==
  sock =
    [connected |-> FALSE, open |-> FALSE, connecting |-> FALSE,
     reconnecting |-> FALSE, doBuffer |-> FALSE, buffer |-> <<>>,
     tryMultiple |-> TRUE, attempts |-> 0, redo |-> FALSE,
     transports |-> "unset", transport |-> NoTransport, requests |-> 0,
     ws |-> [w \in WebSocket |-> "new"],
     isOpen |-> [w \in WebSocket |-> FALSE],
     closeTimers |-> {}, connectTimers |-> {}, connectTimer |-> 0,
     onceFirst |-> FALSE, heartbeatTimer |-> FALSE,
     reconnectionTimer |-> FALSE, strays |-> 0, threw |-> FALSE,
     emitted |-> 0, sent |-> <<>>, refused |-> FALSE, down |-> FALSE]

Threw(s) == [s EXCEPT !.threw = TRUE]

(***************************************************************************)
(* WebSocket and Transport.                                                *)
(***************************************************************************)

(* websocket.close(): the close event comes later.                         *)
CloseWebSocket(s, w) ==
  [s EXCEPT !.ws[w] = IF @ \in {"connecting", "open"} THEN "closing" ELSE @]

ClearTimeouts(s, w) == [s EXCEPT !.closeTimers = @ \ {w}]

(* Can this.transport send?  A WebSocket that is connecting throws, and so *)
(* does a transport without one; a closed one drops what it is given.      *)
CanSend(s) ==
  s.transport \in WebSocket /\ s.ws[s.transport] # "connecting"

(* The messages among packets, in their order: the kth is the one with k   *)
(* messages up to it.                                                      *)
Messages(packets) ==
  LET places == {i \in DOMAIN packets : packets[i] # DisconnectPacket}
      Place(k) == CHOOSE i \in places : Cardinality({j \in places : j <= i}) = k
  IN
  [k \in 1 .. Cardinality(places) |-> packets[Place(k)]]

(* send at once.  On an iDevice it comes in a timer of its own, which is   *)
(* left out.                                                               *)
Put(s, packets) ==
  IF s.ws[s.transport] = "open"
  THEN [s EXCEPT !.sent = @ \o Messages(packets)]
  ELSE s

(***************************************************************************)
(* Socket: buffer and packets.                                             *)
(***************************************************************************)

(* The buffer is emptied after the last packet is sent.                    *)
FlushBuffer(s) ==
  IF CanSend(s) THEN [Put(s, s.buffer) EXCEPT !.buffer = <<>>] ELSE Threw(s)

SetBuffer(s, v) ==
  LET set == [s EXCEPT !.doBuffer = v] IN
  IF ~v /\ s.connected /\ s.buffer # <<>> THEN FlushBuffer(set) ELSE set

(* Mutated: a packet is sent although older ones wait in the buffer.       *)
PacketIgnoresBuffer(s, p) ==
  IF ~s.connected THEN [s EXCEPT !.buffer = Append(@, p)]
  ELSE IF CanSend(s) THEN Put(s, <<p>>)
  ELSE Threw(s)

Packet(s, p) ==
  IF ~s.connected \/ s.doBuffer THEN [s EXCEPT !.buffer = Append(@, p)]
  ELSE IF CanSend(s) THEN Put(s, <<p>>)
  ELSE Threw(s)

(***************************************************************************)
(* Socket: reconnection.                                                   *)
(***************************************************************************)

Connect(s) ==
  IF s.connecting THEN s
  ELSE [s EXCEPT !.connecting = TRUE, !.requests = @ + 1]

(* A timer that is replaced stays pending.                                 *)
SetReconnectionTimer(s) ==
  [s EXCEPT !.reconnectionTimer = TRUE,
            !.strays = IF s.reconnectionTimer THEN @ + 1 ELSE @]

Reconnect(s) ==
  SetReconnectionTimer([s EXCEPT !.reconnecting = TRUE, !.attempts = 0,
                                 !.tryMultiple = FALSE])

(* reset, in reconnect, which needs the name of the transport if there is  *)
(* a connection.  The option was TRUE before: reconnect is not called      *)
(* again before reset.                                                     *)
Reset(s) ==
  IF s.connected /\ s.transport = NoTransport THEN Threw(s) ELSE
  [s EXCEPT !.reconnecting = FALSE, !.attempts = 0, !.redo = FALSE,
            !.reconnectionTimer = FALSE, !.tryMultiple = TRUE]

(* The last attempt, on the original transports: transports and            *)
(* origTransports are one array, which connect timeouts may have emptied.  *)
RedoTransports(s) ==
  Connect([s EXCEPT
    !.redo = TRUE, !.tryMultiple = TRUE, !.attempts = @ + 1,
    !.transport = IF s.transports = "empty" THEN NoTransport ELSE Unopened])

(* Mutated: one attempt too many.                                          *)
MaybeReconnectOnceMore(s) ==
  IF ~s.reconnecting THEN s
  ELSE IF s.connected THEN Reset(s)
  ELSE IF s.connecting THEN SetReconnectionTimer(s)
  ELSE IF s.attempts <= MaxAttempts
       THEN SetReconnectionTimer(Connect([s EXCEPT !.attempts = @ + 1]))
  ELSE IF s.redo THEN Reset(s)
  ELSE RedoTransports(s)

(* Mutated: the timer is not set again while a connection is under way.    *)
MaybeReconnectGoesAway(s) ==
  IF ~s.reconnecting \/ s.connecting THEN s
  ELSE IF s.connected THEN Reset(s)
  ELSE IF s.attempts < MaxAttempts
       THEN SetReconnectionTimer(Connect([s EXCEPT !.attempts = @ + 1]))
  ELSE IF s.redo THEN Reset(s)
  ELSE RedoTransports(s)

(* Mutated: attempts are not counted.                                      *)
MaybeReconnectForEver(s) ==
  IF ~s.reconnecting THEN s
  ELSE IF s.connected THEN Reset(s)
  ELSE IF s.connecting THEN SetReconnectionTimer(s)
  ELSE IF s.attempts < MaxAttempts THEN SetReconnectionTimer(Connect(s))
  ELSE IF s.redo THEN Reset(s)
  ELSE RedoTransports(s)

(* Called by the reconnection timer, on "connect", and on "connect_failed" *)
(* once redo is set.                                                       *)
MaybeReconnect(s) ==
  IF ~s.reconnecting THEN s
  ELSE IF s.connected THEN Reset(s)
  ELSE IF s.connecting THEN SetReconnectionTimer(s)
  ELSE IF s.attempts < MaxAttempts
       THEN SetReconnectionTimer(Connect([s EXCEPT !.attempts = @ + 1]))
  ELSE IF s.redo THEN Reset(s)
  ELSE RedoTransports(s)

ConnectFailed(s) == IF s.redo THEN MaybeReconnect(s) ELSE s

(***************************************************************************)
(* Socket: connection and disconnection.                                   *)
(***************************************************************************)

OnDisconnect(s, booted) ==
  LET off == [s EXCEPT !.connected = FALSE, !.connecting = FALSE,
                       !.open = FALSE]
      closed == ClearTimeouts(CloseWebSocket(off, s.transport), s.transport)
  IN
  IF ~s.connected /\ ~s.connecting THEN off
  ELSE IF s.transport \notin WebSocket THEN Threw(off)
  ELSE IF s.connected /\ ~booted /\ ~s.reconnecting THEN Reconnect(closed)
  ELSE closed

(* The listeners of "connect", in the order in which they were added: one  *)
(* clears the connect timeout that was set last, one ends a reconnection.  *)
(* An exception skips what follows.                                        *)
OnConnect(s) ==
  LET on == [s EXCEPT !.connected = TRUE, !.connecting = FALSE]
      flushed == IF s.doBuffer THEN on ELSE SetBuffer(on, FALSE)
      cleared(t) == [t EXCEPT !.connectTimers = @ \ {s.connectTimer},
                              !.onceFirst = FALSE]
      reset == MaybeReconnect(flushed)
  IN
  IF s.connected THEN s
  ELSE IF flushed.threw THEN flushed
  ELSE IF s.onceFirst THEN MaybeReconnect(cleared(flushed))
  ELSE IF reset.threw THEN reset
  ELSE cleared(reset)

TransportOnDisconnect(s, w) ==
  LET shut == IF s.isOpen[w] THEN CloseWebSocket(s, w) ELSE s
  IN  OnDisconnect(ClearTimeouts(shut, w), FALSE)

(* Transport.onClose, and Socket.onClose which it calls.                   *)
OnClose(s, w) ==
  TransportOnDisconnect(
    [s EXCEPT !.isOpen[w] = FALSE, !.open = FALSE, !.heartbeatTimer = FALSE],
    w)

(* The inner connect of Socket.connect, run when the handshake succeeded.  *)
ConnectTransport(s) ==
  LET clear == IF s.transport \in WebSocket
               THEN ClearTimeouts(s, s.transport) ELSE s
      w == CHOOSE v \in WebSocket : s.ws[v] = "new"
  IN
  IF s.transports = "empty"
  THEN ConnectFailed([clear EXCEPT !.transport = NoTransport])
  ELSE [clear EXCEPT
          !.transport = w, !.connecting = TRUE, !.ws[w] = "connecting",
          !.connectTimers = @ \cup {w}, !.connectTimer = w]

(***************************************************************************)
(* The events.                                                             *)
(***************************************************************************)

(* The end of an event: an exception is forgotten, and the bounds are      *)
(* kept.                                                                   *)
Becomes(s) ==
  /\ s.requests <= MaxRequests
  /\ s.strays <= MaxStrays
  /\ sock' = [s EXCEPT !.threw = FALSE]

(* The application calls connect(), emits a message, calls disconnect().   *)
UserConnect ==
  /\ sock.connecting => sock.down
  /\ Becomes([Connect(sock) EXCEPT !.down = FALSE])

UserEmit ==
  /\ sock.emitted < MaxEmits
  /\ LET p == sock.emitted + 1
     IN  Becomes(Packet([sock EXCEPT !.emitted = p], p))

UserDisconnect ==
  LET told == IF sock.open THEN Packet(sock, DisconnectPacket) ELSE sock
      down == [told EXCEPT !.down = sock.connected]
  IN
  /\ sock.connected \/ sock.connecting
  /\ Becomes(IF told.threw THEN down ELSE OnDisconnect(down, TRUE))

(* beforeunload: the server closes the connection, the client takes it for *)
(* closed at once.                                                         *)
DisconnectSync ==
  /\ sock.connected \/ sock.connecting \/ sock.open
  /\ Becomes(OnDisconnect([sock EXCEPT !.down = sock.connected], TRUE))

(* The handshake is answered: 200, 403, or something else.                 *)
HandshakeDone ==
  LET done == [sock EXCEPT
        !.requests = @ - 1, !.heartbeatTimer = TRUE,
        !.onceFirst = @ \/ ~sock.reconnecting,
        !.transports = IF @ = "unset" THEN "websocket" ELSE @]
  IN
  /\ sock.requests > 0
  /\ sock.transports = "empty" \/ \E w \in WebSocket : sock.ws[w] = "new"
  /\ Becomes(ConnectTransport(done))

HandshakeRefused ==
  /\ Refuses
  /\ sock.requests > 0
  /\ Becomes([sock EXCEPT !.requests = @ - 1, !.refused = TRUE])

(* Mutated: a failed handshake leaves connecting set, as a refused one.    *)
HandshakeFailsAsRefused ==
  /\ sock.requests > 0
  /\ Becomes([sock EXCEPT !.requests = @ - 1])

HandshakeFails ==
  /\ sock.requests > 0
  /\ Becomes([sock EXCEPT !.requests = @ - 1, !.connecting = FALSE])

(* Timers.                                                                 *)
ConnectTimeout(w) ==
  LET fired == [sock EXCEPT !.connectTimers = @ \ {w}]
      failed == [fired EXCEPT !.connecting = FALSE]
  IN
  /\ w \in sock.connectTimers
  /\ Becomes(IF sock.connected THEN fired
             ELSE IF ~sock.tryMultiple THEN failed
             ELSE ConnectFailed([failed EXCEPT !.transports = "empty"]))

HeartbeatTimeout ==
  LET fired == [sock EXCEPT !.heartbeatTimer = FALSE] IN
  /\ sock.heartbeatTimer
  /\ Becomes(IF sock.transport \in WebSocket
             THEN OnClose(fired, sock.transport)
             ELSE IF sock.transport = Unopened
             THEN OnDisconnect([fired EXCEPT !.open = FALSE], FALSE)
             ELSE Threw(fired))

CloseTimeout(w) ==
  /\ w \in sock.closeTimers
  /\ Becomes(TransportOnDisconnect([sock EXCEPT !.closeTimers = @ \ {w}], w))

ReconnectionTimeout ==
  \/ /\ sock.reconnectionTimer
     /\ Becomes(MaybeReconnect([sock EXCEPT !.reconnectionTimer = FALSE]))
  \/ /\ sock.strays > 0
     /\ Becomes(MaybeReconnect([sock EXCEPT !.strays = @ - 1]))

(* Events of a WebSocket: of any that was opened, not of this.transport    *)
(* only.                                                                   *)
WsOpen(w) ==
  /\ sock.ws[w] = "connecting"
  /\ Becomes(SetBuffer([sock EXCEPT
       !.ws[w] = "open", !.isOpen[w] = TRUE, !.open = TRUE,
       !.closeTimers = @ \ {w}], FALSE))

WsClose(w) ==
  LET closed == OnClose([sock EXCEPT !.ws[w] = "closed"], w) IN
  /\ sock.ws[w] \in {"connecting", "open", "closing"}
  /\ Becomes(IF closed.threw THEN closed ELSE SetBuffer(closed, TRUE))

(* onData, and onPacket of the packet in it.  A heartbeat is answered on   *)
(* the WebSocket it came on; other packets go to the namespaces.           *)
WsMessage(w) ==
  LET data == [sock EXCEPT
        !.closeTimers = IF sock.connected \/ sock.connecting
                             \/ sock.reconnecting
                        THEN @ \cup {w} ELSE @ \ {w},
        !.heartbeatTimer = TRUE]
  IN
  /\ sock.ws[w] = "open"
  /\ Becomes(data) \/ Becomes(OnConnect(data))
       \/ Becomes(OnDisconnect(data, TRUE))

Next ==
  \/ UserConnect
  \/ UserEmit
  \/ UserDisconnect
  \/ DisconnectSync
  \/ HandshakeDone
  \/ HandshakeRefused
  \/ HandshakeFails
  \/ HeartbeatTimeout
  \/ ReconnectionTimeout
  \/ \E w \in WebSocket :
       \/ ConnectTimeout(w)
       \/ CloseTimeout(w)
       \/ WsOpen(w)
       \/ WsClose(w)
       \/ WsMessage(w)

(* Timers fire, a handshake is answered in one way or another, a WebSocket *)
(* that is being closed gets its close event.                              *)
Fairness ==
  /\ WF_vars(HandshakeDone \/ HandshakeRefused \/ HandshakeFails)
  /\ WF_vars(HeartbeatTimeout)
  /\ WF_vars(ReconnectionTimeout)
  /\ \A w \in WebSocket :
       /\ WF_vars(ConnectTimeout(w))
       /\ WF_vars(CloseTimeout(w))
       /\ WF_vars(sock.ws[w] = "closing" /\ WsClose(w))

Spec == Init /\ [][Next]_vars

FairSpec == Spec /\ Fairness

(***************************************************************************)
(* Properties.                                                             *)
(***************************************************************************)

(* Messages reach the wire in the order of emit, none of them twice,       *)
(* though some are sent at once and some wait in the buffer, over any      *)
(* number of connections.                                                  *)
SentInOrder ==
  \A i, j \in DOMAIN sock.sent : i < j => sock.sent[i] < sock.sent[j]

(* A reconnection that has attempts left is driven by a timer: no sequence *)
(* of stale events, failed handshakes and calls leaves it hanging, as long *)
(* as connect timeouts have not used up the transports.                    *)
ReconnectionIsDriven ==
  sock.reconnecting /\ ~sock.redo =>
    sock.reconnectionTimer \/ sock.transports = "empty"

(* While connecting is set, connect() does nothing.  So something is on its *)
(* way that clears it, unless a handshake was refused, or the transports,  *)
(* an array that connect timeouts consume, are used up.                    *)
ConnectingEnds ==
  sock.connecting /\ ~sock.connected /\ ~sock.refused =>
    \/ sock.requests > 0
    \/ sock.connectTimers # {}
    \/ sock.transports = "empty"

(* If the application leaves it alone, a reconnection succeeds, gives up,  *)
(* or comes to its last attempt, over the original transports, unless they *)
(* are used up or a handshake is refused.                                  *)
ReconnectionEnds ==
  <>[][~UserConnect]_vars =>
    (sock.reconnecting
       ~> \/ ~sock.reconnecting
          \/ sock.redo
          \/ sock.transports = "empty"
          \/ sock.refused)

(* disconnect() is final for an established connection, until connect() is *)
(* called again.                                                           *)
DisconnectIsFinal == sock.down => ~sock.connected

==============================================================================
