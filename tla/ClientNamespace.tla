---------------------------- MODULE ClientNamespace ----------------------------
(***************************************************************************)
(* The namespaces that share one Socket of socket.io.js: joining, messages *)
(* with the json flag and with acknowledgments, leaving, and what a        *)
(* disconnection and a reconnection do to them.                            *)
(*                                                                         *)
(* The Socket below is reduced to what the namespaces see of it:           *)
(* connected or not, buffering while a polling transport has a POST under  *)
(* way, and able to send or not (module ClientSocket says when).  The      *)
(* connection is an ordered wire to a server that answers what it likes    *)
(* (module PollingTransport says when a transport keeps the order).  As in *)
(* ClientSocket, an event is one action, a function of the source an       *)
(* operator from state to state, and threw says that an exception ends the *)
(* event.                                                                  *)
(***************************************************************************)
EXTENDS Naturals, Sequences, FiniteSets, SequencesExt

CONSTANTS
  Name,            \* the names of namespaces
  Root,            \* the name '', of the namespace that needs no joining
  MaxMessages,     \* bound: messages of the application
  MaxConnections,  \* bound: connections of the socket
  MaxWire,         \* bound: packets on the wire and in the buffer
  Worlds           \* what the application sends, whether a send may throw,
                   \* whether the transport polls

ASSUME NameAssumption == Root \in Name
ASSUME BoundsAssumption == {MaxMessages, MaxConnections, MaxWire} \subseteq Nat
ASSUME WorldsAssumption ==
         Worlds \subseteq [kinds : SUBSET {"message", "json", "event"},
                           throws : BOOLEAN, polls : BOOLEAN]

Message == 1 .. MaxMessages

(* A packet of the client; id is 0 if no acknowledgment is wanted, wanted  *)
(* is the type that the application asked for.                             *)
PacketType == {"connect", "disconnect", "message", "json", "event", "ack"}
Packet == [type : PacketType, endpoint : Name, id : 0 .. MaxMessages,
           msg : 0 .. MaxMessages, wanted : PacketType]

Control(type, n) == [type |-> type, endpoint |-> n, id |-> 0, msg |-> 0,
                     wanted |-> type]

VARIABLES
  world,    \* the one of Worlds that the behaviour is in
  c,        \* the client
  wire,     \* packets that the server has not read yet
  server    \* what it read on this connection

vars == <<world, c, wire, server>>

Kinds == world.kinds
Throws == world.throws
Polls == world.polls

TypeOK ==
  /\ world \in Worlds
  /\ c \in [connected : BOOLEAN,
            reconnecting : BOOLEAN,
            doBuffer : BOOLEAN,
            buffer : Seq(Packet),
            namespaces : SUBSET Name,
            json : SUBSET Name,                      \* flags.json is set
            ackPackets : [Name -> 0 .. MaxMessages],
            acks : [Name -> [Message -> 0 .. MaxMessages]],
            left : SUBSET Name,      \* history: left by the application
            messages : 0 .. MaxMessages,             \* history: used up
            connections : 0 .. MaxConnections,
            called : [Message -> 0 .. 2],            \* history: callbacks
            faulty : SUBSET Message,      \* history: whose callback threw
            answers : SUBSET (Message \X Message),
            out : Seq(Packet), threw : BOOLEAN]      \* within an event only
  /\ wire \in Seq(Packet)
  /\ server \in [joined : SUBSET Name, served : SUBSET Packet,
                 early : SUBSET Packet]

Init ==
  /\ world \in Worlds
  /\ c = [connected |-> FALSE, reconnecting |-> FALSE, doBuffer |-> FALSE,
          buffer |-> <<>>, namespaces |-> {}, json |-> {},
          ackPackets |-> [n \in Name |-> 0],
          acks |-> [n \in Name |-> [i \in Message |-> 0]],
          left |-> {}, messages |-> 0, connections |-> 0,
          called |-> [m \in Message |-> 0], faulty |-> {}, answers |-> {},
          out |-> <<>>, threw |-> FALSE]
  /\ wire = <<>>
  /\ server = [joined |-> {}, served |-> {}, early |-> {}]

(***************************************************************************)
(* Packets of a namespace.  ok: can the transport send?                    *)
(***************************************************************************)

(* socket.packet.  A polling transport that takes it makes the socket      *)
(* buffer.                                                                 *)
SocketPacket(s, p, ok) ==
  IF ~s.connected \/ s.doBuffer THEN [s EXCEPT !.buffer = Append(@, p)]
  ELSE IF ok THEN [s EXCEPT !.out = Append(@, p), !.doBuffer = Polls]
  ELSE [s EXCEPT !.threw = TRUE]

(* socket.setBuffer, and flushBuffer.                                      *)
SetBuffer(s, v, ok) ==
  LET set == [s EXCEPT !.doBuffer = v] IN
  IF v \/ ~s.connected \/ s.buffer = <<>> THEN set
  ELSE IF ok THEN [set EXCEPT !.out = s.buffer, !.buffer = <<>>,
                              !.doBuffer = Polls]
  ELSE [set EXCEPT !.threw = TRUE]

(* Mutated: the flags stay.                                                *)
NspPacketKeepsFlags(s, p, ok) == SocketPacket(s, p, ok)

(* The flags are cleared after the packet is on its way.                   *)
NspPacket(s, p, ok) ==
  LET sent == SocketPacket(s, p, ok) IN
  IF s.threw \/ sent.threw THEN sent
  ELSE [sent EXCEPT !.json = @ \ {p.endpoint}]

(* Mutated: a namespace is joined when it is used, not when it is made.    *)
OfUnjoined(s, n, ok) == [s EXCEPT !.namespaces = @ \cup {n}]

(* socket.of, and the constructor of a namespace.                          *)
Of(s, n, ok) ==
  LET made == [s EXCEPT !.namespaces = @ \cup {n}] IN
  IF n \in s.namespaces THEN s
  ELSE IF n = Root THEN made
  ELSE NspPacket(made, Control("connect", n), ok)

(* Mutated: ids start again with each connection.                          *)
WithIdPerConnection(s, n, type, wanted, ack, ok) ==
  LET m == s.messages + 1
      id == IF ack THEN 1 + Cardinality({i \in DOMAIN s.out :
                                           s.out[i].id > 0}) ELSE 0
      asked == [s EXCEPT
        !.messages = m,
        !.ackPackets[n] = IF ack THEN id ELSE @,
        !.acks[n] = [i \in Message |-> IF ack /\ i = id THEN m ELSE @[i]]]
  IN
  NspPacket(asked, [type |-> type, endpoint |-> n, id |-> id, msg |-> m,
                    wanted |-> wanted], ok)

(* Mutated: the packet counts, too.                                        *)
WithIdSkips(s, n, type, wanted, ack, ok) ==
  LET m == s.messages + 1
      id == IF ack THEN s.ackPackets[n] + 1 ELSE 0
      asked == [s EXCEPT
        !.messages = m,
        !.ackPackets[n] = IF ack THEN id + 1 ELSE @,
        !.acks[n] = [i \in Message |-> IF ack /\ i = id THEN m ELSE @[i]]]
  IN
  NspPacket(asked, [type |-> type, endpoint |-> n, id |-> id, msg |-> m,
                    wanted |-> wanted], ok)

(* The part that send and emit share: an id for the acknowledgment, if     *)
(* there is a callback, and the packet.                                    *)
WithId(s, n, type, wanted, ack, ok) ==
  LET m == s.messages + 1
      id == IF ack THEN s.ackPackets[n] + 1 ELSE 0
      asked == [s EXCEPT
        !.messages = m,
        !.ackPackets[n] = IF ack THEN id ELSE @,
        !.acks[n] = [i \in Message |-> IF ack /\ i = id THEN m ELSE @[i]]]
  IN
  NspPacket(asked, [type |-> type, endpoint |-> n, id |-> id, msg |-> m,
                    wanted |-> wanted], ok)

Send(s, n, wanted, ack, ok) ==
  WithId(s, n, IF n \in s.json THEN "json" ELSE "message", wanted, ack, ok)

Emit(s, n, ack, ok) == WithId(s, n, "event", "event", ack, ok)

(* namespace.json.send and namespace.json.emit                             *)
Flagged(s, n) == [s EXCEPT !.json = @ \cup {n}]

(***************************************************************************)
(* The Socket, as far as the namespaces are concerned.                     *)
(***************************************************************************)

(* Mutated: the callbacks that wait are dropped.                           *)
OnDisconnectForgets(s, booted) ==
  [s EXCEPT !.connected = FALSE, !.out = <<>>,
            !.acks = [n \in Name |-> [i \in Message |-> 0]],
            !.reconnecting = @ \/ ~booted]

(* What is on the wire is lost.  The namespaces are told, and keep what    *)
(* they have.                                                              *)
OnDisconnect(s, booted) ==
  [s EXCEPT !.connected = FALSE, !.out = <<>>,
            !.reconnecting = @ \/ ~booted]

(* reset of a reconnection: the namespaces are joined again, in the order  *)
(* in which for-in lists them, which is any.  The socket is connected.     *)
(* Where a packet makes the socket buffer, it is the only one that goes.   *)
Reset(s, ok) ==
  LET names == s.namespaces \ {Root}
      joins == SetToSeq({Control("connect", n) : n \in names})
      n == IF s.doBuffer THEN 0 ELSE IF Polls THEN 1 ELSE Len(joins)
      done == [s EXCEPT !.json = @ \ names, !.reconnecting = FALSE]
  IN
  IF names = {} THEN done
  ELSE IF ~s.doBuffer /\ ~ok THEN [s EXCEPT !.threw = TRUE]
  ELSE [done EXCEPT !.out = @ \o SubSeq(joins, 1, n),
                    !.buffer = @ \o SubSeq(joins, n + 1, Len(joins)),
                    !.doBuffer = @ \/ Polls]

(* onConnect: first the buffer, then the listener that ends a              *)
(* reconnection.                                                           *)
OnConnect(s, ok) ==
  LET on == [s EXCEPT !.connected = TRUE, !.connections = @ + 1]
      flushed == IF s.doBuffer THEN on ELSE SetBuffer(on, FALSE, ok)
  IN
  IF flushed.threw \/ ~s.reconnecting THEN flushed ELSE Reset(flushed, ok)

(***************************************************************************)
(* Packets from the server.                                                *)
(***************************************************************************)

(* Mutated: the callback stays after its call.                             *)
OnAckKeeps(s, n, id, msg, throws) ==
  LET m == s.acks[n][id] IN
  IF m = 0 THEN s
  ELSE [s EXCEPT !.called[m] = @ + 1, !.answers = @ \cup {<<m, msg>>},
                 !.threw = throws,
                 !.faulty = IF throws THEN @ \cup {m} ELSE @]

(* The callback is deleted after it returned.                              *)
OnAck(s, n, id, msg, throws) ==
  LET m == s.acks[n][id]
      called == [s EXCEPT !.called[m] = @ + 1, !.answers = @ \cup {<<m, msg>>}]
  IN
  IF m = 0 THEN s
  ELSE IF throws THEN [called EXCEPT !.threw = TRUE, !.faulty = @ \cup {m}]
  ELSE [called EXCEPT !.acks[n][id] = 0]

(* connect and disconnect.  A namespace other than the root tells its      *)
(* listeners, and that is all.                                             *)
OnDisconnectPacket(s, n) == IF n = Root THEN OnDisconnect(s, TRUE) ELSE s

(* A message or an event, which the server may want acknowledged: at once, *)
(* or by the listener, if it does so.                                      *)
OnMessage(s, n, acked, ok) ==
  IF acked THEN NspPacket(s, Control("ack", n), ok) ELSE s

(***************************************************************************)
(* The events.                                                             *)
(***************************************************************************)

(* May a packet be refused?                                                *)
Sends == IF Throws THEN BOOLEAN ELSE {TRUE}

(* The end of an event: its packets are on the wire, unless the connection *)
(* is gone.                                                                *)
Becomes(s) ==
  /\ Len(wire \o s.out \o s.buffer) <= MaxWire
  /\ c' = [s EXCEPT !.threw = FALSE, !.out = <<>>]
  /\ UNCHANGED world
  /\ wire' = IF s.connected THEN wire \o s.out ELSE <<>>
  /\ server' = IF s.connected /\ c.connected THEN server
               ELSE [joined |-> {}, served |-> {}, early |-> {}]

(* io.connect, or socket.of.                                               *)
UserOf(n) ==
  /\ n \notin c.namespaces
  /\ \E ok \in Sends : Becomes([Of(c, n, ok) EXCEPT !.left = @ \ {n}])

UserSends(n) ==
  /\ c.messages < MaxMessages
  /\ n \in c.namespaces
  /\ \E ok \in Sends, ack \in BOOLEAN :
       \/ "message" \in Kinds /\ Becomes(Send(c, n, "message", ack, ok))
       \/ "json" \in Kinds /\ Becomes(Send(Flagged(c, n), n, "json", ack, ok))
       \/ "event" \in Kinds /\ \E s \in {c, Flagged(c, n)} :
            Becomes(Emit(s, n, ack, ok))

(* namespace.disconnect() of a namespace other than the root.              *)
UserLeaves(n) ==
  /\ n \in c.namespaces \ ({Root} \cup c.left)
  /\ \E ok \in Sends :
       LET s == NspPacket(c, Control("disconnect", n), ok) IN
       Becomes(IF s.threw THEN s
               ELSE [s EXCEPT !.left = @ \cup {n}])

(* It is that of the socket for the root, which is made if it is not       *)
(* there, and told so if the socket is open; it may be open, and its       *)
(* buffer take the packet, before it is connected.                         *)
UserDisconnects ==
  \E open \in BOOLEAN, ok \in Sends :
    LET made == Of(c, Root, ok)
        said == IF open THEN NspPacket(made, Control("disconnect", Root), ok)
                ELSE c
    IN
    Becomes(IF said.threw THEN said ELSE OnDisconnect(said, TRUE))

SocketConnects ==
  /\ ~c.connected
  /\ c.connections < MaxConnections
  /\ \E ok \in Sends : Becomes(OnConnect(c, ok))

SocketDisconnects ==
  /\ c.connected
  /\ Becomes(OnDisconnect(c, FALSE))

(* A POST of the transport, of a heartbeat perhaps, begins or is answered. *)
TransportPosts ==
  /\ Polls
  /\ \E v \in BOOLEAN, ok \in Sends : Becomes(SetBuffer(c, v, ok))

(* The server reads a packet.  It needs a namespace to be joined first.    *)
ServerReads ==
  LET p == Head(wire) IN
  /\ wire # <<>>
  /\ wire' = Tail(wire)
  /\ server' =
       [joined |-> CASE p.type = "connect" -> server.joined \cup {p.endpoint}
                     [] p.type = "disconnect" -> server.joined \ {p.endpoint}
                     [] OTHER -> server.joined,
        served |-> server.served \cup {q \in {p} : q.id > 0},
        early |-> server.early \cup
          {q \in {p} : q.msg > 0 /\ q.endpoint \notin server.joined \cup {Root}}]
  /\ UNCHANGED <<world, c>>

(* A packet comes in: to a namespace that is made if it is not there, with *)
(* Socket.onPacket.  (A connect packet changes no more than that.)         *)
ServerSends(n) ==
  /\ c.connected
  /\ \E ok \in Sends, acked \in BOOLEAN :
       LET s == Of(c, n, ok) IN
       IF s.threw THEN Becomes(s)
       ELSE \/ Becomes(OnDisconnectPacket(s, n))
            \/ Becomes(OnMessage(s, n, acked, ok))

(* It acknowledges what it read, once or more than once.                   *)
ServerAcks(p) ==
  /\ p \in server.served
  /\ c.connected
  /\ c.called[p.msg] < 2
  /\ \E throws \in BOOLEAN : Becomes(OnAck(c, p.endpoint, p.id, p.msg, throws))

Next ==
  \/ \E n \in Name :
       UserOf(n) \/ UserSends(n) \/ UserLeaves(n) \/ ServerSends(n)
  \/ UserDisconnects
  \/ SocketConnects
  \/ SocketDisconnects
  \/ TransportPosts
  \/ ServerReads
  \/ \E p \in server.served : ServerAcks(p)

Spec == Init /\ [][Next]_vars

(***************************************************************************)
(* Properties.                                                             *)
(***************************************************************************)

Packets == {wire[i] : i \in DOMAIN wire} \cup {c.buffer[i] : i \in DOMAIN c.buffer}

(* The flag json is for one message: what the application did not send     *)
(* through it does not go as JSON, wherever the packet waits, as long as   *)
(* no send throws, which leaves the flag set.                              *)
JsonAsAsked == ~Throws => \A p \in Packets : p.type = p.wanted

(* An acknowledgment calls the callback of its own message, over any       *)
(* number of namespaces, which count their messages each from one, and     *)
(* connections, with messages that are lost or wait in the buffer.         *)
AckOfItsMessage == \A a \in c.answers : a[1] = a[2]

(* A callback is called once, however often the server acknowledges,       *)
(* unless it throws, which leaves it registered.                           *)
CalledOnce == \A m \in Message : c.called[m] > 1 => m \in c.faulty

(* The callback of a message waits for its acknowledgment for as long as   *)
(* the message is in the buffer, on the wire or read by the server, over   *)
(* any number of disconnections: it is the one that the acknowledgment,    *)
(* with the endpoint and the id of the message, will find.                 *)
CallbackWaits ==
  \A p \in Packets \cup server.served :
    p.id > 0 /\ c.called[p.msg] = 0 => c.acks[p.endpoint][p.id] = p.msg

(* On the first connection the server reads the connect packet of a        *)
(* namespace before its messages, those that waited in the buffer          *)
(* included, if no send throws.  Later connections do not promise it: the  *)
(* buffer is flushed before reset joins the namespaces again.              *)
JoinedFirst ==
  ~Throws /\ c.connections = 1 =>
    \A p \in server.early : p.endpoint \in c.left
==============================================================================
