------------------------------- MODULE FrameCodec -------------------------------
(***************************************************************************)
(* Both ends of the wire format: the client writes packets, which a        *)
(* transport sends as one payload (XHR) or each on its own (WebSocket);    *)
(* the server parses what it gets, and writes frames that the client       *)
(* decodes.                                                                *)
(***************************************************************************)
EXTENDS SocketIOFrame

CONSTANTS
  MaxText,   \* bound: the characters of a text, in a packet that goes alone
  MaxShort,  \* the same, in a payload of several packets
  MaxPackets \* bound: packets in a payload

ASSUME TextBoundsAssumption == {MaxText, MaxShort, MaxPackets} \subseteq Nat

(***************************************************************************)
(* What is written: packets whose texts hold every character that the      *)
(* format uses, alone and next to each other, with ids of one digit and    *)
(* two, for namespaces with and without a colon in their name.             *)
(***************************************************************************)

Texts(n) ==
  UNION {[1 .. k -> {1, Colon, Plus, Separator, Mark, LineEnd}] : k \in 0 .. n}

Endpoints == {<<>>, <<Other, 1>>, <<Other, Colon, 1>>}

Acks == {<<0, "none">>, <<1, "true">>, <<17, "true">>, <<1, "data">>,
         <<17, "data">>}

Packets(n) ==
  {Packet(type, e, a[1], a[2], 0, t) :
     type \in {"message", "json"}, e \in Endpoints, t \in Texts(n),
     a \in {b \in Acks : b[2] # "data"}}
  \cup {Packet("event", e, a[1], a[2], 1, t) :
     e \in Endpoints, t \in Texts(n), a \in {b \in Acks : b[2] # "true"}}
  \cup {Packet("ack", e, 0, "none", i, t) :
     e \in Endpoints, i \in {1, 17}, t \in Texts(n)}
  \cup {Packet("connect", e, 0, "none", 0, t) : e \in Endpoints, t \in Texts(n)}
  \cup {Packet(type, e, 0, "none", 0, <<>>) :
     type \in {"disconnect", "heartbeat"}, e \in Endpoints}
  \cup {Packet("error", e, 0, "none", i, t) :
     e \in Endpoints, i \in 0 .. NoReason, t \in {<<>>, Reconnect}}

Writable ==
  {Frame(type, t) : type \in {0, 1, 2, 3}, t \in Texts(MaxText)}
  \cup {Frame(type, Stringify(t)) :
          type \in {4, 5}, t \in Texts(MaxText) \ {<<>>}}

VARIABLES
  written,  \* packets the client has written since the last payload
  payload,  \* the text of the payload; NoText if there is none
  frame,    \* the frame the server has written; NoFrame if there is none
  parsed,   \* what the server made of the payload
  decoded   \* what the client's decoder makes of payload and frame

codecVars == <<written, payload, frame, parsed, decoded>>

NoText == <<>>
NoFrame == Frame(-1, <<>>)
Nobody == [frames |-> <<>>, threw |-> FALSE]

CodecInit ==
  /\ written = <<>>
  /\ payload = NoText
  /\ frame = NoFrame
  /\ parsed = Nobody
  /\ decoded = <<>>

(* transport.payload: the packets are encoded one by one.                  *)
ClientWrites ==
  /\ payload = NoText /\ frame = NoFrame
  /\ Len(written) < MaxPackets
  /\ written # <<>> => Len(written[1].text) <= MaxShort
  /\ \E p \in Packets(IF written = <<>> THEN MaxText ELSE MaxShort) :
       written' = Append(written, p)
  /\ UNCHANGED <<payload, frame, parsed, decoded>>

ClientSends ==
  /\ payload = NoText
  /\ written # <<>>
  /\ payload' = EncodePayload([i \in DOMAIN written |-> EncodePacket(written[i])])
  /\ UNCHANGED <<written, frame, parsed, decoded>>

(* The payload is read, by the server, and by the client's own decoder.    *)
PayloadIsRead ==
  /\ payload # NoText
  /\ decoded = <<>>
  /\ parsed' = ParseFrames(payload)
  /\ decoded' = DecodePayload(payload)
  /\ UNCHANGED <<written, payload, frame>>

(* The server writes a frame, which is one message of the WebSocket.       *)
ServerWrites ==
  /\ written = <<>> /\ frame = NoFrame
  /\ \E f \in Writable :
       /\ frame' = f
       /\ decoded' = DecodePayload(EncodeFrame(f))
  /\ UNCHANGED <<written, payload, parsed>>

CodecNext ==
  \/ ClientWrites
  \/ ClientSends
  \/ PayloadIsRead
  \/ ServerWrites

CodecSpec == CodecInit /\ [][CodecNext]_codecVars

(***************************************************************************)
(* Properties.                                                             *)
(***************************************************************************)

PayloadRead == payload # NoText /\ decoded # <<>>

NoColon(p) == Colon \notin Range(p.endpoint)

(* The format can carry the packet: a colon in the name of its namespace   *)
(* is taken for a delimiter, the arguments of an acknowledgment end with   *)
(* the line.                                                               *)
Legible(p) == NoColon(p) /\ (p.type = "ack" => LineEnd \notin Range(p.text))

(* Decoding undoes encoding, for payloads of any packets, whose data may   *)
(* look like a delimiter, a separator, an id or a length: each packet that *)
(* the format can carry is read, also beside one that it cannot.           *)
RoundTrip ==
  PayloadRead =>
    /\ Len(decoded) = Len(written)
    /\ \A i \in DOMAIN written : Legible(written[i]) => decoded[i] = written[i]

(* The client reads from a frame of the server the type and the data that  *)
(* the server wrote, and the root namespace.                               *)
ClientUnderstands ==
  frame # NoFrame =>
    decoded = <<WithData(Packet(Types[frame.type + 1], <<>>, 0, "none",
                                IF frame.type = 7 THEN NoReason ELSE 0, <<>>),
                         frame.data)>>

(* What the server reads from packets that have data, do not ask for data  *)
(* in their acknowledgment and have no colon in their namespace, are their *)
(* types and their data, at any place of a payload, whatever is in the     *)
(* data.                                                                   *)
Readable(p) == Data(p) # <<>> /\ p.ack # "data" /\ NoColon(p)

ServerUnderstands ==
  PayloadRead /\ (\A i \in DOMAIN written : Readable(written[i])) =>
    /\ ~parsed.threw
    /\ parsed.frames =
         [i \in DOMAIN written |->
            Frame(IndexOf(Types, written[i].type), Tail(Data(written[i])))]

==============================================================================
