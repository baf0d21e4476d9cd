------------------------- MODULE ClientNamespaceProofs --------------------------
(***************************************************************************)
(* What ClientNamespace promises, proved for any namespaces, any number of *)
(* messages and connections, and any application.                          *)
(*                                                                         *)
(* The inductive invariant says of every packet that may yet be            *)
(* acknowledged where its callback is, and of every callback whose message *)
(* it waits for; and, for the first connection, that the packets that the  *)
(* server has not read join a namespace before they use it.  Its parts are *)
(* predicates of a state of the client, as the operators of                *)
(* ClientNamespace are functions of one.                                   *)
(***************************************************************************)
EXTENDS ClientNamespace, FiniteSetTheorems, SequenceTheorems, TLAPS

(* A state of the client, within an event or between two.                  *)
Client ==
  [connected : BOOLEAN, reconnecting : BOOLEAN, doBuffer : BOOLEAN,
   buffer : Seq(Packet), namespaces : SUBSET Name, json : SUBSET Name,
   ackPackets : [Name -> 0 .. MaxMessages],
   acks : [Name -> [Message -> 0 .. MaxMessages]],
   left : SUBSET Name, messages : 0 .. MaxMessages,
   connections : 0 .. MaxConnections,
   called : [Message -> 0 .. 2], faulty : SUBSET Message,
   answers : SUBSET (Message \X Message),
   out : Seq(Packet), threw : BOOLEAN]

NoServer == [joined |-> {}, served |-> {}, early |-> {}]

(***************************************************************************)
(* Acknowledgments.                                                        *)
(***************************************************************************)

(* The callbacks of a namespace are those of different messages, which     *)
(* were sent and not acknowledged, unless the callback threw.              *)
Registered(s) ==
  /\ \A n \in Name, i \in Message : s.acks[n][i] # 0 =>
       /\ s.acks[n][i] <= s.messages
       /\ s.called[s.acks[n][i]] = 0 \/ s.acks[n][i] \in s.faulty
  /\ \A n, k \in Name, i, j \in Message :
       s.acks[n][i] # 0 /\ s.acks[n][i] = s.acks[k][j] => n = k /\ i = j

(* The ids of a namespace are of messages that were sent, and so are the   *)
(* callbacks that were called.                                             *)
Counted(s) ==
  /\ \A n \in Name : s.ackPackets[n] <= s.messages
  /\ \A m \in Message : s.called[m] > 0 => m <= s.messages
  /\ \A m \in Message : s.called[m] > 1 => m \in s.faulty
  /\ \A a \in s.answers : a[1] = a[2]

(* A packet that wants an acknowledgment has its callback where the id     *)
(* says, until it is called.                                               *)
Awaited(s, p) ==
  p.id > 0 =>
    /\ p.msg \in 1 .. s.messages
    /\ p.id <= s.ackPackets[p.endpoint]
    /\ \/ s.acks[p.endpoint][p.id] = p.msg
       \/ s.acks[p.endpoint][p.id] = 0 /\ s.called[p.msg] > 0

Elements(list) == {list[i] : i \in DOMAIN list}

Held(s) == Elements(s.buffer) \cup Elements(s.out)

Acks(s) ==
  /\ Registered(s) /\ Counted(s)
  /\ \A p \in Held(s) \cup Elements(wire) \cup server.served : Awaited(s, p)

(***************************************************************************)
(* Joining, on the first connection.                                       *)
(***************************************************************************)

Joins(p, n) == p.type = "connect" /\ p.endpoint = n

(* In a line of packets that the server will read, a namespace is joined   *)
(* before it is used, and left only if the application left it.            *)
Ready(list, joined, s) ==
  /\ \A n \in s.namespaces \ (s.left \cup {Root}) :
       n \in joined \/ \E k \in DOMAIN list : Joins(list[k], n)
  /\ \A k \in DOMAIN list :
       /\ list[k].type = "disconnect" => list[k].endpoint \in s.left \cup {Root}
       /\ list[k].msg > 0 =>
            \/ list[k].endpoint \in joined \cup s.left \cup {Root}
            \/ \E j \in DOMAIN list : j < k /\ Joins(list[j], list[k].endpoint)

(* The line: what is sent follows what is on the wire, and what waits      *)
(* follows both.                                                           *)
Line(s) == IF s.connected THEN (wire \o s.out) \o s.buffer ELSE s.buffer

(* While the socket has connected once at most, and is not down again.     *)
First(s) == s.connections = 0 \/ (s.connections = 1 /\ s.connected)

JoinInv(s) ==
  /\ s.left \subseteq s.namespaces
  /\ s.connected => s.connections > 0
  /\ s.connections = 0 => ~s.reconnecting /\ server = NoServer
  /\ ~Throws =>
       /\ ~s.threw
       /\ First(s) =>
            /\ s.connected /\ ~s.doBuffer => s.buffer = <<>>
            /\ Ready(Line(s), server.joined, s)
       /\ s.connections = 1 => \A p \in server.early : p.endpoint \in s.left

(***************************************************************************)
(* The flag json.                                                          *)
(***************************************************************************)

AsAsked(s) ==
  ~Throws => \A p \in Held(s) \cup Elements(wire) : p.type = p.wanted

Good(s) == IsFiniteSet(s.namespaces) /\ Acks(s) /\ JoinInv(s) /\ AsAsked(s)

IInv ==
  /\ TypeOK
  /\ c.out = <<>> /\ ~c.threw
  /\ ~Throws => c.json = {}
  /\ ~c.connected => wire = <<>> /\ server = NoServer
  /\ \A p \in server.served : p.id > 0
  /\ Good(c)

(***************************************************************************)
(* Lists of packets.                                                       *)
(***************************************************************************)

(* What a longer list holds.                                               *)
LEMMA AppendHolds ==
  ASSUME NEW list \in Seq(Packet), NEW p \in Packet
  PROVE  /\ Append(list, p) \in Seq(Packet)
         /\ Len(list) \in Nat /\ DOMAIN list = 1 .. Len(list)
         /\ DOMAIN Append(list, p) = 1 .. Len(list) + 1
         /\ \A k \in DOMAIN list : Append(list, p)[k] = list[k]
         /\ Append(list, p)[Len(list) + 1] = p
         /\ Elements(Append(list, p)) = Elements(list) \cup {p}
<1>1. Len(list) \in Nat /\ DOMAIN list = 1 .. Len(list)
  BY LenProperties
<1>2. /\ Append(list, p) \in Seq(Packet)
      /\ DOMAIN Append(list, p) = 1 .. Len(list) + 1
      /\ \A k \in DOMAIN list : Append(list, p)[k] = list[k]
      /\ Append(list, p)[Len(list) + 1] = p
  BY <1>1, AppendProperties, LenProperties
<1>3. DOMAIN Append(list, p) = DOMAIN list \cup {Len(list) + 1}
  BY <1>1, <1>2
<1>4. Elements(Append(list, p)) = Elements(list) \cup {p}
  <2> DEFINE longer == Append(list, p)
             n == Len(list) + 1
  <2>1. /\ DOMAIN longer = DOMAIN list \cup {n} /\ longer[n] = p
        /\ \A k \in DOMAIN list : longer[k] = list[k]
    BY <1>2, <1>3
  <2> HIDE DEF longer, n
  <2>2. Elements(longer) = Elements(list) \cup {p}
    BY <2>1 DEF Elements
  <2> QED
    BY <2>2 DEF longer
<1> QED
  BY <1>1, <1>2, <1>4

(* What two lists hold, one after the other.                               *)
LEMMA ConcatHolds ==
  ASSUME NEW a \in Seq(Packet), NEW b \in Seq(Packet)
  PROVE  /\ a \o b \in Seq(Packet)
         /\ Elements(a \o b) = Elements(a) \cup Elements(b)
<1>1. /\ a \o b \in Seq(Packet)
      /\ Len(a) \in Nat /\ Len(b) \in Nat
      /\ DOMAIN a = 1 .. Len(a) /\ DOMAIN b = 1 .. Len(b)
      /\ DOMAIN (a \o b) = 1 .. Len(a) + Len(b)
  BY LenProperties, ConcatProperties
<1> DEFINE both == a \o b
           m == Len(a)
           n == Len(b)
<1>2. \A k \in 1 .. m + n : both[k] = IF k <= m THEN a[k] ELSE b[k - m]
  BY ConcatProperties
<1>3. m \in Nat /\ n \in Nat /\ DOMAIN a = 1 .. m /\ DOMAIN b = 1 .. n
      /\ DOMAIN both = 1 .. m + n
  BY <1>1
<1> HIDE DEF both, m, n
<1>4. ASSUME NEW x \in Elements(both)
      PROVE  x \in Elements(a) \cup Elements(b)
  <2>1. PICK k \in 1 .. m + n : x = both[k]
    BY <1>3 DEF Elements
  <2>2. k \in 1 .. m \/ k - m \in 1 .. n
    BY <1>3
  <2> QED
    BY <1>2, <1>3, <2>1, <2>2 DEF Elements
<1>5. ASSUME NEW x \in Elements(a)
      PROVE  x \in Elements(both)
  <2>1. PICK k \in 1 .. m : x = a[k]
    BY <1>3 DEF Elements
  <2>2. k \in 1 .. m + n /\ k <= m
    BY <1>3
  <2> QED
    BY <1>2, <1>3, <2>1, <2>2 DEF Elements
<1>6. ASSUME NEW x \in Elements(b)
      PROVE  x \in Elements(both)
  <2>1. PICK k \in 1 .. n : x = b[k]
    BY <1>3 DEF Elements
  <2>2. k + m \in 1 .. m + n /\ ~(k + m <= m) /\ (k + m) - m = k
    BY <1>3
  <2>3. both[k + m] = b[k]
    BY <1>2, <2>2
  <2> QED
    BY <1>3, <2>1, <2>2, <2>3 DEF Elements
<1>7. Elements(both) = Elements(a) \cup Elements(b)
  BY <1>4, <1>5, <1>6
<1> QED
  BY <1>1, <1>7 DEF both

(* A packet at the end of the second list is at the end of both.           *)
LEMMA ConcatAppend ==
  ASSUME NEW a \in Seq(Packet), NEW b \in Seq(Packet), NEW p \in Packet
  PROVE  a \o Append(b, p) = Append(a \o b, p)
<1>1. Append(b, p) = b \o <<p>> /\ <<p>> \in Seq(Packet)
  BY AppendIsConcat
<1>2. a \o b \in Seq(Packet)
  BY ConcatHolds
<1>3. Append(a \o b, p) = (a \o b) \o <<p>>
  BY <1>2, AppendIsConcat
<1>4. (a \o b) \o <<p>> = a \o (b \o <<p>>)
  BY <1>1, ConcatAssociative
<1> QED
  BY <1>1, <1>3, <1>4

(* The first packet of two lists is that of the first one.                 *)
LEMMA ConcatTail ==
  ASSUME NEW a \in Seq(Packet), NEW b \in Seq(Packet), a # <<>>
  PROVE  /\ a \o b \in Seq(Packet) /\ a \o b # <<>>
         /\ Head(a \o b) = Head(a) /\ Tail(a \o b) = Tail(a) \o b
<1> DEFINE p == Head(a)
           rest == Tail(a)
<1>1. p \in Packet /\ rest \in Seq(Packet) /\ <<p>> \in Seq(Packet)
  BY HeadTailProperties
<1>2. a = <<p>> \o rest
  <2>1. Len(a) \in Nat /\ Len(a) >= 1 /\ DOMAIN a = 1 .. Len(a)
    BY LenProperties, EmptySeq
  <2>2. 1 \in 1 .. Len(a) /\ Len(a) \in 1 .. Len(a)
    BY <2>1
  <2>3. SubSeq(a, 1, Len(a)) = <<a[1]>> \o SubSeq(a, 2, Len(a))
    BY <2>2, SubSeqRecursiveFirst
  <2>4. SubSeq(a, 1, Len(a)) = a /\ rest = SubSeq(a, 2, Len(a)) /\ p = a[1]
    BY SubSeqFull, TailIsSubSeq, <2>1
  <2> QED
    BY <2>3, <2>4
<1> HIDE DEF p, rest
<1>3. a \o b = <<p>> \o (rest \o b) /\ rest \o b \in Seq(Packet)
  BY <1>1, <1>2, ConcatAssociative, ConcatProperties
<1>4. a \o b \in Seq(Packet)
  BY ConcatProperties
<1>5. a \o b # <<>>
  BY ConcatEqualIffEmpty
<1> DEFINE more == rest \o b
<1>6. Head(<<p>> \o more) = p /\ Tail(<<p>> \o more) = more
  <2> HIDE DEF more
  <2> QED
    BY <1>1, <1>3 DEF more
<1> QED
  BY <1>3, <1>4, <1>5, <1>6 DEF p, rest

(* A part of a list holds no more than the list.                           *)
LEMMA PartHolds ==
  ASSUME NEW list \in Seq(Packet), NEW i \in 1 .. Len(list) + 1,
         NEW j \in 0 .. Len(list)
  PROVE  /\ SubSeq(list, i, j) \in Seq(Packet)
         /\ Elements(SubSeq(list, i, j)) \subseteq Elements(list)
<1> DEFINE part == SubSeq(list, i, j)
           E == Elements(list)
<1>1. Len(list) \in Nat /\ DOMAIN list = 1 .. Len(list)
  BY LenProperties
<1>2. \A k \in i .. j : list[k] \in E /\ list[k] \in Packet
  BY <1>1, ElementOfSeq DEF Elements
<1>3. part \in Seq(E) /\ part \in Seq(Packet)
  <2> HIDE DEF E
  <2> QED
    BY <1>1, <1>2, SubSeqProperties
<1>4. \A k \in DOMAIN part : part[k] \in E
  <2> HIDE DEF part, E
  <2> QED
    BY <1>3, LenProperties, ElementOfSeq
<1> QED
  BY <1>3, <1>4 DEF Elements

(***************************************************************************)
(* States of the client.                                                   *)
(***************************************************************************)

SameAcks(s, r) ==
  /\ r.messages = s.messages /\ r.ackPackets = s.ackPackets
  /\ r.acks = s.acks /\ r.called = s.called /\ r.faulty = s.faulty
  /\ r.answers = s.answers

SameSocket(s, r) ==
  /\ r.connected = s.connected /\ r.reconnecting = s.reconnecting
  /\ r.connections = s.connections

(* Nothing is known of acknowledgments that a packet without id changes.   *)
LEMMA AcksStay ==
  ASSUME NEW s \in Client, NEW r \in Client, Acks(s), SameAcks(s, r),
         \A p \in Held(r) : p \in Held(s) \cup Elements(wire) \/ Awaited(s, p)
  PROVE  Acks(r)
<1>1. Registered(r) /\ Counted(r)
  BY DEF Acks, Registered, Counted, SameAcks
<1>2. \A p : Awaited(s, p) => Awaited(r, p)
  BY DEF Awaited, SameAcks
<1> QED
  BY <1>1, <1>2 DEF Acks

(* The line may become longer by a packet that joins what is new.          *)
LEMMA ReadyAppend ==
  ASSUME NEW s \in Client, NEW r \in Client,
         NEW list \in Seq(Packet), NEW p \in Packet, NEW joined,
         Ready(list, joined, s),
         s.left \subseteq r.left,
         \A n \in r.namespaces \ s.namespaces : n = Root \/ Joins(p, n),
         p.type = "disconnect" => p.endpoint \in r.left \cup {Root},
         p.msg > 0 => p.endpoint \in s.namespaces
  PROVE  Ready(Append(list, p), joined, r)
<1> DEFINE longer == Append(list, p)
           last == Len(list) + 1
<1>1. /\ Len(list) \in Nat /\ DOMAIN list = 1 .. Len(list)
      /\ DOMAIN longer = 1 .. last
      /\ \A k \in DOMAIN list : longer[k] = list[k]
      /\ longer[last] = p
  BY AppendHolds
<1>2. /\ DOMAIN longer = DOMAIN list \cup {last}
      /\ \A k \in DOMAIN list : k < last
  BY <1>1
<1> HIDE DEF longer, last
<1>3. ASSUME NEW n \in r.namespaces \ (r.left \cup {Root})
      PROVE  n \in joined \/ \E k \in DOMAIN longer : Joins(longer[k], n)
  <2>1. CASE n \in s.namespaces
    BY <1>1, <1>2, <2>1 DEF Ready
  <2>2. CASE n \notin s.namespaces
    BY <1>1, <1>2, <2>2
  <2> QED
    BY <2>1, <2>2
<1>4. ASSUME NEW k \in DOMAIN longer
      PROVE  /\ longer[k].type = "disconnect" =>
                  longer[k].endpoint \in r.left \cup {Root}
             /\ longer[k].msg > 0 =>
                  \/ longer[k].endpoint \in joined \cup r.left \cup {Root}
                  \/ \E j \in DOMAIN longer :
                       j < k /\ Joins(longer[j], longer[k].endpoint)
  <2>1. CASE k \in DOMAIN list
    BY <1>1, <1>2, <2>1 DEF Ready
  <2>2. CASE k = last
    <3>1. longer[k] = p
      BY <1>1, <2>2
    <3>2. ASSUME p.msg > 0, p.endpoint \notin joined \cup r.left \cup {Root}
          PROVE  \E j \in DOMAIN longer : j < k /\ Joins(longer[j], p.endpoint)
      <4>1. PICK j \in DOMAIN list : Joins(list[j], p.endpoint)
        BY <3>2 DEF Ready
      <4> QED
        BY <1>1, <1>2, <2>2, <4>1
    <3> QED
      BY <3>1, <3>2
  <2> QED
    BY <1>2, <2>1, <2>2
<1> QED
  BY <1>3, <1>4 DEF Ready, longer

(* Nothing new, but perhaps namespaces that the application left.          *)
LEMMA ReadyStays ==
  ASSUME NEW s, NEW r, NEW list, NEW joined, Ready(list, joined, s),
         s.left \subseteq r.left, r.namespaces \subseteq s.namespaces \cup {Root}
  PROVE  Ready(list, joined, r)
BY DEF Ready

(***************************************************************************)
(* Packets of a namespace.                                                 *)
(***************************************************************************)

(* What socket.packet does with a packet: it waits, is sent, or is refused *)
(* with an exception.                                                      *)
Waits(s, r, p) ==
  /\ ~s.connected \/ s.doBuffer
  /\ r.buffer = Append(s.buffer, p) /\ r.out = s.out
  /\ r.doBuffer = s.doBuffer /\ ~r.threw

Goes(s, r, p) ==
  /\ s.connected /\ ~s.doBuffer
  /\ r.out = Append(s.out, p) /\ r.buffer = s.buffer
  /\ r.doBuffer = Polls /\ ~r.threw

Refused(s, r) ==
  /\ s.connected /\ r.threw
  /\ r.out = s.out /\ r.buffer = s.buffer /\ r.json = s.json
  /\ r.doBuffer = s.doBuffer

(* The fields that NspPacket sets.                                         *)
LEMMA NspPacketFields ==
  ASSUME NEW s \in Client, NEW p \in Packet, NEW ok \in BOOLEAN, ~s.threw,
         Polls \in BOOLEAN
  PROVE  LET r == NspPacket(s, p, ok) IN
         /\ r \in Client /\ SameAcks(s, r) /\ SameSocket(s, r)
         /\ r.namespaces = s.namespaces /\ r.left = s.left
         /\ \/ Waits(s, r, p) /\ r.json = s.json \ {p.endpoint}
            \/ Goes(s, r, p) /\ r.json = s.json \ {p.endpoint}
            \/ Refused(s, r) /\ ~ok
<1>1. /\ s.buffer \in Seq(Packet) /\ s.out \in Seq(Packet)
      /\ s.json \in SUBSET Name
  BY DEF Client
<1> DEFINE json == s.json \ {p.endpoint}
<1>2. json \in SUBSET Name
  BY <1>1
<1> HIDE DEF json
<1>3. CASE ~s.connected \/ s.doBuffer
  <2> DEFINE list == Append(s.buffer, p)
             sent == [s EXCEPT !.buffer = list]
             r == [sent EXCEPT !.json = json]
  <2>1. SocketPacket(s, p, ok) = sent
    BY <1>3 DEF SocketPacket, Client
  <2>2. list \in Seq(Packet)
    BY <1>1
  <2> HIDE DEF list
  <2>3. sent \in Client
    BY <2>2, Zenon DEF Client
  <2>4. /\ SameAcks(s, sent) /\ SameSocket(s, sent)
        /\ sent.namespaces = s.namespaces /\ sent.left = s.left
        /\ sent.buffer = list /\ sent.out = s.out /\ ~sent.threw
        /\ sent.json = s.json /\ sent.doBuffer = s.doBuffer
    BY DEF Client, SameAcks, SameSocket
  <2>5. NspPacket(s, p, ok) = [sent EXCEPT !.json = s.json \ {p.endpoint}]
    <3> HIDE DEF sent
    <3> QED
      BY <2>1, <2>3, <2>4 DEF NspPacket, Client
  <2> HIDE DEF sent
  <2>6. r \in Client
    BY <1>2, <2>3, Zenon DEF Client
  <2>7. /\ SameAcks(s, r) /\ SameSocket(s, r)
        /\ r.namespaces = s.namespaces /\ r.left = s.left
        /\ r.buffer = list /\ r.out = s.out /\ ~r.threw /\ r.json = json
        /\ r.doBuffer = s.doBuffer
    BY <2>3, <2>4 DEF Client, SameAcks, SameSocket
  <2>8. NspPacket(s, p, ok) = r
    BY <2>5 DEF json
  <2> QED
    BY <1>3, <2>6, <2>7, <2>8 DEF Waits, list, json
<1>4. CASE s.connected /\ ~s.doBuffer /\ ok
  <2> DEFINE list == Append(s.out, p)
             sent == [s EXCEPT !.out = list, !.doBuffer = Polls]
             r == [sent EXCEPT !.json = json]
  <2>1. SocketPacket(s, p, ok) = sent
    BY <1>4 DEF SocketPacket, Client
  <2>2. list \in Seq(Packet)
    BY <1>1
  <2> HIDE DEF list
  <2>3. sent \in Client
    BY <2>2, Zenon DEF Client
  <2>4. /\ SameAcks(s, sent) /\ SameSocket(s, sent)
        /\ sent.namespaces = s.namespaces /\ sent.left = s.left
        /\ sent.buffer = s.buffer /\ sent.out = list /\ ~sent.threw
        /\ sent.json = s.json /\ sent.doBuffer = Polls
    BY DEF Client, SameAcks, SameSocket
  <2>5. NspPacket(s, p, ok) = [sent EXCEPT !.json = s.json \ {p.endpoint}]
    <3> HIDE DEF sent
    <3> QED
      BY <2>1, <2>3, <2>4 DEF NspPacket, Client
  <2> HIDE DEF sent
  <2>6. r \in Client
    BY <1>2, <2>3, Zenon DEF Client
  <2>7. /\ SameAcks(s, r) /\ SameSocket(s, r)
        /\ r.namespaces = s.namespaces /\ r.left = s.left
        /\ r.buffer = s.buffer /\ r.out = list /\ ~r.threw /\ r.json = json
        /\ r.doBuffer = Polls
    BY <2>3, <2>4 DEF Client, SameAcks, SameSocket
  <2>8. NspPacket(s, p, ok) = r
    BY <2>5 DEF json
  <2> QED
    BY <1>4, <2>6, <2>7, <2>8 DEF Goes, list, json
<1>5. CASE s.connected /\ ~s.doBuffer /\ ~ok
  <2> DEFINE r == [s EXCEPT !.threw = TRUE]
  <2>1. r \in Client
    BY Zenon DEF Client
  <2>2. /\ SameAcks(s, r) /\ SameSocket(s, r)
        /\ r.namespaces = s.namespaces /\ r.left = s.left
        /\ r.buffer = s.buffer /\ r.out = s.out /\ r.threw /\ r.json = s.json
        /\ r.doBuffer = s.doBuffer
    BY DEF Client, SameAcks, SameSocket
  <2>3. NspPacket(s, p, ok) = r
    BY <1>5, <2>2 DEF NspPacket, SocketPacket
  <2> QED
    BY <1>5, <2>1, <2>2, <2>3 DEF Refused
<1> QED
  BY <1>3, <1>4, <1>5

(* A packet is added to the line: it joins its namespace, or is of one     *)
(* that the client has.                                                    *)
LEMMA AddedIsGood ==
  ASSUME NEW s \in Client, NEW r \in Client, NEW p \in Packet,
         wire \in Seq(Packet), Good(s),
         SameAcks(s, r), SameSocket(s, r), Waits(s, r, p) \/ Goes(s, r, p),
         IsFiniteSet(r.namespaces), r.left \subseteq r.namespaces,
         s.left \subseteq r.left,
         \A n \in r.namespaces \ s.namespaces : n = Root \/ Joins(p, n),
         p.type = "disconnect" => p.endpoint \in r.left \cup {Root},
         p.msg > 0 => p.endpoint \in s.namespaces,
         Awaited(s, p), ~Throws => p.type = p.wanted
  PROVE  Good(r)
<1>1. s.buffer \in Seq(Packet) /\ s.out \in Seq(Packet)
  BY DEF Client
<1>2. Held(r) = Held(s) \cup {p}
  <2>1. CASE Waits(s, r, p)
    <3>1. Elements(r.buffer) = Elements(s.buffer) \cup {p} /\ r.out = s.out
      BY <1>1, <2>1, AppendHolds DEF Waits
    <3> QED
      BY <3>1 DEF Held
  <2>2. CASE Goes(s, r, p)
    <3>1. Elements(r.out) = Elements(s.out) \cup {p} /\ r.buffer = s.buffer
      BY <1>1, <2>2, AppendHolds DEF Goes
    <3> QED
      BY <3>1 DEF Held
  <2> QED
    BY <2>1, <2>2
<1>3. wire \o s.out \in Seq(Packet)
  BY <1>1, ConcatHolds
<1>4. Line(s) \in Seq(Packet)
  BY <1>1, <1>3, ConcatHolds DEF Line
<1>5. Acks(r)
  BY <1>2, AcksStay DEF Good
<1>6. JoinInv(r)
  <2>1. /\ r.connected => r.connections > 0
        /\ r.connections = 0 => ~r.reconnecting /\ server = NoServer
    BY DEF Good, JoinInv, SameSocket
  <2>2. ASSUME ~Throws
        PROVE  /\ ~r.threw
               /\ r.connections = 1 => \A q \in server.early : q.endpoint \in r.left
    BY <2>2 DEF Good, JoinInv, SameSocket, Waits, Goes
  <2>3. ASSUME ~Throws, First(r)
        PROVE  /\ r.connected /\ ~r.doBuffer => r.buffer = <<>>
               /\ Ready(Line(r), server.joined, r)
    <3>1. /\ s.connected /\ ~s.doBuffer => s.buffer = <<>>
          /\ Ready(Line(s), server.joined, s)
      BY <2>3 DEF Good, JoinInv, First, SameSocket
    <3>2. Line(r) = Append(Line(s), p)
      <4>1. CASE Waits(s, r, p)
        BY <1>1, <1>3, <4>1, ConcatAppend DEF Line, Waits, SameSocket
      <4>2. CASE Goes(s, r, p)
        <5>1. s.buffer = <<>> /\ r.buffer = <<>> /\ r.connected /\ s.connected
              /\ r.out = Append(s.out, p)
          BY <3>1, <4>2 DEF Goes, SameSocket
        <5>2. wire \o r.out = Append(wire \o s.out, p)
          BY <1>1, <5>1, ConcatAppend
        <5>3. wire \o r.out \in Seq(Packet)
          BY <1>3, <5>2, AppendHolds
        <5> QED
          BY <1>3, <5>1, <5>2, <5>3, ConcatEmptySeq DEF Line
      <4> QED
        BY <4>1, <4>2
    <3>3. Ready(Line(r), server.joined, r)
      BY <1>4, <3>1, <3>2, ReadyAppend
    <3>4. r.connected /\ ~r.doBuffer => r.buffer = <<>>
      BY <3>1 DEF Waits, Goes, SameSocket
    <3> QED
      BY <3>3, <3>4
  <2> QED
    BY <2>1, <2>2, <2>3 DEF JoinInv
<1>7. AsAsked(r)
  BY <1>2 DEF Good, AsAsked
<1> QED
  BY <1>5, <1>6, <1>7 DEF Good

(* Nothing is added to the line, because there was nothing to send, or it  *)
(* was refused.                                                            *)
LEMMA KeptIsGood ==
  ASSUME NEW s \in Client, NEW r \in Client, Good(s),
         SameAcks(s, r), SameSocket(s, r),
         r.buffer = s.buffer, r.out = s.out, r.doBuffer = s.doBuffer,
         IsFiniteSet(r.namespaces), r.left \subseteq r.namespaces,
         ~Throws => /\ ~r.threw /\ s.left \subseteq r.left
                    /\ r.namespaces \subseteq s.namespaces \cup {Root}
  PROVE  Good(r)
<1>1. Held(r) = Held(s)
  BY DEF Held
<1>2. Acks(r)
  BY <1>1, AcksStay DEF Good
<1>3. Line(r) = Line(s)
  BY DEF Line, SameSocket
<1>4. JoinInv(r)
  <2>1. /\ r.connected => r.connections > 0
        /\ r.connections = 0 => ~r.reconnecting /\ server = NoServer
    BY DEF Good, JoinInv, SameSocket
  <2>2. ASSUME ~Throws
        PROVE  /\ ~r.threw
               /\ r.connections = 1 => \A q \in server.early : q.endpoint \in r.left
    BY <2>2 DEF Good, JoinInv, SameSocket
  <2>3. ASSUME ~Throws, First(r)
        PROVE  /\ r.connected /\ ~r.doBuffer => r.buffer = <<>>
               /\ Ready(Line(r), server.joined, r)
    <3>1. /\ s.connected /\ ~s.doBuffer => s.buffer = <<>>
          /\ Ready(Line(s), server.joined, s)
      BY <2>3 DEF Good, JoinInv, First, SameSocket
    <3>2. Ready(Line(r), server.joined, r)
      BY <1>3, <2>3, <3>1, ReadyStays
    <3> QED
      BY <3>1, <3>2 DEF SameSocket
  <2> QED
    BY <2>1, <2>2, <2>3 DEF JoinInv
<1>5. AsAsked(r)
  BY <1>1 DEF Good, AsAsked
<1> QED
  BY <1>2, <1>4, <1>5 DEF Good

(* Control packets are packets, and want no acknowledgment.                *)
LEMMA Controls ==
  ASSUME NEW n \in Name, NEW s,
         NEW type \in {"connect", "disconnect", "ack"}
  PROVE  /\ Control(type, n) \in Packet
         /\ Control(type, n).type = type /\ Control(type, n).endpoint = n
         /\ Control(type, n).msg = 0 /\ Control(type, n).wanted = type
         /\ Awaited(s, Control(type, n))
<1>1. 0 \in 0 .. MaxMessages
  BY BoundsAssumption
<1>2. type \in PacketType
  BY DEF PacketType
<1>3. Control(type, n) \in Packet
  BY <1>1, <1>2, Zenon DEF Control, Packet
<1> QED
  BY <1>3 DEF Control, Awaited

(***************************************************************************)
(* The end of an event.                                                    *)
(***************************************************************************)

(* What was sent is on the wire then, or is lost.                          *)
LEMMA AtTheEnd ==
  ASSUME IInv, NEW s \in Client, Good(s), Becomes(s),
         ~Throws => s.json = {}
  PROVE  IInv'
<1> DEFINE r == [s EXCEPT !.threw = FALSE, !.out = <<>>]
<1>1. /\ c' = r /\ world' = world
      /\ wire' = IF s.connected THEN wire \o s.out ELSE <<>>
      /\ server' = IF s.connected /\ c.connected THEN server ELSE NoServer
  BY DEF Becomes, NoServer
<1>2. /\ world \in Worlds /\ wire \in Seq(Packet)
      /\ server \in [joined : SUBSET Name, served : SUBSET Packet,
                     early : SUBSET Packet]
      /\ ~c.connected => wire = <<>> /\ server = NoServer
  BY DEF IInv, TypeOK
<1>3. s.out \in Seq(Packet) /\ s.buffer \in Seq(Packet) /\ s.connected \in BOOLEAN
  BY DEF Client
<1>4. r \in Client
  <2>1. <<>> \in Seq(Packet)
    OBVIOUS
  <2> QED
    BY <2>1, Zenon DEF Client
<1>5. /\ SameAcks(s, r) /\ SameSocket(s, r)
      /\ r.namespaces = s.namespaces /\ r.left = s.left
      /\ r.json = s.json /\ r.buffer = s.buffer /\ r.out = <<>> /\ ~r.threw
      /\ r.doBuffer = s.doBuffer
  BY DEF Client, SameAcks, SameSocket
<1> HIDE DEF r
<1>6. Throws' = Throws
  BY <1>1 DEF Throws
<1>7. /\ server'.served \subseteq server.served
      /\ server'.early \subseteq server.early
  BY <1>1 DEF NoServer
<1>8. /\ wire' \in Seq(Packet)
      /\ Elements(wire') \subseteq Elements(wire) \cup Elements(s.out)
  <2>1. CASE s.connected
    BY <1>1, <1>2, <1>3, <2>1, ConcatHolds
  <2>2. CASE ~s.connected
    <3>1. wire' = <<>>
      BY <1>1, <2>2
    <3>2. Elements(<<>>) = {}
      BY DEF Elements
    <3> QED
      BY <3>1, <3>2
  <2> QED
    BY <2>1, <2>2
<1>9. Held(r) \subseteq Elements(s.buffer)
  BY <1>5 DEF Held, Elements
<1>10. Acks(c)'
  <2>1. \A p \in Held(r) \cup Elements(wire') \cup server'.served :
          p \in Held(s) \cup Elements(wire) \cup server.served
    BY <1>7, <1>8, <1>9 DEF Held
  <2>2. \A p : Awaited(s, p) => Awaited(r, p)
    BY <1>5 DEF Awaited, SameAcks
  <2>3. Registered(r) /\ Counted(r)
    BY <1>5 DEF Good, Acks, Registered, Counted, SameAcks
  <2>4. \A p \in Held(r) \cup Elements(wire') \cup server'.served : Awaited(r, p)
    BY <2>1, <2>2 DEF Good, Acks
  <2>5. Registered(c)' /\ Counted(c)'
    BY <1>1, <2>3 DEF Registered, Counted
  <2>6. \A p \in (Held(c) \cup Elements(wire) \cup server.served)' : Awaited(c, p)'
    BY <1>1, <2>4 DEF Held, Elements, Awaited
  <2> QED
    BY <2>5, <2>6 DEF Acks
<1>11. JoinInv(c)'
  <2>1. /\ r.left \subseteq r.namespaces
        /\ r.connected => r.connections > 0
        /\ r.connections = 0 => ~r.reconnecting /\ server' = NoServer
    BY <1>1, <1>5 DEF Good, JoinInv, SameSocket
  <2>2. ASSUME ~Throws
        PROVE  r.connections = 1 => \A q \in server'.early : q.endpoint \in r.left
    BY <1>5, <1>7, <2>2 DEF Good, JoinInv, SameSocket
  <2>3. ASSUME ~Throws, First(r)
        PROVE  /\ r.connected /\ ~r.doBuffer => r.buffer = <<>>
               /\ Ready(IF r.connected THEN (wire' \o r.out) \o r.buffer ELSE r.buffer,
                        server'.joined, r)
    <3>1. /\ s.connected /\ ~s.doBuffer => s.buffer = <<>>
          /\ Ready(Line(s), server.joined, s)
      BY <1>5, <2>3 DEF Good, JoinInv, First, SameSocket
    <3>2. server' = server
      <4>1. CASE s.connected /\ c.connected
        BY <1>1, <4>1
      <4>2. CASE s.connected /\ ~c.connected
        BY <1>1, <1>2, <4>2
      <4>3. CASE ~s.connected
        <5>1. s.connections = 0
          BY <1>5, <2>3, <4>3 DEF First, SameSocket
        <5> QED
          BY <1>1, <4>3, <5>1 DEF Good, JoinInv
      <4> QED
        BY <4>1, <4>2, <4>3
    <3>3. (IF r.connected THEN (wire' \o r.out) \o r.buffer ELSE r.buffer)
            = Line(s)
      <4>1. CASE s.connected
        <5>1. wire' = wire \o s.out /\ wire' \o <<>> = wire'
          BY <1>1, <1>8, <4>1, ConcatEmptySeq
        <5> QED
          BY <1>5, <4>1, <5>1 DEF Line, SameSocket
      <4>2. CASE ~s.connected
        BY <1>5, <4>2 DEF Line, SameSocket
      <4> QED
        BY <4>1, <4>2
    <3>4. Ready(Line(s), server.joined, r)
      BY <1>5, <3>1, ReadyStays
    <3> QED
      BY <1>5, <3>1, <3>2, <3>3, <3>4 DEF SameSocket
  <2> QED
    BY <1>1, <1>5, <1>6, <2>1, <2>2, <2>3 DEF JoinInv, Ready, First, Line
<1>12. AsAsked(c)'
  <2>1. ASSUME ~Throws
        PROVE  \A p \in Held(r) \cup Elements(wire') : p.type = p.wanted
    BY <1>8, <1>9, <2>1 DEF Good, AsAsked, Held
  <2> QED
    BY <1>1, <1>6, <2>1 DEF AsAsked, Held, Elements
<1>13. TypeOK'
  <2>1. c' \in Client
    BY <1>1, <1>4
  <2>2. server' \in [joined : SUBSET Name, served : SUBSET Packet,
                     early : SUBSET Packet]
    BY <1>1, <1>2 DEF NoServer
  <2> QED
    BY <1>1, <1>2, <1>8, <2>1, <2>2 DEF TypeOK, Client
<1>14. (~c.connected => wire = <<>> /\ server = NoServer)'
  BY <1>1, <1>5 DEF SameSocket, NoServer
<1>15. IsFiniteSet(c.namespaces)'
  BY <1>1, <1>5 DEF Good
<1>16. (\A p \in server.served : p.id > 0)'
  BY <1>7 DEF IInv
<1> QED
  BY <1>1, <1>5, <1>6, <1>10, <1>11, <1>12, <1>13, <1>14, <1>15, <1>16
  DEF IInv, Good

(***************************************************************************)
(* The events.                                                             *)
(***************************************************************************)

(* What the invariant says at the start of an event.                       *)
LEMMA AtTheStart ==
  IInv => /\ c \in Client /\ Good(c) /\ ~c.threw /\ c.out = <<>>
          /\ world \in Worlds /\ wire \in Seq(Packet)
          /\ server \in [joined : SUBSET Name, served : SUBSET Packet,
                         early : SUBSET Packet]
          /\ ~Throws => c.json = {}
          /\ c.left \subseteq c.namespaces /\ IsFiniteSet(c.namespaces)
          /\ ~c.connected => wire = <<>> /\ server = NoServer
          /\ \A p \in server.served : p.id > 0
          /\ Polls \in BOOLEAN
BY WorldsAssumption DEF IInv, TypeOK, Client, Good, JoinInv, Polls

(* A send is refused in the worlds where it may be.                        *)
LEMMA MayThrow ==
  ASSUME world \in Worlds, NEW ok \in Sends
  PROVE  ok \in BOOLEAN /\ (~ok => Throws)
BY WorldsAssumption DEF Sends, Throws

(* A namespace of its own, joined if it is not the root.                   *)
LEMMA OfStep ==
  ASSUME NEW s \in Client, Good(s), ~s.threw, wire \in Seq(Packet),
         s.left \subseteq s.namespaces, IsFiniteSet(s.namespaces),
         Polls \in BOOLEAN, NEW n \in Name, NEW ok \in BOOLEAN, ~ok => Throws
  PROVE  LET r == Of(s, n, ok) IN
         /\ r \in Client /\ Good(r) /\ SameAcks(s, r) /\ SameSocket(s, r)
         /\ r.left = s.left /\ r.json \subseteq s.json
         /\ IsFiniteSet(r.namespaces)
         /\ r.namespaces = s.namespaces \cup {n}
         /\ r.threw => Throws
<1> DEFINE names == s.namespaces \cup {n}
           made == [s EXCEPT !.namespaces = names]
           r == Of(s, n, ok)
<1>1. names \in SUBSET Name /\ IsFiniteSet(names)
  BY FS_AddElement DEF Client
<1>2. names = s.namespaces \cup {n}
  OBVIOUS
<1> HIDE DEF names
<1>3. made \in Client
  BY <1>1, Zenon DEF Client
<1>4. /\ SameAcks(s, made) /\ SameSocket(s, made) /\ made.namespaces = names
      /\ made.left = s.left /\ made.json = s.json
      /\ made.buffer = s.buffer /\ made.out = s.out /\ ~made.threw
      /\ made.doBuffer = s.doBuffer
  BY DEF Client, SameAcks, SameSocket
<1>5. r = IF n \in s.namespaces THEN s
          ELSE IF n = Root THEN made
          ELSE NspPacket(made, Control("connect", n), ok)
  BY <1>2 DEF Of, Client
<1> HIDE DEF made, r
<1>6. CASE n \in s.namespaces
  <2>1. r = s /\ s.namespaces = s.namespaces \cup {n}
    BY <1>5, <1>6
  <2> QED
    BY <2>1 DEF SameAcks, SameSocket, r
<1>7. CASE n \notin s.namespaces /\ n = Root
  <2>1. r = made
    BY <1>5, <1>7
  <2>2. Good(made)
    BY <1>1, <1>2, <1>3, <1>4, <1>7, KeptIsGood
  <2> QED
    BY <1>1, <1>2, <1>3, <1>4, <2>1, <2>2 DEF r
<1>8. CASE n \notin s.namespaces /\ n # Root
  <2> DEFINE p == Control("connect", n)
  <2>1. r = NspPacket(made, p, ok)
    BY <1>5, <1>8
  <2>2. /\ p \in Packet /\ p.type = "connect" /\ p.endpoint = n
        /\ p.msg = 0 /\ p.wanted = "connect" /\ Awaited(s, p)
    BY Controls
  <2> HIDE DEF p
  <2>3. /\ r \in Client /\ SameAcks(made, r) /\ SameSocket(made, r)
        /\ r.namespaces = made.namespaces /\ r.left = made.left
        /\ \/ Waits(made, r, p) /\ r.json = made.json \ {p.endpoint}
           \/ Goes(made, r, p) /\ r.json = made.json \ {p.endpoint}
           \/ Refused(made, r) /\ ~ok
    BY <1>3, <1>4, <2>1, <2>2, NspPacketFields
  <2>4. SameAcks(s, r) /\ SameSocket(s, r)
    BY <1>4, <2>3 DEF SameAcks, SameSocket
  <2>5. r.json \subseteq s.json
    BY <1>4, <2>3 DEF Refused
  <2>6. Good(r)
    <3>1. CASE Waits(made, r, p) \/ Goes(made, r, p)
      <4>1. Waits(s, r, p) \/ Goes(s, r, p)
        BY <1>4, <3>1 DEF Waits, Goes, SameSocket
      <4>2. /\ IsFiniteSet(r.namespaces) /\ r.left \subseteq r.namespaces
            /\ s.left \subseteq r.left
            /\ \A k \in r.namespaces \ s.namespaces : k = Root \/ Joins(p, k)
        BY <1>1, <1>2, <1>4, <2>2, <2>3 DEF Joins
      <4> QED
        BY <2>2, <2>3, <2>4, <4>1, <4>2, AddedIsGood
    <3>2. CASE Refused(made, r) /\ ~ok
      BY <1>1, <1>2, <1>4, <2>3, <2>4, <3>2, KeptIsGood DEF Refused
    <3> QED
      BY <2>3, <3>1, <3>2
  <2>7. r.threw => Throws
    BY <2>3 DEF Waits, Goes
  <2> QED
    BY <1>1, <1>2, <1>4, <2>3, <2>4, <2>5, <2>6, <2>7 DEF r
<1> QED
  BY <1>6, <1>7, <1>8

(* An acknowledgment, or a control packet of the root.                     *)
LEMMA ControlStep ==
  ASSUME NEW s \in Client, Good(s), ~s.threw, wire \in Seq(Packet),
         Polls \in BOOLEAN, NEW type \in {"disconnect", "ack"},
         NEW n \in Name, type = "ack" \/ n = Root,
         NEW ok \in BOOLEAN, ~ok => Throws
  PROVE  LET r == NspPacket(s, Control(type, n), ok) IN
         /\ r \in Client /\ Good(r) /\ SameSocket(s, r)
         /\ ~Throws => r.json \subseteq s.json
<1> DEFINE p == Control(type, n)
           r == NspPacket(s, p, ok)
<1>1. /\ p \in Packet /\ p.type = type /\ p.endpoint = n
      /\ p.msg = 0 /\ p.wanted = type /\ Awaited(s, p)
  BY Controls
<1> HIDE DEF p
<1>2. /\ r \in Client /\ SameAcks(s, r) /\ SameSocket(s, r)
      /\ r.namespaces = s.namespaces /\ r.left = s.left
      /\ \/ Waits(s, r, p) /\ r.json = s.json \ {p.endpoint}
         \/ Goes(s, r, p) /\ r.json = s.json \ {p.endpoint}
         \/ Refused(s, r) /\ ~ok
  BY <1>1, NspPacketFields
<1> HIDE DEF r
<1>3. IsFiniteSet(s.namespaces) /\ s.left \subseteq s.namespaces
  BY DEF Good, JoinInv
<1>4. Good(r)
  <2>1. CASE Waits(s, r, p) \/ Goes(s, r, p)
    BY <1>1, <1>2, <1>3, <2>1, AddedIsGood
  <2>2. CASE Refused(s, r) /\ ~ok
    BY <1>2, <1>3, <2>2, KeptIsGood DEF Refused
  <2> QED
    BY <1>2, <2>1, <2>2
<1>5. ~Throws => r.json \subseteq s.json
  BY <1>2
<1> QED
  BY <1>2, <1>4, <1>5 DEF r, p

(* io.connect makes a namespace that was not there.                        *)
LEMMA UserOfStep ==
  ASSUME IInv, NEW n \in Name, UserOf(n)
  PROVE  IInv'
<1>1. PICK ok \in Sends : Becomes([Of(c, n, ok) EXCEPT !.left = @ \ {n}])
  BY DEF UserOf
<1> DEFINE s == Of(c, n, ok)
           r == [s EXCEPT !.left = s.left \ {n}]
<1>2. ok \in BOOLEAN /\ (~ok => Throws)
  BY AtTheStart, MayThrow
<1>3. /\ s \in Client /\ Good(s) /\ s.left = c.left
      /\ s.json \subseteq c.json
  BY <1>2, AtTheStart, OfStep
<1>4. Becomes(r)
  <2>1. [s EXCEPT !.left = @ \ {n}] = r
    BY <1>3 DEF Client
  <2> HIDE DEF r
  <2> QED
    BY <1>1, <2>1
<1> HIDE DEF s
<1>5. r = s
  <2>1. s.left \ {n} = s.left
    BY <1>3, AtTheStart DEF UserOf
  <2> QED
    BY <1>3, <2>1 DEF Client
<1> QED
  BY <1>3, <1>4, <1>5, AtTheStart, AtTheEnd

(* namespace.disconnect.                                                   *)
LEMMA UserLeavesStep ==
  ASSUME IInv, NEW n \in Name, UserLeaves(n)
  PROVE  IInv'
<1> DEFINE p == Control("disconnect", n)
<1>1. PICK ok \in Sends :
        LET s == NspPacket(c, p, ok) IN
        Becomes(IF s.threw THEN s ELSE [s EXCEPT !.left = @ \cup {n}])
  BY DEF UserLeaves
<1> DEFINE s == NspPacket(c, p, ok)
           left == s.left \cup {n}
           r == [s EXCEPT !.left = left]
<1>2. ok \in BOOLEAN /\ (~ok => Throws)
  BY AtTheStart, MayThrow
<1>3. /\ p \in Packet /\ p.type = "disconnect" /\ p.endpoint = n
      /\ p.msg = 0 /\ p.wanted = "disconnect" /\ Awaited(c, p)
  BY Controls
<1> HIDE DEF p
<1>4. /\ s \in Client /\ SameAcks(c, s) /\ SameSocket(c, s)
      /\ s.namespaces = c.namespaces /\ s.left = c.left
      /\ \/ Waits(c, s, p) /\ s.json = c.json \ {p.endpoint}
         \/ Goes(c, s, p) /\ s.json = c.json \ {p.endpoint}
         \/ Refused(c, s) /\ ~ok
  BY <1>2, <1>3, AtTheStart, NspPacketFields
<1> HIDE DEF s
<1>5. n \in c.namespaces /\ c.left \subseteq c.namespaces
      /\ IsFiniteSet(c.namespaces) /\ Good(c) /\ c \in Client
      /\ wire \in Seq(Packet) /\ (~Throws => c.json = {})
  BY AtTheStart DEF UserLeaves
<1>6. Becomes(IF s.threw THEN s ELSE r)
  <2>1. [s EXCEPT !.left = @ \cup {n}] = r
    BY <1>4 DEF Client
  <2> HIDE DEF r
  <2> QED
    BY <1>1, <2>1 DEF s
<1>7. CASE Refused(c, s) /\ ~ok
  <2>1. Good(s)
    BY <1>2, <1>4, <1>5, <1>7, KeptIsGood DEF Refused
  <2>2. s.threw
    BY <1>7 DEF Refused
  <2> QED
    BY <1>2, <1>4, <1>6, <1>7, <2>1, <2>2, AtTheEnd
<1>8. CASE /\ Waits(c, s, p) \/ Goes(c, s, p)
           /\ s.json = c.json \ {p.endpoint}
  <2>1. ~s.threw
    BY <1>8 DEF Waits, Goes
  <2>2. left \in SUBSET Name
    BY <1>4 DEF Client
  <2>3. c.left \subseteq left /\ left \subseteq c.namespaces /\ n \in left
    BY <1>4, <1>5
  <2> HIDE DEF left
  <2>4. r \in Client
    BY <1>4, <2>2, Zenon DEF Client
  <2>5. /\ SameAcks(c, r) /\ SameSocket(c, r)
        /\ r.namespaces = c.namespaces /\ r.left = left
        /\ r.json = s.json /\ r.buffer = s.buffer /\ r.out = s.out
        /\ r.threw = s.threw /\ r.doBuffer = s.doBuffer
    BY <1>4 DEF Client, SameAcks, SameSocket
  <2> HIDE DEF r
  <2>6. Waits(c, r, p) \/ Goes(c, r, p)
    BY <1>8, <2>5 DEF Waits, Goes
  <2>7. Good(r)
    BY <1>3, <1>5, <2>3, <2>4, <2>5, <2>6, AddedIsGood
  <2>8. ~Throws => r.json = {}
    BY <1>5, <1>8, <2>5
  <2> QED
    BY <1>6, <2>1, <2>4, <2>7, <2>8, AtTheEnd
<1> QED
  BY <1>4, <1>7, <1>8

(* The message that the application sends next is numbered m, and has the  *)
(* next id of its namespace if it wants an acknowledgment.                 *)
Numbered(s, r, n, ack) ==
  LET m == s.messages + 1
      id == s.ackPackets[n] + 1
  IN
  /\ r.messages = m
  /\ \A k \in Name :
       r.ackPackets[k] = IF ack /\ k = n THEN id ELSE s.ackPackets[k]
  /\ \A k \in Name, i \in Message :
       r.acks[k][i] = IF ack /\ k = n /\ i = id THEN m ELSE s.acks[k][i]
  /\ r.called = s.called /\ r.faulty = s.faulty /\ r.answers = s.answers

SameLine(s, r) ==
  /\ r.namespaces = s.namespaces /\ r.left = s.left
  /\ r.buffer = s.buffer /\ r.out = s.out /\ r.threw = s.threw
  /\ r.doBuffer = s.doBuffer

(* A new id disturbs no callback that waits.                               *)
LEMMA NumberedIsGood ==
  ASSUME NEW s \in Client, NEW r \in Client, Good(s),
         wire \in Seq(Packet), server.served \subseteq Packet,
         NEW n \in Name, NEW ack \in BOOLEAN, s.messages < MaxMessages,
         Numbered(s, r, n, ack), SameSocket(s, r), SameLine(s, r)
  PROVE  /\ Good(r)
         /\ r.messages \in Message
         /\ ack => /\ s.ackPackets[n] + 1 \in Message
                   /\ r.ackPackets[n] = s.ackPackets[n] + 1
                   /\ r.acks[n][s.ackPackets[n] + 1] = r.messages
<1> DEFINE m == s.messages + 1
           id == s.ackPackets[n] + 1
<1>1. /\ MaxMessages \in Nat /\ s.messages \in 0 .. MaxMessages
      /\ \A k \in Name : s.ackPackets[k] \in 0 .. MaxMessages
      /\ \A k \in Name, i \in Message : s.acks[k][i] \in 0 .. MaxMessages
      /\ \A i \in Message : s.called[i] \in 0 .. 2
  BY BoundsAssumption DEF Client
<1>2. Registered(s) /\ Counted(s)
  BY DEF Good, Acks
<1>3. m \in Message /\ s.messages \in Nat /\ s.messages < m
  BY <1>1 DEF Message
<1>4. s.ackPackets[n] <= s.messages
  BY <1>2 DEF Counted
<1>5. id \in Message /\ \A k \in Name : s.ackPackets[k] \in Nat
  BY <1>1, <1>4 DEF Message
<1>6. s.called[m] = 0
  <2>1. s.called[m] \in 0 .. 2 /\ ~(m <= s.messages)
    BY <1>1, <1>3
  <2>2. ~(s.called[m] > 0)
    BY <1>2, <1>3, <2>1 DEF Counted
  <2> QED
    BY <2>1, <2>2
<1>7. \A k \in Name, i \in Message :
        /\ s.acks[k][i] \in Nat
        /\ s.acks[k][i] # 0 => s.acks[k][i] <= s.messages
  BY <1>1, <1>2 DEF Registered
<1>8. \A k \in Name, i \in Message :
        r.acks[k][i] = IF ack /\ k = n /\ i = id THEN m ELSE s.acks[k][i]
  BY DEF Numbered
<1>9. /\ r.messages = m
      /\ \A k \in Name :
           r.ackPackets[k] = IF ack /\ k = n THEN id ELSE s.ackPackets[k]
      /\ r.called = s.called /\ r.faulty = s.faulty /\ r.answers = s.answers
  BY DEF Numbered
<1> HIDE DEF m
<1>10. Registered(r)
  <2>1. ASSUME NEW k \in Name, NEW i \in Message, r.acks[k][i] # 0
        PROVE  /\ r.acks[k][i] <= r.messages
               /\ r.called[r.acks[k][i]] = 0 \/ r.acks[k][i] \in r.faulty
    <3>1. CASE ack /\ k = n /\ i = id
      <4>1. r.acks[k][i] = m
        BY <1>8, <3>1
      <4> QED
        BY <1>3, <1>6, <1>9, <4>1 DEF Message
    <3>2. CASE ~(ack /\ k = n /\ i = id)
      <4>1. r.acks[k][i] = s.acks[k][i]
        BY <1>8, <3>2
      <4>2. /\ s.acks[k][i] <= s.messages
            /\ s.called[s.acks[k][i]] = 0 \/ s.acks[k][i] \in s.faulty
        BY <1>2, <2>1, <4>1 DEF Registered
      <4>3. s.acks[k][i] <= m
        BY <1>3, <1>7, <4>2 DEF m
      <4> QED
        BY <1>9, <4>1, <4>2, <4>3
    <3> QED
      BY <3>1, <3>2
  <2>2. ASSUME NEW k \in Name, NEW j \in Name, NEW i \in Message,
               NEW h \in Message, r.acks[k][i] # 0, r.acks[k][i] = r.acks[j][h]
        PROVE  k = j /\ i = h
    <3>1. CASE (ack /\ k = n /\ i = id) /\ (ack /\ j = n /\ h = id)
      BY <3>1
    <3>2. CASE (ack /\ k = n /\ i = id) /\ ~(ack /\ j = n /\ h = id)
      <4>1. s.acks[j][h] = m
        BY <1>8, <2>2, <3>2
      <4> QED
        BY <1>3, <1>7, <4>1
    <3>3. CASE ~(ack /\ k = n /\ i = id) /\ (ack /\ j = n /\ h = id)
      <4>1. s.acks[k][i] = m
        BY <1>8, <2>2, <3>3
      <4> QED
        BY <1>3, <1>7, <4>1
    <3>4. CASE ~(ack /\ k = n /\ i = id) /\ ~(ack /\ j = n /\ h = id)
      <4>1. s.acks[k][i] # 0 /\ s.acks[k][i] = s.acks[j][h]
        BY <1>8, <2>2, <3>4
      <4> QED
        BY <1>2, <4>1 DEF Registered
    <3> QED
      BY <3>1, <3>2, <3>3, <3>4
  <2> QED
    BY <2>1, <2>2 DEF Registered
<1>11. Counted(r)
  <2>1. \A k \in Name : r.ackPackets[k] <= r.messages
    <3>1. \A k \in Name : s.ackPackets[k] <= s.messages
      BY <1>2 DEF Counted
    <3> QED
      BY <1>3, <1>4, <1>5, <1>9, <3>1 DEF m
  <2>2. \A i \in Message : r.called[i] > 0 => i <= r.messages
    <3>1. \A i \in Message : s.called[i] > 0 => i <= s.messages
      BY <1>2 DEF Counted
    <3> QED
      BY <1>3, <1>9, <3>1 DEF m, Message
  <2> QED
    BY <1>2, <1>9, <2>1, <2>2 DEF Counted
<1>12. ASSUME NEW p \in Packet, Awaited(s, p)
       PROVE  Awaited(r, p)
  <2>1. p.id \in 0 .. MaxMessages /\ p.endpoint \in Name
    BY DEF Packet
  <2>2. SUFFICES ASSUME p.id > 0
                 PROVE  /\ p.msg \in 1 .. r.messages
                        /\ p.id <= r.ackPackets[p.endpoint]
                        /\ \/ r.acks[p.endpoint][p.id] = p.msg
                           \/ /\ r.acks[p.endpoint][p.id] = 0
                              /\ r.called[p.msg] > 0
    BY DEF Awaited
  <2>3. /\ p.msg \in 1 .. s.messages
        /\ p.id <= s.ackPackets[p.endpoint]
        /\ \/ s.acks[p.endpoint][p.id] = p.msg
           \/ s.acks[p.endpoint][p.id] = 0 /\ s.called[p.msg] > 0
    BY <1>12, <2>2 DEF Awaited
  <2>4. p.id \in Message
    BY <2>1, <2>2 DEF Message
  <2>5. ~(p.endpoint = n /\ p.id = id)
    BY <1>5, <2>3
  <2>6. r.acks[p.endpoint][p.id] = s.acks[p.endpoint][p.id]
    BY <1>8, <2>1, <2>4, <2>5
  <2>7. p.msg \in 1 .. r.messages
    BY <1>3, <1>9, <2>3 DEF m
  <2>8. p.id <= r.ackPackets[p.endpoint]
    BY <1>5, <1>9, <2>1, <2>3, <2>4 DEF Message
  <2> QED
    BY <1>9, <2>3, <2>6, <2>7, <2>8
<1>13. Held(r) = Held(s)
  BY DEF Held, SameLine
<1>14. Acks(r)
  <2>1. s.buffer \in Seq(Packet) /\ s.out \in Seq(Packet)
    BY DEF Client
  <2>2. \A list \in Seq(Packet) : Elements(list) \subseteq Packet
    BY ElementOfSeq DEF Elements
  <2>3. Held(s) \cup Elements(wire) \cup server.served \subseteq Packet
    BY <2>1, <2>2 DEF Held
  <2>4. \A p \in Held(s) \cup Elements(wire) \cup server.served : Awaited(s, p)
    BY DEF Good, Acks
  <2> QED
    BY <1>10, <1>11, <1>12, <1>13, <2>3, <2>4 DEF Acks
<1>15. JoinInv(r)
  BY DEF Good, JoinInv, SameLine, SameSocket, First, Line, Ready
<1>16. AsAsked(r)
  BY <1>13 DEF Good, AsAsked
<1>17. Good(r)
  BY <1>14, <1>15, <1>16 DEF Good, SameLine
<1>18. r.messages \in Message
  BY <1>3, <1>9
<1>19. ack => /\ r.ackPackets[n] = id
              /\ r.acks[n][id] = r.messages
  BY <1>5, <1>8, <1>9
<1> QED
  BY <1>5, <1>17, <1>18, <1>19

(* send and emit.                                                          *)
LEMMA WithIdStep ==
  ASSUME NEW s \in Client, Good(s), ~s.threw,
         wire \in Seq(Packet), server.served \subseteq Packet, Polls \in BOOLEAN,
         NEW n \in Name, n \in s.namespaces, s.messages < MaxMessages,
         NEW type \in {"message", "json", "event"},
         NEW wanted \in {"message", "json", "event"},
         NEW ack \in BOOLEAN, NEW ok \in BOOLEAN, ~ok => Throws,
         ~Throws => type = wanted /\ s.json \subseteq {n}
  PROVE  LET r == WithId(s, n, type, wanted, ack, ok) IN
         r \in Client /\ Good(r) /\ (~Throws => r.json = {})
<1> DEFINE m == s.messages + 1
           id == IF ack THEN s.ackPackets[n] + 1 ELSE 0
           ids == [s.ackPackets EXCEPT ![n] = IF ack THEN id ELSE s.ackPackets[n]]
           row == [i \in Message |-> IF ack /\ i = id THEN m ELSE s.acks[n][i]]
           table == [s.acks EXCEPT ![n] = row]
           asked == [s EXCEPT !.messages = m, !.ackPackets = ids, !.acks = table]
           p == [type |-> type, endpoint |-> n, id |-> id, msg |-> m,
                 wanted |-> wanted]
           r == NspPacket(asked, p, ok)
<1>1. /\ MaxMessages \in Nat /\ s.messages \in 0 .. MaxMessages
      /\ s.ackPackets \in [Name -> 0 .. MaxMessages]
      /\ s.acks \in [Name -> [Message -> 0 .. MaxMessages]]
  BY BoundsAssumption DEF Client
<1>2. s.ackPackets[n] <= s.messages /\ s.ackPackets[n] \in 0 .. MaxMessages
  BY <1>1 DEF Good, Acks, Counted
<1>3. /\ m \in 0 .. MaxMessages /\ m \in Message /\ m > 0
      /\ id \in 0 .. MaxMessages
  BY <1>1, <1>2 DEF Message
<1>4. ids \in [Name -> 0 .. MaxMessages]
  BY <1>1, <1>3
<1>5. row \in [Message -> 0 .. MaxMessages]
  BY <1>1, <1>3
<1>6. table \in [Name -> [Message -> 0 .. MaxMessages]]
  <2> HIDE DEF row
  <2> QED
    BY <1>1, <1>5
<1>7. /\ \A k \in Name :
           ids[k] = IF ack /\ k = n THEN s.ackPackets[n] + 1 ELSE s.ackPackets[k]
      /\ \A k \in Name, i \in Message :
           table[k][i] = IF ack /\ k = n /\ i = s.ackPackets[n] + 1
                         THEN m ELSE s.acks[k][i]
  <2>1. \A k \in Name :
          ids[k] = IF ack /\ k = n THEN s.ackPackets[n] + 1 ELSE s.ackPackets[k]
    BY <1>1
  <2>2. \A i \in Message : row[i] = IF ack /\ i = s.ackPackets[n] + 1
                                    THEN m ELSE s.acks[n][i]
    OBVIOUS
  <2> HIDE DEF row
  <2>3. \A k \in Name : table[k] = IF k = n THEN row ELSE s.acks[k]
    BY <1>1
  <2> HIDE DEF table, m
  <2> QED
    BY <2>1, <2>2, <2>3
<1>8. [s EXCEPT
        !.messages = m,
        !.ackPackets[n] = IF ack THEN id ELSE @,
        !.acks[n] = [i \in Message |-> IF ack /\ i = id THEN m ELSE @[i]]]
      = asked
  <2> HIDE DEF m, id
  <2> QED
    BY DEF Client
<1>9. WithId(s, n, type, wanted, ack, ok) = r
  <2> HIDE DEF asked
  <2> QED
    BY <1>8 DEF WithId
<1> HIDE DEF ids, table, row
<1>10. asked \in Client
  <2> HIDE DEF m
  <2> QED
    BY <1>3, <1>4, <1>6, Zenon DEF Client
<1>11. /\ asked.messages = m /\ asked.ackPackets = ids /\ asked.acks = table
       /\ asked.called = s.called /\ asked.faulty = s.faulty
       /\ asked.answers = s.answers
       /\ SameSocket(s, asked) /\ SameLine(s, asked)
       /\ asked.json = s.json
  BY DEF Client, SameSocket, SameLine
<1> HIDE DEF asked
<1>12. Numbered(s, asked, n, ack)
  BY <1>7, <1>11 DEF Numbered
<1>13. /\ Good(asked)
       /\ ack => asked.acks[n][s.ackPackets[n] + 1] = m
       /\ ack => asked.ackPackets[n] = s.ackPackets[n] + 1
  BY <1>10, <1>11, <1>12, NumberedIsGood
<1>14. /\ p \in Packet /\ p.endpoint = n /\ p.msg = m /\ p.id = id
       /\ p.type = type /\ p.wanted = wanted
  <2>1. type \in PacketType /\ wanted \in PacketType
    BY DEF PacketType
  <2> HIDE DEF m, id
  <2> QED
    BY <1>3, <2>1, Zenon DEF Packet
<1>15. Awaited(asked, p)
  <2> HIDE DEF p
  <2>1. CASE ack
    <3>1. id = s.ackPackets[n] + 1 /\ m \in 1 .. m
      BY <1>3, <2>1 DEF Message
    <3> QED
      BY <1>2, <1>11, <1>13, <1>14, <2>1, <3>1 DEF Awaited
  <2>2. CASE ~ack
    BY <1>14, <2>2 DEF Awaited
  <2> QED
    BY <2>1, <2>2
<1> HIDE DEF p, m, id
<1>16. asked.namespaces = s.namespaces /\ ~asked.threw
  BY <1>11 DEF SameLine
<1>17. /\ r \in Client /\ SameAcks(asked, r) /\ SameSocket(asked, r)
       /\ r.namespaces = asked.namespaces /\ r.left = asked.left
       /\ \/ Waits(asked, r, p) /\ r.json = asked.json \ {p.endpoint}
          \/ Goes(asked, r, p) /\ r.json = asked.json \ {p.endpoint}
          \/ Refused(asked, r) /\ ~ok
  BY <1>10, <1>14, <1>16, NspPacketFields
<1> HIDE DEF r
<1>18. /\ IsFiniteSet(asked.namespaces) /\ asked.left \subseteq asked.namespaces
       /\ asked.left \subseteq r.left
  BY <1>13, <1>17 DEF Good, JoinInv
<1>19. Good(r)
  <2>1. CASE Waits(asked, r, p) \/ Goes(asked, r, p)
    <3>1. p.type # "disconnect" /\ p.endpoint \in asked.namespaces
      BY <1>14, <1>16
    <3>2. ~Throws => p.type = p.wanted
      BY <1>14
    <3> QED
      BY <1>10, <1>13, <1>14, <1>15, <1>17, <1>18, <2>1, <3>1, <3>2, AddedIsGood
  <2>2. CASE Refused(asked, r) /\ ~ok
    BY <1>10, <1>13, <1>17, <1>18, <2>2, KeptIsGood DEF Refused
  <2> QED
    BY <1>17, <2>1, <2>2
<1>20. ~Throws => r.json = {}
  BY <1>11, <1>14, <1>17
<1> QED
  BY <1>9, <1>17, <1>19, <1>20

(* The flag json is set before a send.                                     *)
LEMMA FlaggedStep ==
  ASSUME NEW s \in Client, Good(s), NEW n \in Name
  PROVE  LET r == Flagged(s, n) IN
         /\ r \in Client /\ Good(r) /\ r.json = s.json \cup {n}
         /\ r.messages = s.messages /\ r.namespaces = s.namespaces
         /\ r.threw = s.threw
<1> DEFINE flags == s.json \cup {n}
           r == [s EXCEPT !.json = flags]
<1>1. flags \in SUBSET Name
  BY DEF Client
<1>2. Flagged(s, n) = r
  BY DEF Flagged, Client
<1> HIDE DEF flags
<1>3. r \in Client
  BY <1>1, Zenon DEF Client
<1>4. /\ SameAcks(s, r) /\ SameSocket(s, r)
      /\ r.buffer = s.buffer /\ r.out = s.out /\ r.threw = s.threw
      /\ r.namespaces = s.namespaces /\ r.left = s.left /\ r.json = flags
      /\ r.messages = s.messages /\ r.doBuffer = s.doBuffer
  BY DEF Client, SameAcks, SameSocket
<1> HIDE DEF r
<1>5. Good(r)
  BY <1>3, <1>4, KeptIsGood DEF Good, JoinInv
<1> QED
  BY <1>2, <1>3, <1>4, <1>5 DEF flags

(* The application sends a message, as JSON or not, or an event.           *)
LEMMA UserSendsStep ==
  ASSUME IInv, NEW n \in Name, UserSends(n)
  PROVE  IInv'
<1>1. PICK ok \in Sends : \E ack \in BOOLEAN :
       \/ "message" \in Kinds /\ Becomes(Send(c, n, "message", ack, ok))
       \/ "json" \in Kinds /\ Becomes(Send(Flagged(c, n), n, "json", ack, ok))
       \/ "event" \in Kinds /\ \E s \in {c, Flagged(c, n)} :
            Becomes(Emit(s, n, ack, ok))
  BY DEF UserSends
<1>2. PICK ack \in BOOLEAN :
       \/ Becomes(Send(c, n, "message", ack, ok))
       \/ Becomes(Send(Flagged(c, n), n, "json", ack, ok))
       \/ \E s \in {c, Flagged(c, n)} : Becomes(Emit(s, n, ack, ok))
  BY <1>1
<1>3. ok \in BOOLEAN /\ (~ok => Throws)
  BY AtTheStart, MayThrow
<1>4. /\ c \in Client /\ Good(c) /\ ~c.threw /\ wire \in Seq(Packet)
      /\ server.served \subseteq Packet /\ (~Throws => c.json = {})
      /\ n \in c.namespaces /\ c.messages < MaxMessages /\ Polls \in BOOLEAN
  BY AtTheStart DEF UserSends
<1> DEFINE f == Flagged(c, n)
<1>5. /\ f \in Client /\ Good(f) /\ f.json = c.json \cup {n}
      /\ f.messages = c.messages /\ f.namespaces = c.namespaces
      /\ ~f.threw
  BY <1>4, FlaggedStep
<1> HIDE DEF f
<1>6. CASE Becomes(Send(c, n, "message", ack, ok))
  <2> DEFINE type == IF n \in c.json THEN "json" ELSE "message"
             r == WithId(c, n, type, "message", ack, ok)
  <2>1. /\ type \in {"message", "json", "event"}
        /\ ~Throws => type = "message" /\ c.json \subseteq {n}
    BY <1>4
  <2>2. Becomes(r)
    BY <1>6 DEF Send
  <2> HIDE DEF type
  <2>3. r \in Client /\ Good(r) /\ (~Throws => r.json = {})
    BY <1>3, <1>4, <2>1, WithIdStep
  <2> QED
    BY <2>2, <2>3, AtTheEnd
<1>7. CASE Becomes(Send(f, n, "json", ack, ok))
  <2> DEFINE r == WithId(f, n, "json", "json", ack, ok)
  <2>1. Becomes(r)
    BY <1>5, <1>7 DEF Send
  <2>2. ~Throws => f.json \subseteq {n}
    BY <1>4, <1>5
  <2>3. r \in Client /\ Good(r) /\ (~Throws => r.json = {})
    BY <1>3, <1>4, <1>5, <2>2, WithIdStep
  <2> QED
    BY <2>1, <2>3, AtTheEnd
<1>8. ASSUME NEW s \in {c, f}, Becomes(Emit(s, n, ack, ok))
      PROVE  IInv'
  <2> DEFINE r == WithId(s, n, "event", "event", ack, ok)
  <2>1. Becomes(r)
    BY <1>8 DEF Emit
  <2>2. /\ s \in Client /\ Good(s) /\ ~s.threw
        /\ n \in s.namespaces /\ s.messages < MaxMessages
        /\ ~Throws => s.json \subseteq {n}
    BY <1>4, <1>5
  <2>3. r \in Client /\ Good(r) /\ (~Throws => r.json = {})
    BY <1>3, <1>4, <2>2, WithIdStep
  <2> QED
    BY <2>1, <2>3, AtTheEnd
<1> QED
  BY <1>2, <1>6, <1>7, <1>8 DEF f

(* disconnect: of the application, of the server, or of the connection.    *)
LEMMA OnDisconnectStep ==
  ASSUME NEW s \in Client, Good(s), NEW booted \in BOOLEAN,
         s.connected \/ booted
  PROVE  LET r == OnDisconnect(s, booted) IN
         r \in Client /\ Good(r) /\ r.json = s.json
<1> DEFINE again == s.reconnecting \/ ~booted
           r == [s EXCEPT !.connected = FALSE, !.out = <<>>,
                          !.reconnecting = again]
<1>1. again \in BOOLEAN /\ <<>> \in Seq(Packet)
  BY DEF Client
<1>2. OnDisconnect(s, booted) = r
  BY DEF OnDisconnect, Client
<1> HIDE DEF again
<1>3. r \in Client
  BY <1>1, Zenon DEF Client
<1>4. /\ SameAcks(s, r) /\ r.connections = s.connections /\ ~r.connected
      /\ r.reconnecting = again
      /\ r.buffer = s.buffer /\ r.out = <<>> /\ r.threw = s.threw
      /\ r.namespaces = s.namespaces /\ r.left = s.left /\ r.json = s.json
  BY DEF Client, SameAcks
<1> HIDE DEF r
<1>5. Held(r) \subseteq Held(s)
  BY <1>4 DEF Held, Elements
<1>6. Acks(r)
  BY <1>3, <1>4, <1>5, AcksStay DEF Good
<1>7. JoinInv(r)
  <2>1. CASE s.connected
    BY <1>4, <2>1 DEF Good, JoinInv, First, Client
  <2>2. CASE ~s.connected
    <3>1. Line(r) = Line(s) /\ (First(r) => First(s)) /\ r.reconnecting = s.reconnecting
      BY <1>4, <2>2 DEF Line, First, again, Client
    <3> QED
      BY <1>4, <2>2, <3>1, ReadyStays DEF Good, JoinInv
  <2> QED
    BY <2>1, <2>2
<1>8. AsAsked(r)
  BY <1>5 DEF Good, AsAsked
<1> QED
  BY <1>2, <1>3, <1>4, <1>6, <1>7, <1>8 DEF Good

(* Making the root sends nothing.                                          *)
LEMMA RootIsQuiet ==
  ASSUME NEW s \in Client, ~s.threw, NEW ok
  PROVE  ~Of(s, Root, ok).threw
BY DEF Of, Client

(* disconnect() of the socket.                                             *)
LEMMA UserDisconnectsStep == IInv /\ UserDisconnects => IInv'
<1> SUFFICES ASSUME IInv, UserDisconnects
             PROVE  IInv'
  OBVIOUS
<1>1. PICK open \in BOOLEAN, ok \in Sends :
        LET made == Of(c, Root, ok)
            said == IF open THEN NspPacket(made, Control("disconnect", Root), ok)
                    ELSE c
        IN
        Becomes(IF said.threw THEN said ELSE OnDisconnect(said, TRUE))
  BY DEF UserDisconnects
<1>2. /\ c \in Client /\ Good(c) /\ ~c.threw /\ (~Throws => c.json = {})
      /\ wire \in Seq(Packet) /\ Polls \in BOOLEAN
      /\ ok \in BOOLEAN /\ (~ok => Throws)
  BY AtTheStart, MayThrow
<1> DEFINE made == Of(c, Root, ok)
           packed == NspPacket(made, Control("disconnect", Root), ok)
           said == IF open THEN packed ELSE c
           s == OnDisconnect(said, TRUE)
<1>3. /\ made \in Client /\ Good(made) /\ made.json \subseteq c.json
  BY <1>2, NameAssumption, AtTheStart, OfStep
<1>4. ~made.threw
  BY <1>2, RootIsQuiet
<1> HIDE DEF made
<1>5. /\ packed \in Client /\ Good(packed)
      /\ ~Throws => packed.json \subseteq made.json
  BY <1>2, <1>3, <1>4, NameAssumption, ControlStep
<1> HIDE DEF packed
<1>6. said \in Client /\ Good(said) /\ (~Throws => said.json = {})
  BY <1>2, <1>3, <1>5
<1>7. Becomes(IF said.threw THEN said ELSE s)
  BY <1>1 DEF made, packed
<1> HIDE DEF said
<1>8. s \in Client /\ Good(s) /\ s.json = said.json
  BY <1>6, OnDisconnectStep
<1> HIDE DEF s
<1> QED
  BY <1>6, <1>7, <1>8, AtTheEnd

(* The connection is lost.                                                 *)
LEMMA SocketDisconnectsStep == IInv /\ SocketDisconnects => IInv'
<1> SUFFICES ASSUME IInv, SocketDisconnects
             PROVE  IInv'
  OBVIOUS
<1> DEFINE s == OnDisconnect(c, FALSE)
<1>1. /\ c \in Client /\ Good(c) /\ c.connected /\ (~Throws => c.json = {})
      /\ Becomes(s)
  BY AtTheStart DEF SocketDisconnects
<1>2. s \in Client /\ Good(s) /\ s.json = c.json
  BY <1>1, OnDisconnectStep
<1> HIDE DEF s
<1> QED
  BY <1>1, <1>2, AtTheEnd

(* The server reads the first packet of a line that is ready for it.       *)
LEMMA ReadyTail ==
  ASSUME NEW s, NEW list \in Seq(Packet), list # <<>>, NEW joined, NEW more,
         Ready(list, joined, s),
         Head(list).type = "connect" => more = joined \cup {Head(list).endpoint},
         Head(list).type = "disconnect" => more = joined \ {Head(list).endpoint},
         Head(list).type \notin {"connect", "disconnect"} => more = joined
  PROVE  /\ Ready(Tail(list), more, s)
         /\ Head(list).msg > 0 => Head(list).endpoint \in joined \cup s.left \cup {Root}
<1> DEFINE rest == Tail(list)
           p == Head(list)
           len == Len(list)
<1>1. /\ len \in Nat /\ DOMAIN list = 1 .. len /\ len > 0
      /\ DOMAIN rest = 1 .. len - 1 /\ p = list[1]
      /\ \A k \in 1 .. len - 1 : rest[k] = list[k + 1]
  BY HeadTailProperties, LenProperties, EmptySeq
<1>2. 1 \in DOMAIN list
  BY <1>1
<1>3. \A k \in DOMAIN list :
        k # 1 => k - 1 \in DOMAIN rest /\ rest[k - 1] = list[k]
  BY <1>1
<1> HIDE DEF rest, p, len
<1>4. /\ p.type = "connect" => more = joined \cup {p.endpoint}
      /\ p.type = "disconnect" => more = joined \ {p.endpoint}
      /\ p.type \notin {"connect", "disconnect"} => more = joined
  BY DEF p
<1>5. \A n \in joined : n \in more \/ (p.type = "disconnect" /\ p.endpoint = n)
  BY <1>4
<1>6. p.type = "disconnect" => p.endpoint \in s.left \cup {Root}
  BY <1>1, <1>2 DEF Ready
<1>7. \A n : Joins(p, n) => n \in more
  BY <1>4 DEF Joins
<1>8. ASSUME NEW n \in s.namespaces \ (s.left \cup {Root})
      PROVE  n \in more \/ \E k \in DOMAIN rest : Joins(rest[k], n)
  <2>1. CASE n \in joined
    BY <1>5, <1>6, <2>1
  <2>2. CASE \E k \in DOMAIN list : Joins(list[k], n)
    BY <1>1, <1>3, <1>7, <2>2
  <2> QED
    BY <2>1, <2>2 DEF Ready
<1>9. ASSUME NEW k \in DOMAIN rest
      PROVE  /\ rest[k].type = "disconnect" =>
                  rest[k].endpoint \in s.left \cup {Root}
             /\ rest[k].msg > 0 =>
                  \/ rest[k].endpoint \in more \cup s.left \cup {Root}
                  \/ \E j \in DOMAIN rest : j < k /\ Joins(rest[j], rest[k].endpoint)
  <2>1. k \in Nat /\ k + 1 \in DOMAIN list /\ rest[k] = list[k + 1]
    BY <1>1
  <2> DEFINE n == rest[k].endpoint
  <2>2. rest[k].type = "disconnect" => n \in s.left \cup {Root}
    BY <2>1 DEF Ready
  <2>3. ASSUME rest[k].msg > 0, n \notin joined \cup s.left \cup {Root}
        PROVE  n \in more \/ \E j \in DOMAIN rest : j < k /\ Joins(rest[j], n)
    <3>1. PICK j \in DOMAIN list : j < k + 1 /\ Joins(list[j], n)
      BY <2>1, <2>3 DEF Ready
    <3>2. CASE j = 1
      BY <1>1, <1>7, <3>1, <3>2
    <3>3. CASE j # 1
      <4>1. j - 1 \in DOMAIN rest /\ rest[j - 1] = list[j] /\ j \in Nat
        BY <1>1, <1>3, <3>3
      <4>2. j - 1 < k
        BY <2>1, <3>1, <4>1
      <4> QED
        BY <3>1, <4>1, <4>2
    <3> QED
      BY <3>2, <3>3
  <2>4. n \in joined => n \in more \cup s.left \cup {Root}
    BY <1>5, <1>6
  <2> QED
    BY <2>2, <2>3, <2>4
<1>10. p.msg > 0 => p.endpoint \in joined \cup s.left \cup {Root}
  <2>1. ~ \E j \in DOMAIN list : j < 1
    BY <1>1
  <2> QED
    BY <1>1, <1>2, <2>1 DEF Ready
<1>11. Ready(rest, more, s)
  BY <1>8, <1>9 DEF Ready
<1> QED
  BY <1>10, <1>11 DEF rest, p

(* The server reads a packet: it may acknowledge it from now on.           *)
LEMMA ServerReadsStep == IInv /\ ServerReads => IInv'
<1> SUFFICES ASSUME IInv, ServerReads
             PROVE  IInv'
  OBVIOUS
<1> DEFINE p == Head(wire)
           joined == CASE p.type = "connect" -> server.joined \cup {p.endpoint}
                       [] p.type = "disconnect" -> server.joined \ {p.endpoint}
                       [] OTHER -> server.joined
           served == server.served \cup {q \in {p} : q.id > 0}
           early == server.early \cup
             {q \in {p} : q.msg > 0 /\ q.endpoint \notin server.joined \cup {Root}}
<1>1. /\ wire # <<>> /\ wire' = Tail(wire) /\ c' = c /\ world' = world
      /\ server' = [joined |-> joined, served |-> served, early |-> early]
  BY DEF ServerReads
<1>2. /\ c \in Client /\ Good(c) /\ c.out = <<>> /\ wire \in Seq(Packet)
      /\ world \in Worlds /\ c.connected
      /\ server \in [joined : SUBSET Name, served : SUBSET Packet,
                     early : SUBSET Packet]
      /\ \A q \in server.served : q.id > 0
  BY <1>1, AtTheStart
<1>3. /\ p \in Packet /\ p \in Elements(wire) /\ wire' \in Seq(Packet)
      /\ Elements(wire') \subseteq Elements(wire)
  <2>1. /\ Len(wire) \in Nat /\ DOMAIN wire = 1 .. Len(wire) /\ Len(wire) > 0
        /\ DOMAIN Tail(wire) = 1 .. Len(wire) - 1 /\ p = wire[1]
        /\ \A k \in 1 .. Len(wire) - 1 : Tail(wire)[k] = wire[k + 1]
        /\ Tail(wire) \in Seq(Packet) /\ p \in Packet
    BY <1>1, <1>2, HeadTailProperties, LenProperties, EmptySeq
  <2>2. 1 \in DOMAIN wire
    BY <2>1
  <2>3. \A k \in DOMAIN Tail(wire) : \E j \in DOMAIN wire : Tail(wire)[k] = wire[j]
    BY <2>1
  <2> QED
    BY <1>1, <2>1, <2>2, <2>3 DEF Elements
<1>4. /\ p.type = "connect" => joined = server.joined \cup {p.endpoint}
      /\ p.type = "disconnect" => joined = server.joined \ {p.endpoint}
      /\ p.type \notin {"connect", "disconnect"} => joined = server.joined
      /\ p.endpoint \in Name
  BY <1>3 DEF Packet
<1>5. /\ joined \in SUBSET Name
      /\ served \subseteq server.served \cup {p} /\ served \in SUBSET Packet
      /\ early \in SUBSET Packet
      /\ \A q \in served : q.id > 0
      /\ \A q \in early : q \in server.early \/
           (q = p /\ p.msg > 0 /\ p.endpoint \notin server.joined \cup {Root})
  BY <1>2, <1>3, <1>4
<1> HIDE DEF joined, served, early, p
<1>6. server'.joined = joined /\ server'.served = served /\ server'.early = early
      /\ server' \in [joined : SUBSET Name, served : SUBSET Packet,
                      early : SUBSET Packet]
  BY <1>1, <1>5
<1>7. Throws' = Throws
  BY <1>1 DEF Throws
<1>8. Acks(c)'
  <2>1. \A q \in Held(c) \cup Elements(wire') \cup served :
          q \in Held(c) \cup Elements(wire) \cup server.served
    BY <1>3, <1>5
  <2>2. \A q \in Held(c) \cup Elements(wire') \cup served : Awaited(c, q)
    BY <1>2, <2>1 DEF Good, Acks
  <2>3. Registered(c)' /\ Counted(c)'
    BY <1>1, <1>2 DEF Good, Acks, Registered, Counted
  <2> QED
    BY <1>1, <1>6, <2>2, <2>3 DEF Acks, Held, Elements, Awaited
<1>9. JoinInv(c)'
  <2>1. /\ c.left \subseteq c.namespaces /\ c.connections > 0
        /\ c.connections \in Nat
    BY <1>2, BoundsAssumption DEF Good, JoinInv, Client
  <2>2. ASSUME ~Throws
        PROVE  /\ ~c.threw
               /\ First(c) => (c.connected /\ ~c.doBuffer => c.buffer = <<>>)
    BY <1>2, <2>2 DEF Good, JoinInv
  <2>3. wire \o c.out = wire /\ wire' \o c.out = wire'
    BY <1>2, <1>3, ConcatEmptySeq
  <2>4. ASSUME ~Throws, First(c)
        PROVE  /\ Ready((wire' \o c.out) \o c.buffer, joined, c)
               /\ p.msg > 0 => p.endpoint \in server.joined \cup c.left \cup {Root}
    <3> DEFINE line == wire \o c.buffer
    <3>1. Ready(line, server.joined, c)
      BY <1>2, <2>3, <2>4 DEF Good, JoinInv, Line
    <3>2. c.buffer \in Seq(Packet)
      BY <1>2 DEF Client
    <3>3. /\ line \in Seq(Packet) /\ line # <<>>
          /\ Head(line) = p /\ Tail(line) = wire' \o c.buffer
      BY <1>1, <1>2, <3>2, ConcatTail DEF p
    <3> HIDE DEF line
    <3>4. /\ Ready(Tail(line), joined, c)
          /\ p.msg > 0 => p.endpoint \in server.joined \cup c.left \cup {Root}
      BY <1>4, <3>1, <3>3, ReadyTail
    <3> QED
      BY <2>3, <3>3, <3>4
  <2>5. ASSUME ~Throws, c.connections = 1
        PROVE  \A q \in early : q.endpoint \in c.left
    <3>1. \A q \in server.early : q.endpoint \in c.left
      BY <1>2, <2>5 DEF Good, JoinInv
    <3>2. First(c)
      BY <1>2, <2>5 DEF First
    <3> QED
      BY <1>5, <2>4, <2>5, <3>1, <3>2
  <2> QED
    BY <1>1, <1>2, <1>6, <1>7, <2>1, <2>2, <2>3, <2>4, <2>5
    DEF JoinInv, First, Line, Ready
<1>10. AsAsked(c)'
  <2>1. ASSUME ~Throws
        PROVE  \A q \in Held(c) \cup Elements(wire') : q.type = q.wanted
    BY <1>2, <1>3, <2>1 DEF Good, AsAsked
  <2> QED
    BY <1>1, <1>7, <2>1 DEF AsAsked, Held, Elements
<1>11. TypeOK'
  BY <1>1, <1>2, <1>3, <1>6 DEF TypeOK, Client
<1>12. /\ (c.out = <<>> /\ ~c.threw)' /\ (~Throws => c.json = {})'
       /\ (\A q \in server.served : q.id > 0)'
       /\ IsFiniteSet(c.namespaces)'
       /\ (~c.connected => wire = <<>> /\ server = NoServer)'
  BY <1>1, <1>2, <1>5, <1>6, <1>7, AtTheStart
<1> QED
  BY <1>8, <1>9, <1>10, <1>11, <1>12 DEF IInv, Good

(* A packet from the server, which may make a namespace, end the           *)
(* connection, or be acknowledged.                                         *)
LEMMA ServerSendsStep ==
  ASSUME IInv, NEW n \in Name, ServerSends(n)
  PROVE  IInv'
<1>1. PICK ok \in Sends : \E acked \in BOOLEAN :
        LET s == Of(c, n, ok) IN
        IF s.threw THEN Becomes(s)
        ELSE \/ Becomes(OnDisconnectPacket(s, n))
             \/ Becomes(OnMessage(s, n, acked, ok))
  BY DEF ServerSends
<1> DEFINE s == Of(c, n, ok)
<1>2. PICK acked \in BOOLEAN :
        IF s.threw THEN Becomes(s)
        ELSE \/ Becomes(OnDisconnectPacket(s, n))
             \/ Becomes(OnMessage(s, n, acked, ok))
  BY <1>1
<1>3. ok \in BOOLEAN /\ (~ok => Throws)
  BY AtTheStart, MayThrow
<1>4. /\ s \in Client /\ Good(s) /\ SameSocket(c, s)
      /\ s.json \subseteq c.json
  BY <1>3, AtTheStart, OfStep
<1>5. s.connected /\ (~Throws => c.json = {}) /\ wire \in Seq(Packet)
  BY <1>4, AtTheStart DEF ServerSends, SameSocket
<1> HIDE DEF s
<1>6. ASSUME Becomes(s)
      PROVE  IInv'
  BY <1>4, <1>5, <1>6, AtTheEnd
<1>7. ASSUME Becomes(OnDisconnectPacket(s, n))
      PROVE  IInv'
  <2>1. CASE n = Root
    <3> DEFINE r == OnDisconnect(s, TRUE)
    <3>1. Becomes(r)
      BY <1>7, <2>1 DEF OnDisconnectPacket
    <3>2. r \in Client /\ Good(r) /\ r.json = s.json
      BY <1>4, <1>5, OnDisconnectStep
    <3> HIDE DEF r
    <3> QED
      BY <1>4, <1>5, <3>1, <3>2, AtTheEnd
  <2>2. CASE n # Root
    BY <1>6, <1>7, <2>2 DEF OnDisconnectPacket
  <2> QED
    BY <2>1, <2>2
<1>8. ASSUME Becomes(OnMessage(s, n, acked, ok)), ~s.threw
      PROVE  IInv'
  <2>1. CASE acked
    <3> DEFINE r == NspPacket(s, Control("ack", n), ok)
    <3>1. Becomes(r)
      BY <1>8, <2>1 DEF OnMessage
    <3>2. r \in Client /\ Good(r) /\ (~Throws => r.json \subseteq s.json)
      BY <1>3, <1>4, <1>5, <1>8, AtTheStart, ControlStep
    <3> HIDE DEF r
    <3>3. ~Throws => r.json = {}
      BY <1>4, <1>5, <3>2
    <3> QED
      BY <3>1, <3>2, <3>3, AtTheEnd
  <2>2. CASE ~acked
    BY <1>6, <1>8, <2>2 DEF OnMessage
  <2> QED
    BY <2>1, <2>2
<1> QED
  BY <1>2, <1>6, <1>7, <1>8

(* A callback is called with the message that is acknowledged, and is      *)
(* deleted, unless it throws.                                              *)
Answered(s, r, n, id, throws) ==
  LET m == s.acks[n][id] IN
  /\ r.messages = s.messages /\ r.ackPackets = s.ackPackets
  /\ \A k \in Name, i \in Message :
       r.acks[k][i] = IF ~throws /\ k = n /\ i = id THEN 0 ELSE s.acks[k][i]
  /\ \A i \in Message :
       r.called[i] = IF i = m THEN s.called[i] + 1 ELSE s.called[i]
  /\ r.answers = s.answers \cup {<<m, m>>}
  /\ r.faulty = IF throws THEN s.faulty \cup {m} ELSE s.faulty

(* Every other callback waits as before.                                   *)
LEMMA AnsweredIsGood ==
  ASSUME NEW s \in Client, NEW r \in Client, Good(s),
         wire \in Seq(Packet), server.served \subseteq Packet,
         NEW n \in Name, NEW id \in Message, NEW throws \in BOOLEAN,
         s.acks[n][id] \in Message,
         Answered(s, r, n, id, throws), SameSocket(s, r), SameLine(s, r)
  PROVE  Good(r)
<1> DEFINE m == s.acks[n][id]
<1>1. /\ MaxMessages \in Nat /\ m \in Message
      /\ \A k \in Name, i \in Message : s.acks[k][i] \in 0 .. MaxMessages
      /\ \A i \in Message : s.called[i] \in 0 .. 2
  BY BoundsAssumption DEF Client
<1>2. Registered(s) /\ Counted(s)
  BY DEF Good, Acks
<1>3. /\ m # 0 /\ m <= s.messages
      /\ s.called[m] = 0 \/ m \in s.faulty
  <2>1. m # 0
    BY <1>1 DEF Message
  <2> QED
    BY <1>2, <2>1 DEF Registered
<1>4. \A k \in Name, i \in Message : s.acks[k][i] = m => k = n /\ i = id
  BY <1>2, <1>3 DEF Registered
<1>5. /\ r.messages = s.messages /\ r.ackPackets = s.ackPackets
      /\ \A k \in Name, i \in Message :
           r.acks[k][i] = IF ~throws /\ k = n /\ i = id THEN 0 ELSE s.acks[k][i]
      /\ \A i \in Message :
           r.called[i] = IF i = m THEN s.called[i] + 1 ELSE s.called[i]
      /\ r.answers = s.answers \cup {<<m, m>>}
      /\ r.faulty = IF throws THEN s.faulty \cup {m} ELSE s.faulty
  BY DEF Answered
<1>6. r.called[m] > 0
  BY <1>1, <1>5
<1> HIDE DEF m
<1>7. Registered(r)
  <2>1. ASSUME NEW k \in Name, NEW i \in Message, r.acks[k][i] # 0
        PROVE  /\ r.acks[k][i] <= r.messages
               /\ r.called[r.acks[k][i]] = 0 \/ r.acks[k][i] \in r.faulty
    <3>1. r.acks[k][i] = s.acks[k][i] /\ (throws \/ ~(k = n /\ i = id))
      BY <1>5, <2>1
    <3>2. /\ s.acks[k][i] \in Message /\ s.acks[k][i] <= s.messages
          /\ s.called[s.acks[k][i]] = 0 \/ s.acks[k][i] \in s.faulty
      BY <1>1, <1>2, <2>1, <3>1 DEF Registered, Message
    <3>3. CASE s.acks[k][i] = m
      BY <1>4, <1>5, <3>1, <3>2, <3>3
    <3>4. CASE s.acks[k][i] # m
      BY <1>5, <3>1, <3>2, <3>4
    <3> QED
      BY <3>3, <3>4
  <2>2. ASSUME NEW k \in Name, NEW j \in Name, NEW i \in Message,
               NEW h \in Message, r.acks[k][i] # 0, r.acks[k][i] = r.acks[j][h]
        PROVE  k = j /\ i = h
    BY <1>2, <1>5, <2>2 DEF Registered
  <2> QED
    BY <2>1, <2>2 DEF Registered
<1>8. Counted(r)
  <2>1. \A i \in Message : r.called[i] > 0 => i <= r.messages
    <3>1. \A i \in Message : s.called[i] > 0 => i <= s.messages
      BY <1>2 DEF Counted
    <3> QED
      BY <1>1, <1>3, <1>5, <3>1
  <2>2. \A i \in Message : r.called[i] > 1 => i \in r.faulty
    <3>1. \A i \in Message : s.called[i] > 1 => i \in s.faulty
      BY <1>2 DEF Counted
    <3> QED
      BY <1>1, <1>3, <1>5, <3>1
  <2>3. \A a \in r.answers : a[1] = a[2]
    BY <1>2, <1>5 DEF Counted
  <2> QED
    BY <1>2, <1>5, <2>1, <2>2, <2>3 DEF Counted
<1>9. ASSUME NEW p \in Packet, Awaited(s, p)
      PROVE  Awaited(r, p)
  <2>1. p.id \in 0 .. MaxMessages /\ p.endpoint \in Name
    BY DEF Packet
  <2>2. SUFFICES ASSUME p.id > 0
                 PROVE  /\ p.msg \in 1 .. r.messages
                        /\ p.id <= r.ackPackets[p.endpoint]
                        /\ \/ r.acks[p.endpoint][p.id] = p.msg
                           \/ /\ r.acks[p.endpoint][p.id] = 0
                              /\ r.called[p.msg] > 0
    BY DEF Awaited
  <2>3. /\ p.msg \in 1 .. s.messages
        /\ p.id <= s.ackPackets[p.endpoint]
        /\ \/ s.acks[p.endpoint][p.id] = p.msg
           \/ s.acks[p.endpoint][p.id] = 0 /\ s.called[p.msg] > 0
    BY <1>9, <2>2 DEF Awaited
  <2>4. p.id \in Message /\ p.msg \in Message
    <3>1. s.messages \in 0 .. MaxMessages
      BY DEF Client
    <3> QED
      BY <1>1, <2>1, <2>2, <2>3, <3>1 DEF Message
  <2>5. CASE p.endpoint = n /\ p.id = id
    <3>1. p.msg = m
      BY <1>3, <2>3, <2>5 DEF m
    <3> QED
      BY <1>5, <1>6, <2>1, <2>3, <2>4, <2>5, <3>1
  <2>6. CASE ~(p.endpoint = n /\ p.id = id)
    <3>1. r.acks[p.endpoint][p.id] = s.acks[p.endpoint][p.id]
      BY <1>5, <2>1, <2>4, <2>6
    <3>2. s.called[p.msg] > 0 => r.called[p.msg] > 0
      BY <1>1, <1>5, <2>4
    <3> QED
      BY <1>5, <2>3, <3>1, <3>2
  <2> QED
    BY <2>5, <2>6
<1>10. Held(r) = Held(s)
  BY DEF Held, SameLine
<1>11. Acks(r)
  <2>1. s.buffer \in Seq(Packet) /\ s.out \in Seq(Packet)
    BY DEF Client
  <2>2. \A list \in Seq(Packet) : Elements(list) \subseteq Packet
    BY ElementOfSeq DEF Elements
  <2>3. Held(s) \cup Elements(wire) \cup server.served \subseteq Packet
    BY <2>1, <2>2 DEF Held
  <2>4. \A p \in Held(s) \cup Elements(wire) \cup server.served : Awaited(s, p)
    BY DEF Good, Acks
  <2> QED
    BY <1>7, <1>8, <1>9, <1>10, <2>3, <2>4 DEF Acks
<1>12. JoinInv(r)
  BY DEF Good, JoinInv, SameLine, SameSocket, First, Line, Ready
<1>13. AsAsked(r)
  BY <1>10 DEF Good, AsAsked
<1> QED
  BY <1>11, <1>12, <1>13 DEF Good, SameLine

(* The server acknowledges what it read.  An exception of the callback     *)
(* ends the event.                                                         *)
LEMMA ServerAcksStep ==
  ASSUME IInv, NEW p \in server.served, ServerAcks(p)
  PROVE  IInv'
<1>1. PICK throws \in BOOLEAN : Becomes(OnAck(c, p.endpoint, p.id, p.msg, throws))
  BY DEF ServerAcks
<1>2. /\ c \in Client /\ Good(c) /\ wire \in Seq(Packet)
      /\ server.served \subseteq Packet /\ p \in Packet /\ p.id > 0
      /\ (~Throws => c.json = {}) /\ c.called[p.msg] < 2 /\ ~c.threw
  BY AtTheStart DEF ServerAcks
<1> DEFINE n == p.endpoint
           id == p.id
           msg == p.msg
           m == c.acks[n][id]
<1>3. /\ n \in Name /\ id \in Message /\ MaxMessages \in Nat
      /\ c.messages \in 0 .. MaxMessages
      /\ msg \in 1 .. c.messages /\ (m = msg \/ m = 0)
  <2>1. Awaited(c, p)
    BY <1>2 DEF Good, Acks
  <2> QED
    BY <1>2, <2>1, BoundsAssumption DEF Awaited, Packet, Message, Client
<1>4. msg \in Message /\ 0 \notin Message
  BY <1>3 DEF Message
<1> HIDE DEF n, id, msg
<1>5. CASE m = 0
  <2>1. OnAck(c, n, id, msg, throws) = c
    BY <1>5 DEF OnAck
  <2>2. Becomes(c)
    BY <1>1, <2>1 DEF n, id, msg
  <2> QED
    BY <1>2, <2>2, AtTheEnd
<1>6. CASE m = msg
  <2> DEFINE calls == [c.called EXCEPT ![m] = c.called[m] + 1]
             answers == c.answers \cup {<<m, msg>>}
             faulty == IF throws THEN c.faulty \cup {m} ELSE c.faulty
             table == IF throws THEN c.acks
                      ELSE [c.acks EXCEPT ![n] = [c.acks[n] EXCEPT ![id] = 0]]
             r == [c EXCEPT !.called = calls, !.answers = answers,
                            !.faulty = faulty, !.acks = table]
             s == OnAck(c, n, id, msg, throws)
  <2>1. /\ m \in Message /\ c.called[m] < 2
        /\ c.called \in [Message -> 0 .. 2]
        /\ c.acks \in [Name -> [Message -> 0 .. MaxMessages]]
        /\ c.acks[n] \in [Message -> 0 .. MaxMessages]
        /\ 0 \in 0 .. MaxMessages
    BY <1>2, <1>3, <1>4, <1>6 DEF Client, msg
  <2>2. /\ calls \in [Message -> 0 .. 2]
        /\ answers \in SUBSET (Message \X Message)
        /\ faulty \in SUBSET Message
    <3>1. /\ c.answers \in SUBSET (Message \X Message)
          /\ c.faulty \in SUBSET Message
      BY <1>2 DEF Client
    <3>2. c.called[m] + 1 \in 0 .. 2
      BY <2>1
    <3>3. answers \in SUBSET (Message \X Message) /\ faulty \in SUBSET Message
      BY <1>4, <2>1, <3>1
    <3> QED
      BY <2>1, <3>2, <3>3
  <2>3. table \in [Name -> [Message -> 0 .. MaxMessages]]
    <3> DEFINE row == [c.acks[n] EXCEPT ![id] = 0]
    <3>1. row \in [Message -> 0 .. MaxMessages]
      BY <2>1
    <3> HIDE DEF row
    <3>2. [c.acks EXCEPT ![n] = row] \in [Name -> [Message -> 0 .. MaxMessages]]
      BY <2>1, <3>1
    <3> QED
      BY <2>1, <3>2 DEF row
  <2>4. /\ \A i \in Message :
             calls[i] = IF i = m THEN c.called[i] + 1 ELSE c.called[i]
        /\ \A k \in Name, i \in Message :
             table[k][i] = IF ~throws /\ k = n /\ i = id THEN 0 ELSE c.acks[k][i]
    BY <1>3, <2>1
  <2>5. /\ throws => s = [[c EXCEPT !.called = calls, !.answers = answers]
                          EXCEPT !.threw = TRUE, !.faulty = faulty]
        /\ ~throws => s = [[c EXCEPT !.called = calls, !.answers = answers]
                           EXCEPT !.acks = table]
    BY <1>2, <1>4, <1>6, <2>1 DEF OnAck, Client
  <2> HIDE DEF calls, answers, faulty, table
  <2>6. r \in Client
    BY <1>2, <2>2, <2>3, Zenon DEF Client
  <2>7. /\ r.called = calls /\ r.answers = answers /\ r.faulty = faulty
        /\ r.acks = table /\ r.messages = c.messages
        /\ r.ackPackets = c.ackPackets /\ r.json = c.json
        /\ r.connected = c.connected /\ r.out = c.out
        /\ SameSocket(c, r) /\ SameLine(c, r)
    BY <1>2 DEF Client, SameSocket, SameLine
  <2>8. /\ s.connected = c.connected /\ s.out = c.out
        /\ s.buffer = c.buffer
        /\ [s EXCEPT !.threw = FALSE, !.out = <<>>]
             = [r EXCEPT !.threw = FALSE, !.out = <<>>]
    <3>1. CASE throws
      <4>1. c.acks = table
        BY <3>1 DEF table
      <4>2. r = [c EXCEPT !.called = calls, !.answers = answers,
                          !.faulty = faulty]
        BY <1>2, <4>1 DEF Client
      <4> HIDE DEF r
      <4> QED
        BY <1>2, <2>5, <3>1, <4>2 DEF Client
    <3>2. CASE ~throws
      <4>1. c.faulty = faulty
        BY <3>2 DEF faulty
      <4> QED
        BY <1>2, <2>5, <3>2, <4>1 DEF Client
    <3> QED
      BY <3>1, <3>2
  <2> HIDE DEF r, s
  <2>9. Becomes(r)
    <3>1. Becomes(s)
      BY <1>1 DEF s, n, id, msg
    <3> QED
      BY <2>7, <2>8, <3>1 DEF Becomes, SameLine
  <2>10. Answered(c, r, n, id, throws)
    BY <1>6, <2>4, <2>7 DEF Answered, answers, faulty
  <2>11. Good(r)
    BY <1>2, <1>3, <2>1, <2>6, <2>7, <2>10, AnsweredIsGood
  <2> QED
    BY <1>2, <2>6, <2>7, <2>9, <2>11, AtTheEnd
<1> QED
  BY <1>3, <1>5, <1>6

(* The packets that join namespaces, in any order.                         *)
LEMMA JoinsAreControls ==
  ASSUME NEW names \in SUBSET Name, IsFiniteSet(names)
  PROVE  LET joins == SetToSeq({Control("connect", n) : n \in names}) IN
         /\ joins \in Seq(Packet)
         /\ names # {} => Len(joins) > 0
         /\ \A p \in Elements(joins) : \E n \in names : p = Control("connect", n)
<1> DEFINE S == {Control("connect", n) : n \in names}
           f == [n \in names |-> Control("connect", n)]
           joins == SetToSeq(S)
<1>1. S \subseteq Packet
  BY Controls
<1>2. f \in Surjection(names, S)
  BY DEF Surjection
<1>3. \A p \in S : \E n \in names : p = Control("connect", n)
  OBVIOUS
<1> HIDE DEF S, f
<1>4. IsFiniteSet(S)
  BY <1>2, FS_Surjection
<1>5. Cardinality(S) \in Nat /\ ExistsBijection(1 .. Cardinality(S), S)
  BY <1>4, FS_CardinalityType
<1>6. \E g \in [1 .. Cardinality(S) -> S] : IsInjective(g)
  BY <1>5 DEF ExistsBijection, Bijection, Injection
<1>7. joins \in [1 .. Cardinality(S) -> S]
  BY <1>6 DEF SetToSeq
<1>11. names # {} => S # {}
  BY DEF S
<1>12. S # {} => Cardinality(S) > 0
  BY <1>4, <1>5, FS_EmptySet
<1> HIDE DEF joins
<1>8. joins \in Seq(S)
  BY <1>5, <1>7, IsASeq
<1>9. joins \in Seq(Packet)
  BY <1>1, <1>8, SeqMonotonic
<1>10. Elements(joins) \subseteq S
  BY <1>7 DEF Elements
<1>13. names # {} => Len(joins) > 0
  BY <1>5, <1>7, <1>8, <1>11, <1>12, LenProperties
<1> QED
  BY <1>3, <1>9, <1>10, <1>13 DEF joins, S

(* reset joins the namespaces again.                                       *)
LEMMA ResetStep ==
  ASSUME NEW s \in Client, Good(s), ~s.threw, wire \in Seq(Packet),
         Polls \in BOOLEAN, s.connected, s.connections > 1,
         NEW ok \in BOOLEAN, ~ok => Throws
  PROVE  LET r == Reset(s, ok) IN
         r \in Client /\ Good(r) /\ r.json \subseteq s.json
<1> DEFINE names == s.namespaces \ {Root}
           joins == SetToSeq({Control("connect", n) : n \in names})
           n == IF s.doBuffer THEN 0 ELSE IF Polls THEN 1 ELSE Len(joins)
           sent == SubSeq(joins, 1, n)
           kept == SubSeq(joins, n + 1, Len(joins))
           out == s.out \o sent
           buffer == s.buffer \o kept
           json == s.json \ names
           buffers == s.doBuffer \/ Polls
           done == [s EXCEPT !.json = json, !.reconnecting = FALSE]
<1>1. names \in SUBSET Name /\ IsFiniteSet(names)
  BY FS_Subset DEF Good, Client
<1>2. /\ s.out \in Seq(Packet) /\ s.buffer \in Seq(Packet)
      /\ s.connections \in Nat /\ s.doBuffer \in BOOLEAN
  BY BoundsAssumption DEF Client
<1>3. json \in SUBSET Name /\ json \subseteq s.json /\ buffers \in BOOLEAN
  BY <1>2 DEF Client
<1>4. done \in Client
  <2> HIDE DEF json
  <2> QED
    BY <1>3, Zenon DEF Client
<1>5. /\ SameAcks(s, done) /\ done.connected = s.connected
      /\ done.connections = s.connections /\ done.threw = s.threw
      /\ done.json = json /\ done.buffer = s.buffer /\ done.out = s.out
      /\ done.doBuffer = s.doBuffer
      /\ done.namespaces = s.namespaces /\ done.left = s.left
  BY DEF Client, SameAcks
<1>6. Reset(s, ok) =
        IF names = {} THEN done
        ELSE IF ~s.doBuffer /\ ~ok THEN [s EXCEPT !.threw = TRUE]
        ELSE [done EXCEPT !.out = out, !.buffer = buffer, !.doBuffer = buffers]
  <2>1. [s EXCEPT !.json = @ \ names, !.reconnecting = FALSE] = done
    BY DEF Client
  <2> HIDE DEF done, sent, kept, names
  <2>2. [done EXCEPT !.out = @ \o sent, !.buffer = @ \o kept,
                     !.doBuffer = @ \/ Polls]
          = [done EXCEPT !.out = out, !.buffer = buffer, !.doBuffer = buffers]
    BY <1>4, <1>5 DEF Client
  <2> QED
    BY <2>1, <2>2 DEF Reset, sent, kept, names
<1> HIDE DEF names, done
<1>7. /\ joins \in Seq(Packet) /\ (names # {} => Len(joins) > 0)
      /\ \A p \in Elements(joins) : \E k \in names : p = Control("connect", k)
  BY <1>1, JoinsAreControls
<1>8. \A p \in Elements(joins) : Awaited(s, p) /\ p.type = p.wanted
  BY <1>1, <1>7, Controls
<1> HIDE DEF joins
<1>9. ASSUME NEW r \in Client, SameAcks(s, r), r.connected = s.connected,
             r.connections = s.connections, ~Throws => ~r.threw,
             r.namespaces = s.namespaces, r.left = s.left,
             Held(r) \subseteq Held(s) \cup Elements(joins)
      PROVE  Good(r)
  <2>1. Acks(r)
    BY <1>8, <1>9, AcksStay DEF Good
  <2>2. JoinInv(r)
    <3>1. ~First(r) /\ r.connections # 1 /\ r.connections # 0
      BY <1>2, <1>9 DEF First
    <3> QED
      BY <1>9, <3>1 DEF Good, JoinInv
  <2>3. AsAsked(r)
    BY <1>8, <1>9 DEF Good, AsAsked
  <2> QED
    BY <1>9, <2>1, <2>2, <2>3 DEF Good
<1>10. CASE names = {}
  <2>1. Held(done) = Held(s)
    BY <1>5 DEF Held
  <2>2. Good(done)
    BY <1>4, <1>5, <1>9, <2>1
  <2> QED
    BY <1>3, <1>4, <1>5, <1>6, <1>10, <2>2
<1>11. CASE names # {} /\ ~s.doBuffer /\ ~ok
  <2> DEFINE r == [s EXCEPT !.threw = TRUE]
  <2>1. r \in Client
    BY Zenon DEF Client
  <2>2. /\ SameAcks(s, r) /\ r.connected = s.connected
        /\ r.connections = s.connections /\ r.json = s.json
        /\ r.buffer = s.buffer /\ r.out = s.out
        /\ r.namespaces = s.namespaces /\ r.left = s.left
    BY DEF Client, SameAcks
  <2> HIDE DEF r
  <2>3. Held(r) = Held(s)
    BY <2>2 DEF Held
  <2>4. Good(r)
    BY <1>9, <1>11, <2>1, <2>2, <2>3
  <2> QED
    BY <1>6, <1>11, <2>1, <2>2, <2>4 DEF r
<1>12. CASE names # {} /\ ~(~s.doBuffer /\ ~ok)
  <2> DEFINE r == [done EXCEPT !.out = out, !.buffer = buffer,
                               !.doBuffer = buffers]
  <2>1. Len(joins) \in Nat /\ Len(joins) > 0
    BY <1>7, <1>12, LenProperties
  <2>2. n \in 0 .. Len(joins) /\ n + 1 \in 1 .. Len(joins) + 1
    BY <2>1
  <2>5. 1 \in 1 .. Len(joins) + 1 /\ Len(joins) \in 0 .. Len(joins)
    BY <2>1
  <2> HIDE DEF n
  <2>3. /\ sent \in Seq(Packet) /\ Elements(sent) \subseteq Elements(joins)
        /\ kept \in Seq(Packet) /\ Elements(kept) \subseteq Elements(joins)
    BY <1>7, <2>2, <2>5, PartHolds
  <2> HIDE DEF sent, kept
  <2>4. /\ out \in Seq(Packet) /\ buffer \in Seq(Packet)
        /\ Elements(out) = Elements(s.out) \cup Elements(sent)
        /\ Elements(buffer) = Elements(s.buffer) \cup Elements(kept)
    BY <1>2, <2>3, ConcatHolds
  <2> HIDE DEF out, buffer, buffers
  <2>6. r \in Client
    BY <1>3, <1>4, <2>4, Zenon DEF Client
  <2>7. /\ SameAcks(done, r) /\ r.connected = done.connected
        /\ r.connections = done.connections /\ r.threw = done.threw
        /\ r.json = done.json /\ r.buffer = buffer /\ r.out = out
        /\ r.namespaces = done.namespaces /\ r.left = done.left
    BY <1>4 DEF Client, SameAcks
  <2> HIDE DEF r
  <2>8. Held(r) \subseteq Held(s) \cup Elements(joins)
    BY <2>3, <2>4, <2>7 DEF Held
  <2>9. /\ SameAcks(s, r) /\ r.connected = s.connected
        /\ r.connections = s.connections /\ r.threw = s.threw
        /\ r.namespaces = s.namespaces /\ r.left = s.left /\ r.json = json
    BY <1>5, <2>7 DEF SameAcks
  <2>10. Good(r)
    BY <1>9, <2>6, <2>8, <2>9
  <2> QED
    BY <1>3, <1>6, <1>12, <2>6, <2>9, <2>10 DEF r
<1> QED
  BY <1>10, <1>11, <1>12

(* The line stays as it is, though packets go that waited.                 *)
LEMMA MovedIsGood ==
  ASSUME NEW s \in Client, NEW r \in Client, Good(s),
         SameAcks(s, r), SameSocket(s, r),
         r.namespaces = s.namespaces, r.left = s.left, Held(r) = Held(s),
         ~Throws => /\ ~r.threw /\ Line(r) = Line(s)
                    /\ First(s) /\ r.connected /\ ~r.doBuffer => r.buffer = <<>>
  PROVE  Good(r)
<1>1. Acks(r)
  BY AcksStay DEF Good
<1>2. First(r) <=> First(s)
  BY DEF First, SameSocket
<1>3. JoinInv(r)
  <2>1. /\ r.left \subseteq r.namespaces
        /\ r.connected => r.connections > 0
        /\ r.connections = 0 => ~r.reconnecting /\ server = NoServer
    BY DEF Good, JoinInv, SameSocket
  <2>2. ASSUME ~Throws
        PROVE  /\ ~r.threw
               /\ r.connections = 1 => \A q \in server.early : q.endpoint \in r.left
    BY <2>2 DEF Good, JoinInv, SameSocket
  <2>3. ASSUME ~Throws, First(r)
        PROVE  /\ r.connected /\ ~r.doBuffer => r.buffer = <<>>
               /\ Ready(Line(r), server.joined, r)
    BY <1>2, <2>3, ReadyStays DEF Good, JoinInv
  <2> QED
    BY <2>1, <2>2, <2>3 DEF JoinInv
<1>4. AsAsked(r)
  BY DEF Good, AsAsked
<1> QED
  BY <1>1, <1>3, <1>4 DEF Good

(* setBuffer, before the event sends anything else.                        *)
LEMMA SetBufferStep ==
  ASSUME NEW s \in Client, Good(s), ~s.threw, s.out = <<>>,
         wire \in Seq(Packet), Polls \in BOOLEAN,
         NEW v \in BOOLEAN, NEW ok \in BOOLEAN, ~ok => Throws
  PROVE  LET r == SetBuffer(s, v, ok) IN
         /\ r \in Client /\ Good(r) /\ SameSocket(s, r)
         /\ r.json = s.json
<1> DEFINE set == [s EXCEPT !.doBuffer = v]
           r == SetBuffer(s, v, ok)
<1>1. s.buffer \in Seq(Packet) /\ <<>> \in Seq(Packet)
  BY DEF Client
<1>2. set \in Client
  BY Zenon DEF Client
<1>3. /\ SameAcks(s, set) /\ SameSocket(s, set)
      /\ set.namespaces = s.namespaces /\ set.left = s.left
      /\ set.json = s.json /\ set.buffer = s.buffer /\ set.out = s.out
      /\ set.threw = s.threw /\ set.doBuffer = v
  BY DEF Client, SameAcks, SameSocket
<1>4. r = IF v \/ ~s.connected \/ s.buffer = <<>> THEN set
          ELSE IF ok THEN [set EXCEPT !.out = s.buffer, !.buffer = <<>>,
                                      !.doBuffer = Polls]
          ELSE [set EXCEPT !.threw = TRUE]
  BY DEF SetBuffer
<1> HIDE DEF set, r
<1>5. CASE v \/ ~s.connected \/ s.buffer = <<>>
  <2>1. Held(set) = Held(s) /\ Line(set) = Line(s)
    BY <1>3 DEF Held, Line, SameSocket
  <2>2. Good(set)
    BY <1>2, <1>3, <1>5, <2>1, MovedIsGood DEF SameSocket
  <2> QED
    BY <1>2, <1>3, <1>4, <1>5, <2>2 DEF r
<1>6. CASE ~(v \/ ~s.connected \/ s.buffer = <<>>) /\ ok
  <2> DEFINE t == [set EXCEPT !.out = s.buffer, !.buffer = <<>>,
                              !.doBuffer = Polls]
  <2>1. t \in Client
    BY <1>1, <1>2, Zenon DEF Client
  <2>2. /\ SameAcks(s, t) /\ SameSocket(s, t)
        /\ t.namespaces = s.namespaces /\ t.left = s.left
        /\ t.json = s.json /\ t.buffer = <<>> /\ t.out = s.buffer
        /\ t.threw = s.threw
    BY <1>2, <1>3 DEF Client, SameAcks, SameSocket
  <2> HIDE DEF t
  <2>3. Held(t) = Held(s)
    BY <2>2 DEF Held
  <2>4. Line(t) = Line(s)
    <3>1. /\ Line(t) = (wire \o s.buffer) \o <<>>
          /\ Line(s) = (wire \o <<>>) \o s.buffer
      BY <1>6, <2>2 DEF Line, SameSocket
    <3>2. wire \o s.buffer \in Seq(Packet) /\ wire \o <<>> = wire
      BY <1>1, ConcatHolds, ConcatEmptySeq
    <3> QED
      BY <3>1, <3>2, ConcatEmptySeq
  <2>5. Good(t)
    BY <2>1, <2>2, <2>3, <2>4, MovedIsGood
  <2> QED
    BY <1>4, <1>6, <2>1, <2>2, <2>5 DEF r, t
<1>7. CASE ~(v \/ ~s.connected \/ s.buffer = <<>>) /\ ~ok
  <2> DEFINE t == [set EXCEPT !.threw = TRUE]
  <2>1. t \in Client
    BY <1>2, Zenon DEF Client
  <2>2. /\ SameAcks(s, t) /\ SameSocket(s, t)
        /\ t.namespaces = s.namespaces /\ t.left = s.left
        /\ t.json = s.json /\ t.buffer = s.buffer /\ t.out = s.out
    BY <1>2, <1>3 DEF Client, SameAcks, SameSocket
  <2> HIDE DEF t
  <2>3. Held(t) = Held(s)
    BY <2>2 DEF Held
  <2>4. Good(t)
    BY <1>7, <2>1, <2>2, <2>3, MovedIsGood
  <2> QED
    BY <1>4, <1>7, <2>1, <2>2, <2>4 DEF r, t
<1> QED
  BY <1>5, <1>6, <1>7

(* A POST of the transport begins, or is answered.                         *)
LEMMA TransportPostsStep == IInv /\ TransportPosts => IInv'
<1> SUFFICES ASSUME IInv, TransportPosts
             PROVE  IInv'
  OBVIOUS
<1>1. PICK v \in BOOLEAN, ok \in Sends : Becomes(SetBuffer(c, v, ok))
  BY DEF TransportPosts
<1>2. /\ c \in Client /\ Good(c) /\ ~c.threw /\ c.out = <<>>
      /\ wire \in Seq(Packet) /\ Polls \in BOOLEAN /\ (~Throws => c.json = {})
      /\ ok \in BOOLEAN /\ (~ok => Throws)
  BY AtTheStart, MayThrow
<1> DEFINE s == SetBuffer(c, v, ok)
<1>3. s \in Client /\ Good(s) /\ s.json = c.json
  BY <1>2, SetBufferStep
<1> HIDE DEF s
<1> QED
  BY <1>1, <1>2, <1>3, AtTheEnd DEF s

(* A connection: what waits becomes the line.                              *)
LEMMA ConnectedIsGood ==
  ASSUME IInv, ~c.connected, NEW s \in Client,
         SameAcks(c, s), s.connected, s.connections = c.connections + 1,
         s.reconnecting = c.reconnecting, s.namespaces = c.namespaces,
         s.left = c.left, s.doBuffer, s.buffer = c.buffer, s.out = <<>>, ~s.threw
  PROVE  Good(s)
<1>1. /\ c \in Client /\ Good(c) /\ c.out = <<>> /\ wire = <<>>
      /\ server = NoServer /\ c.connections \in Nat
  BY AtTheStart, BoundsAssumption DEF Client
<1>2. Held(s) = Held(c)
  BY <1>1 DEF Held
<1>3. Acks(s)
  BY <1>1, <1>2, AcksStay DEF Good
<1>4. JoinInv(s)
  <2>1. /\ s.left \subseteq s.namespaces /\ s.connections > 0
        /\ s.connections # 0 /\ server.early = {}
    BY <1>1 DEF Good, JoinInv, NoServer
  <2>2. ASSUME ~Throws, First(s)
        PROVE  Ready(Line(s), server.joined, s)
    <3>1. First(c)
      BY <1>1, <2>2 DEF First
    <3>2. Ready(c.buffer, server.joined, c)
      BY <1>1, <2>2, <3>1 DEF Good, JoinInv, Line
    <3>3. Line(s) = c.buffer
      <4>1. <<>> \o <<>> = <<>> /\ <<>> \o c.buffer = c.buffer
        BY <1>1, ConcatEmptySeq DEF Client
      <4> QED
        BY <1>1, <4>1 DEF Line
    <3> QED
      BY <3>2, <3>3, ReadyStays
  <2> QED
    BY <2>1, <2>2 DEF JoinInv
<1>5. AsAsked(s)
  BY <1>1, <1>2 DEF Good, AsAsked
<1> QED
  BY <1>1, <1>3, <1>4, <1>5 DEF Good

(* The socket connects, for the first time or again.                       *)
LEMMA SocketConnectsStep == IInv /\ SocketConnects => IInv'
<1> SUFFICES ASSUME IInv, SocketConnects
             PROVE  IInv'
  OBVIOUS
<1>1. PICK ok \in Sends : Becomes(OnConnect(c, ok))
  BY DEF SocketConnects
<1>2. /\ c \in Client /\ Good(c) /\ ~c.threw /\ ~c.connected /\ c.out = <<>>
      /\ c.connections < MaxConnections /\ wire \in Seq(Packet)
      /\ Polls \in BOOLEAN /\ (~Throws => c.json = {})
  BY AtTheStart DEF SocketConnects
<1>3. ok \in BOOLEAN /\ (~ok => Throws)
  BY AtTheStart, MayThrow
<1> DEFINE count == c.connections + 1
           on == [c EXCEPT !.connected = TRUE, !.connections = count]
           held == [on EXCEPT !.doBuffer = TRUE]
           s == IF c.doBuffer THEN held ELSE SetBuffer(held, FALSE, ok)
<1>4. count \in 0 .. MaxConnections /\ c.connections \in Nat
  BY <1>2, BoundsAssumption DEF Client
<1>5. OnConnect(c, ok) = IF s.threw \/ ~c.reconnecting THEN s ELSE Reset(s, ok)
  <2>1. [c EXCEPT !.connected = TRUE, !.connections = @ + 1] = on
    BY <1>2 DEF Client
  <2>2. c.doBuffer => on = held
    BY <1>2 DEF Client
  <2>3. SetBuffer(held, FALSE, ok) = SetBuffer(on, FALSE, ok)
    <3>1. /\ on.connected = held.connected /\ on.buffer = held.buffer
          /\ [held EXCEPT !.doBuffer = FALSE] = [on EXCEPT !.doBuffer = FALSE]
      BY <1>2 DEF Client
    <3> HIDE DEF on, held
    <3> QED
      BY <3>1 DEF SetBuffer
  <2> HIDE DEF on, held
  <2> QED
    BY <2>1, <2>2, <2>3 DEF OnConnect
<1>6. on \in Client
  <2> HIDE DEF count
  <2> QED
    BY <1>2, <1>4, Zenon DEF Client
<1>7. held \in Client
  <2> HIDE DEF on
  <2> QED
    BY <1>6, Zenon DEF Client
<1>8. /\ SameAcks(c, held) /\ held.connected /\ held.connections = count
      /\ held.reconnecting = c.reconnecting /\ held.namespaces = c.namespaces
      /\ held.left = c.left /\ held.json = c.json /\ ~held.threw
      /\ held.buffer = c.buffer /\ held.out = <<>> /\ held.doBuffer
  BY <1>2 DEF Client, SameAcks
<1> HIDE DEF held
<1>9. Good(held)
  BY <1>2, <1>7, <1>8, ConnectedIsGood
<1>10. /\ s \in Client /\ Good(s) /\ SameSocket(held, s) /\ s.json = c.json
  <2>1. CASE c.doBuffer
    BY <1>7, <1>8, <1>9, <2>1 DEF SameSocket
  <2>2. CASE ~c.doBuffer
    <3> DEFINE set == SetBuffer(held, FALSE, ok)
    <3>1. /\ set \in Client /\ Good(set) /\ SameSocket(held, set)
          /\ set.json = held.json
      BY <1>2, <1>3, <1>7, <1>8, <1>9, SetBufferStep
    <3>2. s = set
      BY <2>2
    <3> HIDE DEF set, s
    <3> QED
      BY <1>8, <3>1, <3>2
  <2> QED
    BY <2>1, <2>2
<1> HIDE DEF s
<1>11. CASE s.threw \/ ~c.reconnecting
  BY <1>1, <1>2, <1>5, <1>10, <1>11, AtTheEnd
<1>12. CASE ~s.threw /\ c.reconnecting
  <2> DEFINE r == Reset(s, ok)
  <2>1. Becomes(r)
    BY <1>1, <1>5, <1>12
  <2>2. s.connected /\ s.connections > 1
    <3>1. c.connections # 0
      BY <1>2, <1>12 DEF Good, JoinInv
    <3> QED
      BY <1>4, <1>8, <1>10, <3>1 DEF SameSocket
  <2>3. r \in Client /\ Good(r) /\ r.json \subseteq s.json
    BY <1>2, <1>3, <1>10, <1>12, <2>2, ResetStep
  <2> HIDE DEF r
  <2> QED
    BY <1>2, <1>10, <2>1, <2>3, AtTheEnd
<1> QED
  BY <1>11, <1>12

(***************************************************************************)
(* The theorems.                                                           *)
(***************************************************************************)

(* At first there are no namespaces, packets and messages.                 *)
LEMMA InitIInv == Init => IInv
<1> SUFFICES ASSUME Init
             PROVE  IInv
  OBVIOUS
<1>1. 0 \in 0 .. MaxMessages /\ 0 \in 0 .. MaxConnections /\ 0 \in 0 .. 2
  BY BoundsAssumption
<1> DEFINE ids == [n \in Name |-> 0]
           table == [n \in Name |-> [i \in Message |-> 0]]
           calls == [m \in Message |-> 0]
<1>2. /\ ids \in [Name -> 0 .. MaxMessages]
      /\ table \in [Name -> [Message -> 0 .. MaxMessages]]
      /\ calls \in [Message -> 0 .. 2]
      /\ \A n \in Name : ids[n] = 0
      /\ \A n \in Name, i \in Message : table[n][i] = 0
      /\ \A m \in Message : calls[m] = 0
      /\ <<>> \in Seq(Packet)
  BY <1>1
<1> HIDE DEF ids, table, calls
<1>3. /\ world \in Worlds
      /\ c = [connected |-> FALSE, reconnecting |-> FALSE, doBuffer |-> FALSE,
              buffer |-> <<>>, namespaces |-> {}, json |-> {}, ackPackets |-> ids,
              acks |-> table, left |-> {}, messages |-> 0, connections |-> 0,
              called |-> calls, faulty |-> {}, answers |-> {},
              out |-> <<>>, threw |-> FALSE]
      /\ wire = <<>> /\ server = NoServer
  BY DEF Init, ids, table, calls, NoServer
<1>4. c \in Client
  BY <1>1, <1>2, <1>3, Zenon DEF Client
<1>5. TypeOK
  BY <1>2, <1>3, <1>4 DEF TypeOK, Client, NoServer
<1>6. Held(c) \cup Elements(wire) \cup server.served = {}
  BY <1>3 DEF Held, Elements, NoServer
<1>7. Acks(c)
  <2>1. /\ c.acks = table /\ c.called = calls /\ c.ackPackets = ids
        /\ c.messages = 0 /\ c.answers = {}
    BY <1>3
  <2>2. Registered(c)
    BY <1>2, <2>1 DEF Registered
  <2>3. Counted(c)
    BY <1>2, <2>1 DEF Counted
  <2> QED
    BY <1>6, <2>2, <2>3 DEF Acks
<1>8. JoinInv(c)
  BY <1>3 DEF JoinInv, First, Ready, Line, NoServer
<1>9. AsAsked(c)
  BY <1>6 DEF AsAsked
<1>10. IsFiniteSet(c.namespaces)
  BY <1>3, FS_EmptySet
<1> QED
  BY <1>3, <1>5, <1>7, <1>8, <1>9, <1>10 DEF IInv, Good, NoServer

(* Every operation, packet and event keeps the invariant.                  *)
LEMMA StepIInv == IInv /\ [Next]_vars => IInv'
<1> SUFFICES ASSUME IInv, [Next]_vars
             PROVE  IInv'
  OBVIOUS
<1>1. ASSUME NEW n \in Name, UserOf(n)
      PROVE  IInv'
  BY <1>1, UserOfStep
<1>2. ASSUME NEW n \in Name, UserSends(n)
      PROVE  IInv'
  BY <1>2, UserSendsStep
<1>3. ASSUME NEW n \in Name, UserLeaves(n)
      PROVE  IInv'
  BY <1>3, UserLeavesStep
<1>4. ASSUME NEW n \in Name, ServerSends(n)
      PROVE  IInv'
  BY <1>4, ServerSendsStep
<1>5. CASE UserDisconnects
  BY <1>5, UserDisconnectsStep
<1>6. CASE SocketConnects
  BY <1>6, SocketConnectsStep
<1>7. CASE SocketDisconnects
  BY <1>7, SocketDisconnectsStep
<1>11. CASE TransportPosts
  BY <1>11, TransportPostsStep
<1>8. CASE ServerReads
  BY <1>8, ServerReadsStep
<1>9. ASSUME NEW p \in server.served, ServerAcks(p)
      PROVE  IInv'
  BY <1>9, ServerAcksStep
<1>10. CASE UNCHANGED vars
  <2>1. c' = c /\ wire' = wire /\ server' = server /\ world' = world
    BY <1>10 DEF vars
  <2>2. TypeOK' /\ Throws' = Throws
    BY <2>1 DEF IInv, TypeOK, Throws
  <2>3. Acks(c)'
    BY <2>1 DEF IInv, Good, Acks, Registered, Counted, Awaited, Held, Elements
  <2>4. JoinInv(c)'
    BY <2>1, <2>2 DEF IInv, Good, JoinInv, First, Ready, Line, NoServer
  <2>5. AsAsked(c)'
    BY <2>1, <2>2 DEF IInv, Good, AsAsked, Held, Elements
  <2> QED
    BY <2>1, <2>2, <2>3, <2>4, <2>5 DEF IInv, Good, NoServer
<1> QED
  BY <1>1, <1>2, <1>3, <1>4, <1>5, <1>6, <1>7, <1>8, <1>9, <1>10, <1>11
  DEF Next

(* The inductive invariant holds in every reachable state.                 *)
THEOREM IInvHolds == Spec => []IInv
BY InitIInv, StepIInv, PTL DEF Spec

(* The types of socket.io.js's namespaces: among others, an id never       *)
(* exceeds the messages, and no callback is called a third time.           *)
THEOREM TypeCorrect == Spec => []TypeOK
<1>1. IInv => TypeOK
  BY DEF IInv
<1> QED
  BY <1>1, IInvHolds, PTL

(* The packets that the properties are about are those of the invariant.   *)
LEMMA PacketsAre == Packets \subseteq Held(c) \cup Elements(wire)
BY DEF Packets, Held, Elements

(* No message goes as JSON that was not sent so, if no send throws.        *)
THEOREM FlagForOne == Spec => []JsonAsAsked
<1>1. IInv => JsonAsAsked
  BY PacketsAre DEF IInv, Good, AsAsked, JsonAsAsked
<1> QED
  BY <1>1, IInvHolds, PTL

(* An acknowledgment finds the callback of its own message.                *)
THEOREM RightCallback == Spec => []AckOfItsMessage
<1>1. IInv => AckOfItsMessage
  BY DEF IInv, Good, Acks, Counted, AckOfItsMessage
<1> QED
  BY <1>1, IInvHolds, PTL

(* A callback is called once, unless it throws.                            *)
THEOREM OneCall == Spec => []CalledOnce
<1>1. IInv => CalledOnce
  BY DEF IInv, Good, Acks, Counted, CalledOnce
<1> QED
  BY <1>1, IInvHolds, PTL

(* A callback waits for as long as its message may be acknowledged.        *)
THEOREM StillWaits == Spec => []CallbackWaits
<1>1. IInv => CallbackWaits
  <2> SUFFICES ASSUME IInv, NEW p \in Packets \cup server.served,
                      p.id > 0, c.called[p.msg] = 0
               PROVE  c.acks[p.endpoint][p.id] = p.msg
    BY DEF CallbackWaits
  <2>1. Awaited(c, p)
    BY PacketsAre DEF IInv, Good, Acks
  <2> QED
    BY <2>1 DEF Awaited
<1> QED
  BY <1>1, IInvHolds, PTL

(* On the first connection a namespace is joined before it is used.        *)
THEOREM ConnectGoesFirst == Spec => []JoinedFirst
<1>1. IInv => JoinedFirst
  BY DEF IInv, Good, JoinInv, JoinedFirst
<1> QED
  BY <1>1, IInvHolds, PTL

==============================================================================
