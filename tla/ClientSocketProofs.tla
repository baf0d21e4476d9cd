--------------------------- MODULE ClientSocketProofs --------------------------
(***************************************************************************)
(* What ClientSocket promises, proved for any number of WebSockets,        *)
(* handshakes, messages, timers and attempts.                              *)
(*                                                                         *)
(* The inductive invariant has a part for each of the properties: the      *)
(* reconnection that a timer drives, the connection attempt that ends, and *)
(* the line of messages, on the wire and in the buffer.  The parts are     *)
(* predicates of a state, as the operators of ClientSocket are functions   *)
(* of one, so that each operator has a lemma of its own.                   *)
(***************************************************************************)
EXTENDS ClientSocket, FiniteSetTheorems, SequenceTheorems, TLAPS

Packets == Seq(0 .. MaxEmits)
Status == {"new", "connecting", "open", "closing", "closed"}

(* A state within an event, which may exceed two of the bounds.            *)
State ==
  [connected : BOOLEAN, open : BOOLEAN, connecting : BOOLEAN,
   reconnecting : BOOLEAN, doBuffer : BOOLEAN, buffer : Packets,
   tryMultiple : BOOLEAN, attempts : 0 .. MaxAttempts + 1, redo : BOOLEAN,
   transports : {"unset", "websocket", "empty"},
   transport : WebSocket \cup {NoTransport, Unopened},
   requests : Nat, ws : [WebSocket -> Status],
   isOpen : [WebSocket -> BOOLEAN],
   closeTimers : SUBSET WebSocket, connectTimers : SUBSET WebSocket,
   connectTimer : WebSocket \cup {0}, onceFirst : BOOLEAN,
   heartbeatTimer : BOOLEAN, reconnectionTimer : BOOLEAN, strays : Nat,
   threw : BOOLEAN, emitted : 0 .. MaxEmits, sent : Seq(1 .. MaxEmits),
   refused : BOOLEAN, down : BOOLEAN]

(***************************************************************************)
(* Reconnection.                                                           *)
(***************************************************************************)

(* The attempts are counted, but for the last one.                         *)
Attempted(s) == ~s.redo => s.attempts <= MaxAttempts

(* A socket has a transport from its first WebSocket on, unless the        *)
(* transports are used up.                                                 *)
HasTransport(s) == s.transport # NoTransport \/ s.transports = "empty"

Chosen(s) ==
  ~HasTransport(s) => ~s.connected /\ \A w \in WebSocket : s.ws[w] = "new"

Driven(s) ==
  s.reconnecting /\ ~s.redo => s.reconnectionTimer \/ s.transports = "empty"

(***************************************************************************)
(* Connection.                                                             *)
(***************************************************************************)

Ending(s) ==
  s.connecting /\ ~s.connected /\ ~s.refused =>
    s.requests > 0 \/ s.connectTimers # {} \/ s.transports = "empty"

(***************************************************************************)
(* The messages on the wire and in the buffer.                             *)
(***************************************************************************)

Takes(s) == s.transport \in WebSocket /\ s.ws[s.transport] = "open"

(* While messages wait in the buffer, those that follow wait as well, or   *)
(* are lost.                                                               *)
Waiting(s) == s.connected /\ ~s.doBuffer /\ s.buffer # <<>> => ~Takes(s)

(* Of two packets of a list, the later one is a later message, or is the   *)
(* disconnect packet.                                                      *)
Ascending(list) ==
  \A i, j \in DOMAIN list :
    i < j /\ list[j] # DisconnectPacket => list[i] < list[j]

Ordered(s) ==
  /\ Ascending(s.sent) /\ Ascending(s.buffer)
  /\ \A i \in DOMAIN s.sent, j \in DOMAIN s.buffer :
       s.buffer[j] # DisconnectPacket => s.sent[i] < s.buffer[j]
  /\ \A i \in DOMAIN s.sent : s.sent[i] <= s.emitted
  /\ \A j \in DOMAIN s.buffer : s.buffer[j] <= s.emitted

(***************************************************************************)
(* Two parts hold at some places within an event only.                     *)
(***************************************************************************)

Sound(s) == Attempted(s) /\ Chosen(s) /\ Ordered(s)

Good(s) == Sound(s) /\ Driven(s) /\ Ending(s) /\ Waiting(s)

IInv == TypeOK /\ Good(sock)

(***************************************************************************)
(* The messages among packets.                                             *)
(***************************************************************************)

UpTo(places, i) == {j \in places : j <= i}

(* The kth of a finite set of places is one of them, and they ascend.      *)
LEMMA KthPlace ==
  ASSUME NEW places \in SUBSET Nat, IsFiniteSet(places)
  PROVE  LET Place(k) == CHOOSE i \in places : Cardinality(UpTo(places, i)) = k
             n == Cardinality(places)
         IN
         /\ n \in Nat
         /\ \A k \in 1 .. n : Place(k) \in places
         /\ \A k, l \in 1 .. n : k < l => Place(k) < Place(l)
<1> DEFINE n == Cardinality(places)
           rank == [i \in places |-> Cardinality(UpTo(places, i))]
           Place(k) == CHOOSE i \in places : Cardinality(UpTo(places, i)) = k
<1>1. n \in Nat /\ \A i \in places : i \in Nat
  BY FS_CardinalityType
<1>2. ASSUME NEW i \in places
      PROVE  /\ IsFiniteSet(UpTo(places, i)) /\ UpTo(places, i) \subseteq places
             /\ Cardinality(UpTo(places, i)) \in 1 .. n
  <2>1. IsFiniteSet(UpTo(places, i)) /\ UpTo(places, i) \subseteq places
        /\ Cardinality(UpTo(places, i)) <= n
    BY FS_Subset DEF UpTo
  <2>2. Cardinality(UpTo(places, i)) \in Nat
    BY <2>1, FS_CardinalityType
  <2>3. i \in UpTo(places, i)
    BY DEF UpTo
  <2>4. Cardinality(UpTo(places, i)) # 0
    BY <2>1, <2>3, FS_EmptySet
  <2> QED
    BY <1>1, <2>1, <2>2, <2>4
<1>3. ASSUME NEW i \in places, NEW j \in places, i < j
      PROVE  Cardinality(UpTo(places, i)) < Cardinality(UpTo(places, j))
  <2>1. UpTo(places, i) \in SUBSET UpTo(places, j)
    <3>1. \A p \in places : p <= i => p <= j
      BY <1>1, <1>3
    <3> QED
      BY <3>1 DEF UpTo
  <2>2. j \in UpTo(places, j) /\ j \notin UpTo(places, i)
    BY <1>3 DEF UpTo
  <2>3. /\ Cardinality(UpTo(places, i)) <= Cardinality(UpTo(places, j))
        /\ Cardinality(UpTo(places, i)) # Cardinality(UpTo(places, j))
    BY <1>2, <2>1, <2>2, FS_Subset
  <2> QED
    BY <1>2, <2>3
<1>4. rank \in [places -> 1 .. n]
  BY <1>2
<1>5. \A i, j \in places : rank[i] = rank[j] => i = j
  <2>1. \A i, j \in places : i < j => rank[i] < rank[j]
    BY <1>3
  <2>2. \A i \in places : rank[i] \in 1 .. n
    BY <1>4
  <2> HIDE DEF rank
  <2> QED
    BY <1>1, <2>1, <2>2
<1>6. rank \in Injection(places, 1 .. n)
  BY <1>4, <1>5 DEF Injection, IsInjective
<1>7. IsFiniteSet(1 .. n) /\ Cardinality(1 .. n) = n
  BY <1>1, FS_Interval
<1>8. rank \in Surjection(places, 1 .. n)
  BY <1>6, <1>7, FS_Injection
<1>9. ASSUME NEW k \in 1 .. n
      PROVE  Place(k) \in places /\ Cardinality(UpTo(places, Place(k))) = k
  <2>1. \E i \in places : Cardinality(UpTo(places, i)) = k
    BY <1>8 DEF Surjection
  <2> QED
    BY <2>1
<1>10. ASSUME NEW k \in 1 .. n, NEW l \in 1 .. n, k < l
       PROVE  Place(k) < Place(l)
  <2>1. /\ Place(k) \in places /\ Cardinality(UpTo(places, Place(k))) = k
        /\ Place(l) \in places /\ Cardinality(UpTo(places, Place(l))) = l
    BY <1>9
  <2> HIDE DEF Place
  <2>2. Place(k) # Place(l)
    BY <1>10, <2>1
  <2>3. ~(Place(l) < Place(k))
    <3> SUFFICES ASSUME Place(l) < Place(k)
                 PROVE  FALSE
      OBVIOUS
    <3>1. l < k
      BY <1>3, <2>1
    <3> QED
      BY <1>1, <1>10, <3>1
  <2>4. Place(k) \in Nat /\ Place(l) \in Nat
    BY <1>1, <2>1
  <2> QED
    BY <2>2, <2>3, <2>4
<1> QED
  BY <1>1, <1>9, <1>10

(* Messages picks the messages of a list, and keeps their order.           *)
LEMMA MessagesOf ==
  ASSUME NEW list \in Packets
  PROVE  LET m == Messages(list) IN
         /\ m \in Seq(1 .. MaxEmits)
         /\ \E place \in [DOMAIN m -> DOMAIN list] :
              /\ \A k \in DOMAIN m :
                   m[k] = list[place[k]] /\ list[place[k]] # DisconnectPacket
              /\ \A k, l \in DOMAIN m : k < l => place[k] < place[l]
<1> DEFINE places == {i \in DOMAIN list : list[i] # DisconnectPacket}
           n == Cardinality(places)
           Place(k) == CHOOSE i \in places : Cardinality(UpTo(places, i)) = k
           m == [k \in 1 .. n |-> list[Place(k)]]
           place == [k \in 1 .. n |-> Place(k)]
<1>1. /\ Len(list) \in Nat /\ DOMAIN list = 1 .. Len(list)
      /\ \A i \in DOMAIN list : list[i] \in 0 .. MaxEmits
  BY LenProperties, ElementOfSeq DEF Packets
<1>2. IsFiniteSet(DOMAIN list) /\ DOMAIN list \subseteq Nat
  BY <1>1, FS_Interval
<1>3. IsFiniteSet(places) /\ places \in SUBSET Nat /\ places \subseteq DOMAIN list
  BY <1>2, FS_Subset
<1>4. Messages(list) = m
  BY DEF Messages, UpTo
<1>5. \A i \in places : list[i] # DisconnectPacket /\ list[i] \in 1 .. MaxEmits
  BY <1>1, BoundsAssumption DEF DisconnectPacket
<1> HIDE DEF places
<1>6. /\ n \in Nat
      /\ \A k \in 1 .. n : Place(k) \in places
      /\ \A k, l \in 1 .. n : k < l => Place(k) < Place(l)
  BY <1>3, KthPlace
<1> HIDE DEF Place, n
<1>7. m \in Seq(1 .. MaxEmits) /\ DOMAIN m = 1 .. n
  <2>1. m \in [1 .. n -> 1 .. MaxEmits]
    BY <1>5, <1>6
  <2> QED
    BY <1>6, <2>1, IsASeq
<1>8. /\ place \in [DOMAIN m -> DOMAIN list]
      /\ \A k \in DOMAIN m :
           m[k] = list[place[k]] /\ list[place[k]] # DisconnectPacket
      /\ \A k, l \in DOMAIN m : k < l => place[k] < place[l]
  BY <1>3, <1>5, <1>6, <1>7
<1> HIDE DEF m, place
<1> QED
  BY <1>4, <1>7, <1>8

(***************************************************************************)
(* The lists of a socket.                                                  *)
(***************************************************************************)

SameLists(s, r) ==
  r.sent = s.sent /\ r.buffer = s.buffer /\ r.emitted = s.emitted

(* Messages are sent, those that wait or one of its own.                   *)
LEMMA SentInLine ==
  ASSUME NEW s \in State, NEW list \in Packets,
         Ascending(s.sent), Ascending(list),
         \A i \in DOMAIN s.sent, j \in DOMAIN list :
           list[j] # DisconnectPacket => s.sent[i] < list[j],
         \A i \in DOMAIN s.sent : s.sent[i] <= s.emitted,
         \A j \in DOMAIN list : list[j] <= s.emitted
  PROVE  LET sent == s.sent \o Messages(list) IN
         /\ sent \in Seq(1 .. MaxEmits)
         /\ Ascending(sent)
         /\ \A i \in DOMAIN sent :
              \/ i \in DOMAIN s.sent /\ sent[i] = s.sent[i]
              \/ \E j \in DOMAIN list :
                   list[j] # DisconnectPacket /\ sent[i] = list[j]
<1> DEFINE m == Messages(list)
           sent == s.sent \o m
<1>1. /\ m \in Seq(1 .. MaxEmits)
      /\ \E place \in [DOMAIN m -> DOMAIN list] :
           /\ \A k \in DOMAIN m :
                m[k] = list[place[k]] /\ list[place[k]] # DisconnectPacket
           /\ \A k, l \in DOMAIN m : k < l => place[k] < place[l]
  BY MessagesOf
<1> HIDE DEF m
<1>2. PICK place \in [DOMAIN m -> DOMAIN list] :
        /\ \A k \in DOMAIN m :
             m[k] = list[place[k]] /\ list[place[k]] # DisconnectPacket
        /\ \A k, l \in DOMAIN m : k < l => place[k] < place[l]
  BY <1>1
<1> DEFINE a == Len(s.sent)
           b == Len(m)
<1>3. s.sent \in Seq(1 .. MaxEmits)
  BY DEF State
<1>4. /\ a \in Nat /\ b \in Nat
      /\ DOMAIN s.sent = 1 .. a /\ DOMAIN m = 1 .. b
      /\ sent \in Seq(1 .. MaxEmits) /\ DOMAIN sent = 1 .. a + b
  BY <1>1, <1>3, ConcatProperties, LenProperties
<1>5. \A i \in 1 .. a + b : sent[i] = IF i <= a THEN s.sent[i] ELSE m[i - a]
  BY <1>1, <1>3, ConcatProperties
<1> HIDE DEF sent, a, b
<1>6. \A i \in 1 .. a : i \in 1 .. a + b /\ sent[i] = s.sent[i]
  BY <1>4, <1>5
<1>7. ASSUME NEW i \in 1 .. a + b, i \notin 1 .. a
      PROVE  i - a \in 1 .. b /\ sent[i] = list[place[i - a]]
             /\ place[i - a] \in DOMAIN list
             /\ list[place[i - a]] # DisconnectPacket
  <2>1. i - a \in 1 .. b /\ ~(i <= a)
    BY <1>4, <1>7
  <2> QED
    BY <1>2, <1>4, <1>5, <2>1
<1>8. ASSUME NEW i \in DOMAIN sent, NEW j \in DOMAIN sent, i < j
      PROVE  sent[i] < sent[j]
  <2>1. CASE j \in 1 .. a
    <3>1. i \in 1 .. a
      BY <1>4, <1>8, <2>1
    <3>2. s.sent[j] \in 1 .. MaxEmits /\ s.sent[j] # DisconnectPacket
      <4>1. s.sent[j] \in 1 .. MaxEmits
        BY <1>3, <2>1, ElementOfSeq DEF a
      <4> QED
        BY <4>1, BoundsAssumption DEF DisconnectPacket
    <3> QED
      BY <1>4, <1>6, <1>8, <2>1, <3>1, <3>2 DEF Ascending
  <2>2. CASE i \in 1 .. a /\ j \notin 1 .. a
    BY <1>4, <1>6, <1>7, <2>2
  <2>3. CASE i \notin 1 .. a /\ j \notin 1 .. a
    <3>1. i - a < j - a
      BY <1>4, <1>8
    <3>2. place[i - a] < place[j - a]
      BY <1>2, <1>4, <1>7, <2>3, <3>1
    <3> QED
      BY <1>4, <1>7, <2>3, <3>2 DEF Ascending
  <2> QED
    BY <2>1, <2>2, <2>3
<1>9. Ascending(sent)
  BY <1>8 DEF Ascending
<1>10. \A i \in DOMAIN sent :
         \/ i \in DOMAIN s.sent /\ sent[i] = s.sent[i]
         \/ \E j \in DOMAIN list :
              list[j] # DisconnectPacket /\ sent[i] = list[j]
  BY <1>4, <1>6, <1>7
<1> QED
  BY <1>4, <1>9, <1>10 DEF sent, m

(* A shorter buffer, or what was in it sent, keeps the order.              *)
LEMMA SentIsOrdered ==
  ASSUME NEW s \in State, NEW r \in State, Ordered(s),
         r.emitted = s.emitted, r.buffer = <<>>,
         r.sent = s.sent \/ r.sent = s.sent \o Messages(s.buffer)
  PROVE  Ordered(r)
<1>1. s.buffer \in Packets
  BY DEF State
<1>2. Ascending(r.sent) /\ \A i \in DOMAIN r.sent : r.sent[i] <= r.emitted
  <2>1. CASE r.sent = s.sent
    BY <2>1 DEF Ordered
  <2>2. CASE r.sent = s.sent \o Messages(s.buffer)
    <3> DEFINE sent == s.sent \o Messages(s.buffer)
    <3>1. /\ Ascending(sent)
          /\ \A i \in DOMAIN sent :
               \/ i \in DOMAIN s.sent /\ sent[i] = s.sent[i]
               \/ \E j \in DOMAIN s.buffer :
                    s.buffer[j] # DisconnectPacket /\ sent[i] = s.buffer[j]
      BY <1>1, SentInLine DEF Ordered
    <3> HIDE DEF sent
    <3>2. \A i \in DOMAIN sent : sent[i] <= s.emitted
      BY <3>1 DEF Ordered
    <3> QED
      BY <2>2, <3>1, <3>2 DEF sent
  <2> QED
    BY <2>1, <2>2
<1>3. DOMAIN r.buffer = {}
  OBVIOUS
<1> QED
  BY <1>2, <1>3 DEF Ordered, Ascending

(* The next message, or the disconnect packet, waits or is sent.           *)
Follows(s, p) ==
  p # DisconnectPacket =>
    /\ p <= s.emitted
    /\ \A i \in DOMAIN s.sent : s.sent[i] < p
    /\ \A j \in DOMAIN s.buffer : s.buffer[j] < p

(* It waits.                                                               *)
LEMMA AppendIsOrdered ==
  ASSUME NEW s \in State, NEW r \in State, Ordered(s), NEW p \in 0 .. MaxEmits,
         Follows(s, p), r.emitted = s.emitted,
         r.sent = s.sent, r.buffer = Append(s.buffer, p)
  PROVE  Ordered(r)
<1> DEFINE longer == Append(s.buffer, p)
           n == Len(s.buffer)
<1>1. s.buffer \in Seq(0 .. MaxEmits) /\ s.emitted \in 0 .. MaxEmits
  BY DEF State, Packets
<1>2. /\ n \in Nat /\ DOMAIN s.buffer = 1 .. n
      /\ DOMAIN longer = 1 .. n + 1
      /\ \A k \in 1 .. n : longer[k] = s.buffer[k]
      /\ longer[n + 1] = p
  BY <1>1, AppendProperties, LenProperties
<1> HIDE DEF longer, n
<1>3. \A k \in 1 .. n + 1 : k \in 1 .. n \/ k = n + 1
  BY <1>2
<1>4. ASSUME NEW i \in 1 .. n + 1, NEW j \in 1 .. n + 1,
             i < j, longer[j] # DisconnectPacket
      PROVE  longer[i] < longer[j]
  <2>1. i \in 1 .. n
    BY <1>2, <1>4
  <2>2. CASE j \in 1 .. n
    BY <1>2, <1>4, <2>1, <2>2 DEF Ordered, Ascending
  <2>3. CASE j = n + 1
    BY <1>2, <1>4, <2>1, <2>3 DEF Follows
  <2> QED
    BY <1>3, <2>2, <2>3
<1>5. \A i \in DOMAIN s.sent, j \in 1 .. n + 1 :
        longer[j] # DisconnectPacket => s.sent[i] < longer[j]
  BY <1>2, <1>3 DEF Ordered, Follows
<1>6. \A j \in 1 .. n + 1 : longer[j] <= s.emitted
  <2>1. p <= s.emitted
    BY <1>1 DEF Follows, DisconnectPacket
  <2> QED
    BY <1>2, <1>3, <2>1 DEF Ordered
<1>7. Ascending(longer)
  BY <1>2, <1>4 DEF Ascending
<1> QED
  BY <1>2, <1>5, <1>6, <1>7 DEF Ordered, longer

(* It is sent, if nothing waits.                                           *)
LEMMA NextIsOrdered ==
  ASSUME NEW s \in State, NEW r \in State, Ordered(s), NEW p \in 0 .. MaxEmits,
         Follows(s, p), r.emitted = s.emitted, s.buffer = <<>>, r.buffer = <<>>,
         r.sent = s.sent \o Messages(<<p>>)
  PROVE  Ordered(r)
<1> DEFINE list == <<p>>
           sent == s.sent \o Messages(list)
<1>1. list \in Packets /\ DOMAIN list = {1} /\ list[1] = p
  BY DEF Packets
<1> HIDE DEF list
<1>2. p <= s.emitted
  BY DEF State, Follows, DisconnectPacket
<1>3. Ascending(list)
  BY <1>1 DEF Ascending
<1>4. /\ Ascending(sent)
      /\ \A i \in DOMAIN sent :
           \/ i \in DOMAIN s.sent /\ sent[i] = s.sent[i]
           \/ \E j \in DOMAIN list :
                list[j] # DisconnectPacket /\ sent[i] = list[j]
  BY <1>1, <1>2, <1>3, SentInLine DEF Ordered, Follows
<1> HIDE DEF sent
<1>5. \A i \in DOMAIN sent : sent[i] <= s.emitted
  BY <1>1, <1>2, <1>4 DEF Ordered
<1>6. r.sent = sent
  BY DEF sent, list
<1>7. DOMAIN r.buffer = {}
  OBVIOUS
<1> QED
  BY <1>4, <1>5, <1>6, <1>7 DEF Ordered, Ascending

(***************************************************************************)
(* What an operator leaves alone.                                          *)
(***************************************************************************)

SameReconnection(s, r) ==
  /\ r.reconnecting = s.reconnecting /\ r.redo = s.redo
  /\ r.attempts = s.attempts /\ r.reconnectionTimer = s.reconnectionTimer

SameTransport(s, r) ==
  r.transport = s.transport /\ r.transports = s.transports

SameAttempt(s, r) ==
  /\ r.connecting = s.connecting /\ r.refused = s.refused
  /\ r.requests = s.requests /\ r.connectTimers = s.connectTimers

SameBuffering(s, r) == r.connected = s.connected /\ r.doBuffer = s.doBuffer

(* WebSockets may close.                                                   *)
Closes(s, r) ==
  \A w \in WebSocket :
    r.ws[w] = s.ws[w] \/ (s.ws[w] # "new" /\ r.ws[w] \notin {"new", "open"})

(* All that the invariant is about stays, but that WebSockets may close.   *)
Same(s, r) ==
  /\ SameLists(s, r) /\ SameReconnection(s, r) /\ SameTransport(s, r)
  /\ SameAttempt(s, r) /\ SameBuffering(s, r) /\ Closes(s, r)

(* Then the parts that hold go on to.                                      *)
LEMMA SameIsGood ==
  ASSUME NEW s \in State, NEW r \in State, Same(s, r)
  PROVE  /\ Sound(s) => Sound(r)
         /\ Driven(s) => Driven(r)
         /\ Ending(s) => Ending(r)
         /\ Waiting(s) => Waiting(r)
<1>1. Attempted(s) => Attempted(r)
  BY DEF Same, SameReconnection, Attempted
<1>2. Chosen(s) => Chosen(r)
  BY DEF Same, SameTransport, SameBuffering, Closes, Chosen, HasTransport
<1>3. Ordered(s) => Ordered(r)
  BY DEF Same, SameLists, Ordered
<1>4. Driven(s) => Driven(r)
  BY DEF Same, SameReconnection, SameTransport, Driven
<1>5. Ending(s) => Ending(r)
  BY DEF Same, SameAttempt, SameBuffering, SameTransport, Ending
<1>6. Waiting(s) => Waiting(r)
  BY DEF Same, SameLists, SameBuffering, SameTransport, Closes, Waiting, Takes
<1> QED
  BY <1>1, <1>2, <1>3, <1>4, <1>5, <1>6 DEF Sound

(***************************************************************************)
(* WebSocket and Transport.                                                *)
(***************************************************************************)

(* An exception changes nothing that the invariant is about.               *)
LEMMA ThrewStep ==
  ASSUME NEW s \in State
  PROVE  Threw(s) \in State /\ Same(s, Threw(s)) /\ Threw(s).threw
<1> DEFINE r == [s EXCEPT !.threw = TRUE]
<1>1. r \in State
  BY Zenon DEF State
<1>2. Same(s, r) /\ r.threw
  BY DEF State, Same, SameLists, SameReconnection, SameTransport, SameAttempt,
         SameBuffering, Closes
<1> QED
  BY <1>1, <1>2 DEF Threw

(* Transport.close, for a transport that has a WebSocket.                  *)
LEMMA CloseWebSocketStep ==
  ASSUME NEW s \in State, NEW w \in WebSocket
  PROVE  /\ CloseWebSocket(s, w) \in State
         /\ Same(s, CloseWebSocket(s, w))
<1> DEFINE st == IF s.ws[w] \in {"connecting", "open"} THEN "closing" ELSE s.ws[w]
           ws == [s.ws EXCEPT ![w] = st]
           r == [s EXCEPT !.ws = ws]
<1>1. s.ws \in [WebSocket -> Status]
  BY DEF State
<1>2. st \in Status
  BY <1>1 DEF Status
<1>3. ws \in [WebSocket -> Status]
  BY <1>1, <1>2
<1>4. \A v \in WebSocket :
        ws[v] = s.ws[v] \/ (s.ws[v] # "new" /\ ws[v] \notin {"new", "open"})
  BY <1>1
<1>5. CloseWebSocket(s, w) = r
  BY DEF CloseWebSocket, State
<1> HIDE DEF ws
<1>6. r \in State
  BY <1>3, Zenon DEF State
<1>7. Same(s, r)
  BY <1>4 DEF State, Same, SameLists, SameReconnection, SameTransport,
              SameAttempt, SameBuffering, Closes
<1> QED
  BY <1>5, <1>6, <1>7

(* Transport.clearTimeouts.                                                *)
LEMMA ClearTimeoutsStep ==
  ASSUME NEW s \in State, NEW w \in WebSocket
  PROVE  /\ ClearTimeouts(s, w) \in State
         /\ Same(s, ClearTimeouts(s, w)) /\ ClearTimeouts(s, w).ws = s.ws
<1> DEFINE timers == s.closeTimers \ {w}
           r == [s EXCEPT !.closeTimers = timers]
<1>1. timers \in SUBSET WebSocket
  BY DEF State
<1>2. ClearTimeouts(s, w) = r
  BY DEF ClearTimeouts, State
<1> HIDE DEF timers
<1>3. r \in State
  BY <1>1, Zenon DEF State
<1>4. Same(s, r) /\ r.ws = s.ws
  BY DEF State, Same, SameLists, SameReconnection, SameTransport, SameAttempt,
         SameBuffering, Closes
<1> QED
  BY <1>2, <1>3, <1>4

(***************************************************************************)
(* Socket: buffer and packets.                                             *)
(***************************************************************************)

(* All stays but the lists.                                                *)
SameButLists(s, r) ==
  /\ SameReconnection(s, r) /\ SameTransport(s, r) /\ SameAttempt(s, r)
  /\ r.connected = s.connected /\ r.ws = s.ws /\ r.emitted = s.emitted

(* Packets are sent over an open WebSocket, or are lost.                   *)
LEMMA PutFields ==
  ASSUME NEW s \in State, NEW list \in Packets, Ordered(s), Ascending(list),
         \A i \in DOMAIN s.sent, j \in DOMAIN list :
           list[j] # DisconnectPacket => s.sent[i] < list[j],
         \A j \in DOMAIN list : list[j] <= s.emitted
  PROVE  LET r == Put(s, list) IN
         /\ r \in State /\ SameButLists(s, r)
         /\ r.doBuffer = s.doBuffer /\ r.buffer = s.buffer
         /\ \/ r = s /\ s.ws[s.transport] # "open"
            \/ r.sent = s.sent \o Messages(list) /\ s.ws[s.transport] = "open"
<1>1. CASE s.ws[s.transport] # "open"
  BY <1>1 DEF Put, SameButLists, SameReconnection, SameTransport, SameAttempt
<1>2. CASE s.ws[s.transport] = "open"
  <2> DEFINE sent == s.sent \o Messages(list)
             r == [s EXCEPT !.sent = sent]
  <2>1. sent \in Seq(1 .. MaxEmits)
    BY SentInLine DEF Ordered
  <2>2. Put(s, list) = r
    BY <1>2 DEF Put, State
  <2> HIDE DEF sent
  <2>3. r \in State
    BY <2>1, Zenon DEF State
  <2>4. /\ SameButLists(s, r) /\ r.sent = sent
        /\ r.doBuffer = s.doBuffer /\ r.buffer = s.buffer
    BY DEF State, SameButLists, SameReconnection, SameTransport, SameAttempt
  <2> HIDE DEF r
  <2> QED
    BY <1>2, <2>2, <2>3, <2>4 DEF sent
<1> QED
  BY <1>1, <1>2

(* flushBuffer.                                                            *)
LEMMA FlushBufferStep ==
  ASSUME NEW s \in State, Ordered(s)
  PROVE  LET r == FlushBuffer(s) IN
         /\ r \in State /\ SameButLists(s, r) /\ r.doBuffer = s.doBuffer
         /\ Ordered(r)
         /\ r.buffer = <<>> \/ ~CanSend(s)
<1>1. CASE ~CanSend(s)
  <2>1. FlushBuffer(s) = [s EXCEPT !.threw = TRUE]
    BY <1>1 DEF FlushBuffer, Threw
  <2>2. [s EXCEPT !.threw = TRUE] \in State
    BY Zenon DEF State
  <2> DEFINE r == [s EXCEPT !.threw = TRUE]
  <2>3. SameButLists(s, r) /\ r.doBuffer = s.doBuffer /\ SameLists(s, r)
    BY DEF State, SameButLists, SameReconnection, SameTransport, SameAttempt,
           SameLists
  <2> HIDE DEF r
  <2>4. Ordered(r)
    BY <2>3 DEF Ordered, SameLists
  <2> QED
    BY <1>1, <2>1, <2>2, <2>3, <2>4 DEF r
<1>2. CASE CanSend(s)
  <2> DEFINE put == Put(s, s.buffer)
             r == [put EXCEPT !.buffer = <<>>]
  <2>1. s.buffer \in Packets /\ <<>> \in Packets
    BY DEF State, Packets
  <2>2. FlushBuffer(s) = r
    BY <1>2 DEF FlushBuffer
  <2>3. /\ put \in State /\ SameButLists(s, put)
        /\ put.doBuffer = s.doBuffer /\ put.buffer = s.buffer
        /\ put.sent = s.sent \/ put.sent = s.sent \o Messages(s.buffer)
    BY <2>1, PutFields DEF Ordered
  <2> HIDE DEF put
  <2>4. r \in State
    BY <2>1, <2>3, Zenon DEF State
  <2>5. /\ SameButLists(put, r) /\ r.doBuffer = put.doBuffer
        /\ r.buffer = <<>> /\ r.sent = put.sent
    BY <2>3 DEF State, SameButLists, SameReconnection, SameTransport, SameAttempt
  <2> HIDE DEF r
  <2>6. SameButLists(s, r)
    BY <2>3, <2>5
    DEF SameButLists, SameReconnection, SameTransport, SameAttempt
  <2>7. Ordered(r)
    BY <2>3, <2>4, <2>5, <2>6, SentIsOrdered DEF SameButLists
  <2> QED
    BY <2>2, <2>3, <2>4, <2>5, <2>6, <2>7
<1> QED
  BY <1>1, <1>2

(* setBuffer: messages that wait are sent, or cannot be.                   *)
LEMMA SetBufferStep ==
  ASSUME NEW s \in State, Ordered(s), NEW v \in BOOLEAN
  PROVE  LET r == SetBuffer(s, v) IN
         /\ r \in State /\ SameButLists(s, r) /\ r.doBuffer = v
         /\ Ordered(r) /\ Waiting(r)
<1> DEFINE set == [s EXCEPT !.doBuffer = v]
<1>1. set \in State
  BY Zenon DEF State
<1>2. SameButLists(s, set) /\ set.doBuffer = v /\ SameLists(s, set)
  BY DEF State, SameButLists, SameReconnection, SameTransport, SameAttempt,
         SameLists
<1> HIDE DEF set
<1>3. Ordered(set)
  BY <1>2 DEF Ordered, SameLists
<1>4. SetBuffer(s, v) = IF ~v /\ s.connected /\ s.buffer # <<>>
                        THEN FlushBuffer(set) ELSE set
  BY DEF SetBuffer, set
<1>5. CASE ~(~v /\ s.connected /\ s.buffer # <<>>)
  <2>1. Waiting(set)
    BY <1>2, <1>5 DEF Waiting, SameButLists, SameLists
  <2> QED
    BY <1>1, <1>2, <1>3, <1>4, <1>5, <2>1
<1>6. CASE ~v /\ s.connected /\ s.buffer # <<>>
  <2> DEFINE r == FlushBuffer(set)
  <2>1. /\ r \in State /\ SameButLists(set, r) /\ r.doBuffer = set.doBuffer
        /\ Ordered(r)
        /\ r.buffer = <<>> \/ ~CanSend(set)
    BY <1>1, <1>3, FlushBufferStep
  <2> HIDE DEF r
  <2>2. SameButLists(s, r)
    BY <1>2, <2>1
    DEF SameButLists, SameReconnection, SameTransport, SameAttempt
  <2>3. Waiting(r)
    BY <2>1 DEF Waiting, Takes, CanSend, SameButLists, SameTransport
  <2> QED
    BY <1>2, <1>4, <1>6, <2>1, <2>2, <2>3 DEF r
<1> QED
  BY <1>5, <1>6

(* packet, of the next message or of disconnect.                           *)
LEMMA PacketStep ==
  ASSUME NEW s \in State, Ordered(s), Waiting(s), NEW p \in 0 .. MaxEmits,
         Follows(s, p)
  PROVE  LET r == Packet(s, p) IN
         /\ r \in State /\ SameButLists(s, r) /\ r.doBuffer = s.doBuffer
         /\ Ordered(r) /\ Waiting(r)
<1>1. CASE ~s.connected \/ s.doBuffer
  <2> DEFINE list == Append(s.buffer, p)
             r == [s EXCEPT !.buffer = list]
  <2>1. list \in Packets
    BY DEF State, Packets
  <2>2. Packet(s, p) = r
    BY <1>1 DEF Packet, State
  <2> HIDE DEF list
  <2>3. r \in State
    BY <2>1, Zenon DEF State
  <2>4. /\ SameButLists(s, r) /\ r.doBuffer = s.doBuffer
        /\ r.buffer = list /\ r.sent = s.sent
    BY DEF State, SameButLists, SameReconnection, SameTransport, SameAttempt
  <2> HIDE DEF r
  <2>5. Ordered(r)
    BY <2>3, <2>4, AppendIsOrdered DEF list, SameButLists
  <2>6. Waiting(r)
    BY <1>1, <2>4 DEF Waiting, SameButLists
  <2> QED
    BY <2>2, <2>3, <2>4, <2>5, <2>6
<1>2. CASE s.connected /\ ~s.doBuffer /\ CanSend(s)
  <2> DEFINE list == <<p>>
             r == Put(s, list)
  <2>1. Packet(s, p) = r
    BY <1>2 DEF Packet
  <2>2. list \in Packets /\ DOMAIN list = {1} /\ list[1] = p
    BY DEF Packets
  <2> HIDE DEF list
  <2>3. p <= s.emitted
    BY DEF State, Follows, DisconnectPacket
  <2>4. Ascending(list)
    BY <2>2 DEF Ascending
  <2>5. /\ r \in State /\ SameButLists(s, r)
        /\ r.doBuffer = s.doBuffer /\ r.buffer = s.buffer
        /\ \/ r = s /\ s.ws[s.transport] # "open"
           \/ r.sent = s.sent \o Messages(list) /\ s.ws[s.transport] = "open"
    BY <2>2, <2>3, <2>4, PutFields DEF Follows
  <2> HIDE DEF r
  <2>6. CASE r = s
    BY <2>1, <2>5, <2>6
  <2>7. CASE r.sent = s.sent \o Messages(list) /\ s.ws[s.transport] = "open"
    <3>1. s.buffer = <<>>
      BY <1>2, <2>7 DEF Waiting, Takes, CanSend
    <3>2. Ordered(r)
      BY <2>5, <2>7, <3>1, NextIsOrdered DEF list, SameButLists
    <3>3. Waiting(r)
      BY <2>5, <3>1 DEF Waiting
    <3> QED
      BY <2>1, <2>5, <3>2, <3>3
  <2> QED
    BY <2>5, <2>6, <2>7
<1>3. CASE s.connected /\ ~s.doBuffer /\ ~CanSend(s)
  <2> DEFINE r == Threw(s)
  <2>1. Packet(s, p) = r
    BY <1>3 DEF Packet
  <2>2. r = [s EXCEPT !.threw = TRUE]
    BY DEF Threw
  <2>3. r \in State
    BY ThrewStep
  <2>4. SameButLists(s, r) /\ r.doBuffer = s.doBuffer /\ SameLists(s, r)
    BY <2>2 DEF State, SameButLists, SameReconnection, SameTransport, SameAttempt,
                SameLists
  <2> HIDE DEF r
  <2>5. Ordered(r) /\ Waiting(r)
    BY <2>4 DEF Ordered, Waiting, Takes, SameLists, SameButLists, SameTransport
  <2> QED
    BY <2>1, <2>3, <2>4, <2>5
<1> QED
  BY <1>1, <1>2, <1>3

(***************************************************************************)
(* Socket: reconnection.                                                   *)
(***************************************************************************)

(* What the invariant is about stays, but for the reconnection's state.    *)
SameButReconnection(s, r) ==
  /\ SameLists(s, r) /\ SameTransport(s, r) /\ SameAttempt(s, r)
  /\ SameBuffering(s, r) /\ r.ws = s.ws

(* Then all but the reconnection's part holds as before.                   *)
LEMMA ButReconnection ==
  ASSUME NEW s \in State, NEW r \in State, SameButReconnection(s, r)
  PROVE  /\ Chosen(s) => Chosen(r)
         /\ Ordered(s) => Ordered(r)
         /\ Ending(s) => Ending(r)
         /\ Waiting(s) => Waiting(r)
<1>1. Chosen(s) => Chosen(r)
  BY DEF SameButReconnection, SameTransport, SameBuffering, Chosen, HasTransport
<1>2. Ordered(s) => Ordered(r)
  BY DEF SameButReconnection, SameLists, Ordered
<1>3. Ending(s) => Ending(r)
  BY DEF SameButReconnection, SameAttempt, SameBuffering, SameTransport, Ending
<1>4. Waiting(s) => Waiting(r)
  BY DEF SameButReconnection, SameLists, SameBuffering, SameTransport,
         Waiting, Takes
<1> QED
  BY <1>1, <1>2, <1>3, <1>4

(* connect asks for a handshake, which is then pending.                    *)
LEMMA ConnectStep ==
  ASSUME NEW s \in State
  PROVE  LET r == Connect(s) IN
         /\ r \in State
         /\ r.connected = s.connected /\ r.down = s.down
         /\ r.transport = s.transport /\ r.ws = s.ws
         /\ Sound(s) => Sound(r)
         /\ Driven(s) => Driven(r)
         /\ Ending(s) \/ ~s.connecting => Ending(r)
         /\ Waiting(s) => Waiting(r)
<1>1. CASE s.connecting
  BY <1>1 DEF Connect
<1>2. CASE ~s.connecting
  <2> DEFINE count == s.requests + 1
             r == [s EXCEPT !.connecting = TRUE, !.requests = count]
  <2>1. count \in Nat /\ count > 0
    BY DEF State
  <2>2. Connect(s) = r
    BY <1>2 DEF Connect, State
  <2> HIDE DEF count
  <2>3. r \in State
    BY <2>1, Zenon DEF State
  <2>4. /\ SameLists(s, r) /\ SameReconnection(s, r) /\ SameTransport(s, r)
        /\ SameBuffering(s, r) /\ r.ws = s.ws /\ r.down = s.down
        /\ r.requests = count
    BY DEF State, SameLists, SameReconnection, SameTransport, SameBuffering
  <2> HIDE DEF r
  <2>5. Sound(s) => Sound(r)
    BY <2>4 DEF Sound, Attempted, Chosen, HasTransport, Ordered, SameLists,
                SameReconnection, SameTransport, SameBuffering
  <2>6. Driven(s) => Driven(r)
    BY <2>4 DEF Driven, SameReconnection, SameTransport
  <2>7. Ending(r)
    BY <2>1, <2>4 DEF Ending
  <2>8. Waiting(s) => Waiting(r)
    BY <2>4 DEF Waiting, Takes, SameLists, SameTransport, SameBuffering
  <2> QED
    BY <2>2, <2>3, <2>4, <2>5, <2>6, <2>7, <2>8 DEF SameBuffering, SameTransport
<1> QED
  BY <1>1, <1>2

(* The reconnection's timer is set: what drives it.                        *)
LEMMA SetReconnectionTimerStep ==
  ASSUME NEW s \in State
  PROVE  LET r == SetReconnectionTimer(s) IN
         /\ r \in State /\ SameButReconnection(s, r) /\ r.down = s.down
         /\ Attempted(s) => Attempted(r)
         /\ Driven(r)
<1> DEFINE strays == IF s.reconnectionTimer THEN s.strays + 1 ELSE s.strays
           r == [s EXCEPT !.reconnectionTimer = TRUE, !.strays = strays]
<1>1. strays \in Nat
  BY DEF State
<1>2. SetReconnectionTimer(s) = r
  BY DEF SetReconnectionTimer, State
<1> HIDE DEF strays
<1>3. r \in State
  BY <1>1, Zenon DEF State
<1>4. /\ SameButReconnection(s, r) /\ r.down = s.down /\ r.reconnectionTimer
      /\ r.redo = s.redo /\ r.attempts = s.attempts
  BY DEF State, SameButReconnection, SameLists, SameTransport, SameAttempt,
         SameBuffering
<1> HIDE DEF r
<1>5. Driven(r) /\ (Attempted(s) => Attempted(r))
  BY <1>4 DEF Driven, Attempted
<1> QED
  BY <1>2, <1>3, <1>4, <1>5

(* reconnect, after a disconnection.                                       *)
LEMMA ReconnectStep ==
  ASSUME NEW s \in State, Sound(s), Ending(s), Waiting(s)
  PROVE  LET r == Reconnect(s) IN
         /\ r \in State /\ Good(r) /\ r.connected = s.connected
         /\ r.down = s.down
<1> DEFINE q == [s EXCEPT !.reconnecting = TRUE, !.attempts = 0,
                          !.tryMultiple = FALSE]
           r == SetReconnectionTimer(q)
<1>1. Reconnect(s) = r
  BY DEF Reconnect
<1>2. 0 \in 0 .. MaxAttempts + 1 /\ 0 <= MaxAttempts
  BY BoundsAssumption
<1>3. q \in State
  BY <1>2, Zenon DEF State
<1>4. SameButReconnection(s, q) /\ q.attempts = 0 /\ q.down = s.down
  BY DEF State, SameButReconnection, SameLists, SameTransport, SameAttempt,
         SameBuffering
<1> HIDE DEF q
<1>5. Sound(q) /\ Ending(q) /\ Waiting(q)
  BY <1>2, <1>3, <1>4, ButReconnection DEF Sound, Attempted
<1>6. /\ r \in State /\ SameButReconnection(q, r) /\ r.down = q.down
      /\ Attempted(q) => Attempted(r)
      /\ Driven(r)
  BY <1>3, SetReconnectionTimerStep
<1> HIDE DEF r
<1>7. Good(r)
  BY <1>3, <1>5, <1>6, ButReconnection DEF Good, Sound
<1> QED
  BY <1>1, <1>4, <1>6, <1>7 DEF SameButReconnection, SameBuffering

(* The end of a reconnection.  The name of the transport is not missed     *)
(* unless the transports are used up.                                      *)
LEMMA ResetStep ==
  ASSUME NEW s \in State, Sound(s), Ending(s), Waiting(s)
  PROVE  LET r == Reset(s) IN
         /\ r \in State /\ Good(r) /\ r.connected = s.connected
         /\ r.down = s.down
<1>1. CASE s.connected /\ s.transport = NoTransport
  <2>1. Driven(s)
    BY <1>1 DEF Sound, Chosen, HasTransport, Driven
  <2> DEFINE r == Threw(s)
  <2>2. r \in State /\ Same(s, r)
    BY ThrewStep
  <2>3. r.down = s.down
    BY DEF Threw, State
  <2> HIDE DEF r
  <2>4. Good(r)
    BY <2>1, <2>2, SameIsGood DEF Good
  <2> QED
    BY <1>1, <2>2, <2>3, <2>4 DEF Reset, r, Same, SameBuffering
<1>2. CASE ~(s.connected /\ s.transport = NoTransport)
  <2> DEFINE r == [s EXCEPT !.reconnecting = FALSE, !.attempts = 0,
                            !.redo = FALSE, !.reconnectionTimer = FALSE,
                            !.tryMultiple = TRUE]
  <2>1. Reset(s) = r
    BY <1>2 DEF Reset
  <2>2. 0 \in 0 .. MaxAttempts + 1 /\ 0 <= MaxAttempts
    BY BoundsAssumption
  <2>3. r \in State
    BY <2>2, Zenon DEF State
  <2>4. /\ SameButReconnection(s, r) /\ r.down = s.down
        /\ ~r.reconnecting /\ r.attempts = 0
    BY DEF State, SameButReconnection, SameLists, SameTransport, SameAttempt,
           SameBuffering
  <2> HIDE DEF r
  <2>5. Good(r)
    BY <2>2, <2>3, <2>4, ButReconnection DEF Good, Sound, Attempted, Driven
  <2> QED
    BY <2>1, <2>3, <2>4, <2>5 DEF SameButReconnection, SameBuffering
<1> QED
  BY <1>1, <1>2

(* The last attempt.                                                       *)
LEMMA RedoTransportsStep ==
  ASSUME NEW s \in State, Sound(s), ~s.redo, ~s.connecting, ~s.connected
  PROVE  LET r == RedoTransports(s) IN
         /\ r \in State /\ Good(r) /\ r.connected = s.connected
         /\ r.down = s.down
<1> DEFINE count == s.attempts + 1
           t == IF s.transports = "empty" THEN NoTransport ELSE Unopened
           q == [s EXCEPT !.redo = TRUE, !.tryMultiple = TRUE,
                          !.attempts = count, !.transport = t]
           r == Connect(q)
<1>1. count \in 0 .. MaxAttempts + 1
  BY BoundsAssumption DEF State, Sound, Attempted
<1>2. t \in WebSocket \cup {NoTransport, Unopened} /\ t \notin WebSocket
  BY BoundsAssumption DEF WebSocket, NoTransport, Unopened
<1>3. [s EXCEPT !.redo = TRUE, !.tryMultiple = TRUE, !.attempts = @ + 1,
                !.transport = IF s.transports = "empty"
                              THEN NoTransport ELSE Unopened] = q
  <2> HIDE DEF t
  <2> QED
    BY DEF State, t
<1>4. RedoTransports(s) = r
  <2> HIDE DEF q
  <2> QED
    BY <1>3 DEF RedoTransports
<1>5. t = NoTransport => s.transports = "empty"
  BY DEF NoTransport, Unopened
<1> HIDE DEF count, t
<1>6. q \in State
  BY <1>1, <1>2, Zenon DEF State
<1>7. /\ SameLists(s, q) /\ q.redo /\ q.transport = t
      /\ q.transports = s.transports /\ q.connected = s.connected
      /\ q.connecting = s.connecting /\ q.down = s.down
  BY DEF State, SameLists
<1> HIDE DEF q
<1>8. Sound(q) /\ Driven(q) /\ Waiting(q)
  <2>1. Attempted(q) /\ Driven(q)
    BY <1>7 DEF Attempted, Driven
  <2>2. Chosen(q)
    BY <1>5, <1>7 DEF Chosen, HasTransport
  <2>3. Ordered(q)
    BY <1>7 DEF Sound, Ordered, SameLists
  <2>4. Waiting(q)
    BY <1>7 DEF Waiting
  <2> QED
    BY <2>1, <2>2, <2>3, <2>4 DEF Sound
<1>9. r \in State /\ Good(r) /\ r.connected = q.connected /\ r.down = q.down
  BY <1>6, <1>7, <1>8, ConnectStep DEF Good
<1> QED
  BY <1>4, <1>7, <1>9

(* A reconnection goes on, with a timer, or is at its last attempt, or     *)
(* ends.                                                                   *)
LEMMA MaybeReconnectStep ==
  ASSUME NEW s \in State, Sound(s), Ending(s), Waiting(s)
  PROVE  LET r == MaybeReconnect(s) IN
         /\ r \in State /\ Good(r) /\ r.connected = s.connected
         /\ r.down = s.down
<1> DEFINE r == MaybeReconnect(s)
<1>1. CASE ~s.reconnecting
  <2>1. MaybeReconnect(s) = s
    BY <1>1 DEF MaybeReconnect
  <2>2. Good(s)
    BY <1>1 DEF Good, Driven
  <2> QED
    BY <2>1, <2>2
<1>2. CASE s.reconnecting /\ s.connected
  <2>1. MaybeReconnect(s) = Reset(s)
    BY <1>2 DEF MaybeReconnect
  <2> QED
    BY <2>1, ResetStep
<1>3. CASE s.reconnecting /\ ~s.connected /\ s.connecting
  <2> DEFINE q == SetReconnectionTimer(s)
  <2>1. MaybeReconnect(s) = q
    BY <1>3 DEF MaybeReconnect
  <2>2. /\ q \in State /\ SameButReconnection(s, q) /\ q.down = s.down
        /\ Attempted(s) => Attempted(q)
        /\ Driven(q)
    BY SetReconnectionTimerStep
  <2> HIDE DEF q
  <2>3. Good(q)
    BY <2>2, ButReconnection DEF Good, Sound
  <2> QED
    BY <2>1, <2>2, <2>3 DEF SameButReconnection, SameBuffering
<1>4. CASE /\ s.reconnecting /\ ~s.connected /\ ~s.connecting
           /\ s.attempts < MaxAttempts
  <2> DEFINE count == s.attempts + 1
             again == [s EXCEPT !.attempts = count]
             called == Connect(again)
             q == SetReconnectionTimer(called)
  <2>1. MaybeReconnect(s) = q
    <3>1. [s EXCEPT !.attempts = @ + 1] = again
      BY DEF State
    <3> HIDE DEF again
    <3> QED
      BY <1>4, <3>1 DEF MaybeReconnect
  <2>2. count \in 0 .. MaxAttempts + 1 /\ count <= MaxAttempts
    BY <1>4, BoundsAssumption DEF State
  <2> HIDE DEF count
  <2>3. again \in State
    BY <2>2, Zenon DEF State
  <2>4. SameButReconnection(s, again) /\ again.attempts = count
        /\ again.down = s.down
    BY DEF State, SameButReconnection, SameLists, SameTransport, SameAttempt,
           SameBuffering
  <2> HIDE DEF again
  <2>5. Sound(again) /\ Ending(again) /\ Waiting(again)
    BY <2>2, <2>3, <2>4, ButReconnection DEF Sound, Attempted
  <2>6. /\ called \in State /\ called.connected = again.connected
        /\ called.down = again.down
        /\ Sound(called) /\ Ending(called) /\ Waiting(called)
    BY <2>3, <2>5, ConnectStep
  <2> HIDE DEF called
  <2>7. /\ q \in State /\ SameButReconnection(called, q) /\ q.down = called.down
        /\ Attempted(called) => Attempted(q)
        /\ Driven(q)
    BY <2>6, SetReconnectionTimerStep
  <2> HIDE DEF q
  <2>8. Good(q)
    BY <2>6, <2>7, ButReconnection DEF Good, Sound
  <2> QED
    BY <2>1, <2>4, <2>6, <2>7, <2>8 DEF SameButReconnection, SameBuffering
<1>5. CASE /\ s.reconnecting /\ ~s.connected /\ ~s.connecting
           /\ ~(s.attempts < MaxAttempts) /\ s.redo
  <2>1. MaybeReconnect(s) = Reset(s)
    BY <1>5 DEF MaybeReconnect
  <2> QED
    BY <2>1, ResetStep
<1>6. CASE /\ s.reconnecting /\ ~s.connected /\ ~s.connecting
           /\ ~(s.attempts < MaxAttempts) /\ ~s.redo
  <2>1. MaybeReconnect(s) = RedoTransports(s)
    BY <1>6 DEF MaybeReconnect
  <2> QED
    BY <1>6, <2>1, RedoTransportsStep
<1> QED
  BY <1>1, <1>2, <1>3, <1>4, <1>5, <1>6

(* connect_failed is for the last attempt only.                            *)
LEMMA ConnectFailedStep ==
  ASSUME NEW s \in State, Good(s)
  PROVE  ConnectFailed(s) \in State /\ Good(ConnectFailed(s))
<1>1. CASE s.redo
  BY <1>1, MaybeReconnectStep DEF ConnectFailed, Good
<1>2. CASE ~s.redo
  BY <1>2 DEF ConnectFailed
<1> QED
  BY <1>1, <1>2

(***************************************************************************)
(* Socket: connection and disconnection.                                   *)
(***************************************************************************)

(* Once the lists are in order, a change of the lists leaves the rest.     *)
LEMMA ButLists ==
  ASSUME NEW s \in State, NEW r \in State, SameButLists(s, r), Ordered(r)
  PROVE  /\ Sound(s) => Sound(r)
         /\ Driven(s) => Driven(r)
         /\ Ending(s) => Ending(r)
<1>1. Sound(s) => Sound(r)
  BY DEF SameButLists, SameReconnection, SameTransport, Sound, Attempted,
         Chosen, HasTransport
<1>2. Driven(s) => Driven(r)
  BY DEF SameButLists, SameReconnection, SameTransport, Driven
<1>3. Ending(s) => Ending(r)
  BY DEF SameButLists, SameAttempt, SameTransport, Ending
<1> QED
  BY <1>1, <1>2, <1>3

(* onDisconnect ends an attempt or a connection, and may reconnect.        *)
LEMMA OnDisconnectStep ==
  ASSUME NEW s \in State, NEW booted \in BOOLEAN, Sound(s), Driven(s)
  PROVE  LET r == OnDisconnect(s, booted) IN r \in State /\ Good(r)
<1> DEFINE off == [s EXCEPT !.connected = FALSE, !.connecting = FALSE,
                            !.open = FALSE]
           shut == CloseWebSocket(off, s.transport)
           closed == ClearTimeouts(shut, s.transport)
<1>1. off \in State
  BY Zenon DEF State
<1>2. /\ SameLists(s, off) /\ SameReconnection(s, off) /\ SameTransport(s, off)
      /\ off.ws = s.ws /\ ~off.connected /\ ~off.connecting
  BY DEF State, SameLists, SameReconnection, SameTransport
<1>3. OnDisconnect(s, booted) =
        IF ~s.connected /\ ~s.connecting THEN off
        ELSE IF s.transport \notin WebSocket THEN Threw(off)
        ELSE IF s.connected /\ ~booted /\ ~s.reconnecting THEN Reconnect(closed)
        ELSE closed
  BY DEF OnDisconnect
<1> HIDE DEF off
<1>4. Good(off)
  <2>1. Attempted(off) /\ Driven(off)
    BY <1>2 DEF Sound, Attempted, Driven, SameReconnection, SameTransport
  <2>2. Chosen(off)
    BY <1>2 DEF Sound, Chosen, HasTransport, SameTransport
  <2>3. Ordered(off)
    BY <1>2 DEF Sound, Ordered, SameLists
  <2>4. Ending(off) /\ Waiting(off)
    BY <1>2 DEF Ending, Waiting
  <2> QED
    BY <2>1, <2>2, <2>3, <2>4 DEF Good, Sound
<1>5. Threw(off) \in State /\ Good(Threw(off))
  <2> DEFINE r == Threw(off)
  <2>1. r \in State /\ Same(off, r)
    BY <1>1, ThrewStep
  <2> HIDE DEF r
  <2>2. Good(r)
    BY <1>1, <1>4, <2>1, SameIsGood DEF Good
  <2> QED
    BY <2>1, <2>2 DEF r
<1>6. ASSUME s.transport \in WebSocket
      PROVE  closed \in State /\ Good(closed)
  <2>1. shut \in State /\ Same(off, shut)
    BY <1>1, <1>6, CloseWebSocketStep
  <2> HIDE DEF shut
  <2>2. Good(shut)
    BY <1>1, <1>4, <2>1, SameIsGood DEF Good
  <2>3. closed \in State /\ Same(shut, closed)
    BY <1>6, <2>1, ClearTimeoutsStep
  <2> HIDE DEF closed
  <2>4. Good(closed)
    BY <2>1, <2>2, <2>3, SameIsGood DEF Good
  <2> QED
    BY <2>3, <2>4
<1> HIDE DEF closed
<1>7. ASSUME s.transport \in WebSocket
      PROVE  Reconnect(closed) \in State /\ Good(Reconnect(closed))
  BY <1>6, <1>7, ReconnectStep DEF Good
<1> QED
  BY <1>1, <1>3, <1>4, <1>5, <1>6, <1>7

(* Transport.onDisconnect.                                                 *)
LEMMA TransportOnDisconnectStep ==
  ASSUME NEW s \in State, NEW w \in WebSocket, Sound(s), Driven(s)
  PROVE  LET r == TransportOnDisconnect(s, w) IN r \in State /\ Good(r)
<1> DEFINE shut == IF s.isOpen[w] THEN CloseWebSocket(s, w) ELSE s
           cleared == ClearTimeouts(shut, w)
<1>1. shut \in State /\ Sound(shut) /\ Driven(shut)
  <2>1. CASE s.isOpen[w]
    <3> DEFINE r == CloseWebSocket(s, w)
    <3>1. r \in State /\ Same(s, r)
      BY CloseWebSocketStep
    <3> HIDE DEF r
    <3>2. Sound(r) /\ Driven(r)
      BY <3>1, SameIsGood
    <3> QED
      BY <2>1, <3>1, <3>2 DEF r
  <2>2. CASE ~s.isOpen[w]
    BY <2>2
  <2> QED
    BY <2>1, <2>2
<1>2. TransportOnDisconnect(s, w) = OnDisconnect(cleared, FALSE)
  BY DEF TransportOnDisconnect
<1> HIDE DEF shut
<1>3. cleared \in State /\ Same(shut, cleared)
  BY <1>1, ClearTimeoutsStep
<1> HIDE DEF cleared
<1>4. Sound(cleared) /\ Driven(cleared)
  BY <1>1, <1>3, SameIsGood
<1> QED
  BY <1>2, <1>3, <1>4, OnDisconnectStep

(* Transport.onClose, and Socket.onClose.                                  *)
LEMMA OnCloseStep ==
  ASSUME NEW s \in State, NEW w \in WebSocket, Sound(s), Driven(s)
  PROVE  LET r == OnClose(s, w) IN r \in State /\ Good(r)
<1> DEFINE isOpen == [s.isOpen EXCEPT ![w] = FALSE]
           q == [s EXCEPT !.isOpen = isOpen, !.open = FALSE,
                          !.heartbeatTimer = FALSE]
<1>1. isOpen \in [WebSocket -> BOOLEAN]
  BY DEF State
<1>2. [s EXCEPT !.isOpen[w] = FALSE, !.open = FALSE, !.heartbeatTimer = FALSE] = q
  BY DEF State
<1>3. OnClose(s, w) = TransportOnDisconnect(q, w)
  <2> HIDE DEF q
  <2> QED
    BY <1>2 DEF OnClose
<1> HIDE DEF isOpen
<1>4. q \in State
  BY <1>1, Zenon DEF State
<1>5. Same(s, q)
  BY DEF State, Same, SameLists, SameReconnection, SameTransport, SameAttempt,
         SameBuffering, Closes
<1> HIDE DEF q
<1>6. Sound(q) /\ Driven(q)
  BY <1>4, <1>5, SameIsGood
<1> QED
  BY <1>3, <1>4, <1>6, TransportOnDisconnectStep

(* The listener that clears a connect timeout, of a connected socket.      *)
LEMMA ClearedStep ==
  ASSUME NEW s \in State, s.connected, NEW timer \in WebSocket \cup {0}
  PROVE  LET r == [s EXCEPT !.connectTimers = @ \ {timer}, !.onceFirst = FALSE] IN
         /\ r \in State /\ r.connected
         /\ Sound(s) => Sound(r)
         /\ Driven(s) => Driven(r)
         /\ Ending(r)
         /\ Waiting(s) => Waiting(r)
<1> DEFINE timers == s.connectTimers \ {timer}
           r == [s EXCEPT !.connectTimers = timers, !.onceFirst = FALSE]
<1>1. timers \in SUBSET WebSocket
  BY DEF State
<1>2. [s EXCEPT !.connectTimers = @ \ {timer}, !.onceFirst = FALSE] = r
  BY DEF State
<1> HIDE DEF timers
<1>3. r \in State
  BY <1>1, Zenon DEF State
<1>4. /\ SameLists(s, r) /\ SameReconnection(s, r) /\ SameTransport(s, r)
      /\ SameBuffering(s, r) /\ r.ws = s.ws
  BY DEF State, SameLists, SameReconnection, SameTransport, SameBuffering
<1> HIDE DEF r
<1>5. Sound(s) => Sound(r)
  BY <1>4 DEF Sound, Attempted, Chosen, HasTransport, Ordered, SameLists,
              SameReconnection, SameTransport, SameBuffering
<1>6. Driven(s) => Driven(r)
  BY <1>4 DEF Driven, SameReconnection, SameTransport
<1>7. r.connected /\ Ending(r)
  BY <1>4 DEF Ending, SameBuffering
<1>8. Waiting(s) => Waiting(r)
  BY <1>4 DEF Waiting, Takes, SameLists, SameTransport, SameBuffering
<1> QED
  BY <1>2, <1>3, <1>5, <1>6, <1>7, <1>8

(* onConnect, of a socket that has a transport.                            *)
LEMMA OnConnectStep ==
  ASSUME NEW s \in State, Good(s), HasTransport(s)
  PROVE  LET r == OnConnect(s) IN r \in State /\ Good(r)
<1> DEFINE on == [s EXCEPT !.connected = TRUE, !.connecting = FALSE]
           flushed == IF s.doBuffer THEN on ELSE SetBuffer(on, FALSE)
           cleared(t) == [t EXCEPT !.connectTimers = @ \ {s.connectTimer},
                                   !.onceFirst = FALSE]
           reset == MaybeReconnect(flushed)
<1>1. on \in State
  BY Zenon DEF State
<1>2. /\ SameLists(s, on) /\ SameReconnection(s, on) /\ SameTransport(s, on)
      /\ on.ws = s.ws /\ on.connected /\ ~on.connecting
      /\ on.doBuffer = s.doBuffer
  BY DEF State, SameLists, SameReconnection, SameTransport
<1>3. OnConnect(s) = IF s.connected THEN s
                     ELSE IF flushed.threw THEN flushed
                     ELSE IF s.onceFirst THEN MaybeReconnect(cleared(flushed))
                     ELSE IF reset.threw THEN reset
                     ELSE cleared(reset)
  BY DEF OnConnect
<1> HIDE DEF on
<1>4. Sound(on) /\ Driven(on) /\ Ending(on)
  <2>1. Attempted(on) /\ Driven(on)
    BY <1>2 DEF Good, Sound, Attempted, Driven, SameReconnection, SameTransport
  <2>2. Chosen(on)
    BY <1>2 DEF Chosen, HasTransport, SameTransport
  <2>3. Ordered(on)
    BY <1>2 DEF Good, Sound, Ordered, SameLists
  <2>4. Ending(on)
    BY <1>2 DEF Ending
  <2> QED
    BY <2>1, <2>2, <2>3, <2>4 DEF Sound
<1>5. flushed \in State /\ Good(flushed) /\ flushed.connected
  <2>1. CASE s.doBuffer
    <3>1. Waiting(on)
      BY <1>2, <2>1 DEF Waiting
    <3> QED
      BY <1>1, <1>2, <1>4, <2>1, <3>1 DEF Good
  <2>2. CASE ~s.doBuffer
    <3> DEFINE r == SetBuffer(on, FALSE)
    <3>1. r \in State /\ SameButLists(on, r) /\ Ordered(r) /\ Waiting(r)
      BY <1>1, <1>4, SetBufferStep DEF Sound
    <3> HIDE DEF r
    <3>2. Good(r)
      BY <1>1, <1>4, <3>1, ButLists DEF Good
    <3>3. r.connected
      BY <1>2, <3>1 DEF SameButLists
    <3> QED
      BY <2>2, <3>1, <3>2, <3>3 DEF r
  <2> QED
    BY <2>1, <2>2
<1> HIDE DEF flushed
<1>6. s.connectTimer \in WebSocket \cup {0}
  BY DEF State
<1>7. reset \in State /\ Good(reset) /\ reset.connected
  BY <1>5, MaybeReconnectStep DEF Good
<1> HIDE DEF reset
<1>8. cleared(reset) \in State /\ Good(cleared(reset))
  BY <1>6, <1>7, ClearedStep DEF Good
<1>9. cleared(flushed) \in State /\ Good(cleared(flushed))
  BY <1>5, <1>6, ClearedStep DEF Good
<1> HIDE DEF cleared
<1>10. /\ MaybeReconnect(cleared(flushed)) \in State
       /\ Good(MaybeReconnect(cleared(flushed)))
  BY <1>9, MaybeReconnectStep DEF Good
<1> QED
  BY <1>3, <1>5, <1>7, <1>8, <1>10

(* The inner connect: a new WebSocket, or no transport is left.            *)
LEMMA ConnectTransportStep ==
  ASSUME NEW s \in State, Sound(s), Driven(s), Waiting(s),
         s.transports = "empty" \/ \E w \in WebSocket : s.ws[w] = "new"
  PROVE  LET r == ConnectTransport(s) IN r \in State /\ Good(r)
<1> DEFINE clear == IF s.transport \in WebSocket
                    THEN ClearTimeouts(s, s.transport) ELSE s
           w == CHOOSE v \in WebSocket : s.ws[v] = "new"
           none == [clear EXCEPT !.transport = NoTransport]
           opened == [clear EXCEPT
             !.transport = w, !.connecting = TRUE, !.ws[w] = "connecting",
             !.connectTimers = @ \cup {w}, !.connectTimer = w]
<1>1. ConnectTransport(s) =
        IF s.transports = "empty" THEN ConnectFailed(none) ELSE opened
  BY DEF ConnectTransport
<1>2. clear \in State /\ Sound(clear) /\ Driven(clear) /\ Same(s, clear)
  <2>1. CASE s.transport \in WebSocket
    <3> DEFINE r == ClearTimeouts(s, s.transport)
    <3>1. r \in State /\ Same(s, r)
      BY <2>1, ClearTimeoutsStep
    <3> HIDE DEF r
    <3>2. Sound(r) /\ Driven(r)
      BY <3>1, SameIsGood
    <3> QED
      BY <2>1, <3>1, <3>2 DEF r
  <2>2. CASE s.transport \notin WebSocket
    BY <2>2 DEF Same, SameLists, SameReconnection, SameTransport, SameAttempt,
                SameBuffering, Closes
  <2> QED
    BY <2>1, <2>2
<1>3. clear.transports = s.transports
  BY <1>2 DEF Same, SameTransport
<1>4. NoTransport \notin WebSocket
  BY BoundsAssumption DEF WebSocket, NoTransport
<1> HIDE DEF clear
<1>5. CASE s.transports = "empty"
  <2>1. none \in State
    BY <1>2, Zenon DEF State
  <2>2. /\ SameLists(clear, none) /\ SameReconnection(clear, none)
        /\ none.transports = "empty" /\ none.transport = NoTransport
    BY <1>2, <1>3, <1>5 DEF State, SameLists, SameReconnection
  <2> HIDE DEF none
  <2>3. Good(none)
    <3>1. Attempted(none) /\ Driven(none)
      BY <1>2, <2>2 DEF Sound, Attempted, Driven, SameReconnection
    <3>2. Chosen(none) /\ Ending(none)
      BY <2>2 DEF Chosen, HasTransport, Ending
    <3>3. Ordered(none)
      BY <1>2, <2>2 DEF Sound, Ordered, SameLists
    <3>4. Waiting(none)
      BY <1>4, <2>2 DEF Waiting, Takes
    <3> QED
      BY <3>1, <3>2, <3>3, <3>4 DEF Good, Sound
  <2> QED
    BY <1>1, <1>5, <2>1, <2>3, ConnectFailedStep
<1>6. CASE s.transports # "empty"
  <2>1. w \in WebSocket
    BY <1>6
  <2> HIDE DEF w
  <2> DEFINE ws == [clear.ws EXCEPT ![w] = "connecting"]
             timers == clear.connectTimers \cup {w}
             r == [clear EXCEPT
                     !.transport = w, !.connecting = TRUE, !.ws = ws,
                     !.connectTimers = timers, !.connectTimer = w]
  <2>2. ws \in [WebSocket -> Status] /\ ws[w] = "connecting"
    BY <1>2, <2>1 DEF State, Status
  <2>3. timers \in SUBSET WebSocket /\ timers # {}
    BY <1>2, <2>1 DEF State
  <2>4. opened = r
    BY <1>2 DEF State
  <2> HIDE DEF ws, timers, opened
  <2>5. /\ w \in WebSocket \cup {NoTransport, Unopened}
        /\ w \in WebSocket \cup {0} /\ w # NoTransport
    BY <1>4, <2>1
  <2>6. r \in State
    BY <1>2, <2>2, <2>3, <2>5, Zenon DEF State
  <2>7. /\ SameLists(clear, r) /\ SameReconnection(clear, r)
        /\ r.transports = clear.transports /\ r.transport = w
        /\ r.ws = ws /\ r.connectTimers = timers
    BY <1>2 DEF State, SameLists, SameReconnection
  <2> HIDE DEF r
  <2>8. Good(r)
    <3>1. Attempted(r) /\ Driven(r)
      BY <1>2, <2>7 DEF Sound, Attempted, Driven, SameReconnection
    <3>2. Chosen(r) /\ Ending(r)
      BY <2>3, <2>5, <2>7 DEF Chosen, HasTransport, Ending
    <3>3. Ordered(r)
      BY <1>2, <2>7 DEF Sound, Ordered, SameLists
    <3>4. Waiting(r)
      BY <2>2, <2>7 DEF Waiting, Takes
    <3> QED
      BY <3>1, <3>2, <3>3, <3>4 DEF Good, Sound
  <2> QED
    BY <1>1, <1>6, <2>4, <2>6, <2>8
<1> QED
  BY <1>5, <1>6

(***************************************************************************)
(* The events: each leaves a state in which all parts hold.                *)
(***************************************************************************)

(* Between events, the bounds hold as well.                                *)
LEMMA BecomesStep ==
  ASSUME NEW s \in State, Good(s), Becomes(s)
  PROVE  IInv'
<1> DEFINE r == [s EXCEPT !.threw = FALSE]
<1>1. sock' = r /\ s.requests <= MaxRequests /\ s.strays <= MaxStrays
  BY DEF Becomes
<1>2. r \in State
  BY Zenon DEF State
<1>3. Same(s, r) /\ r.requests = s.requests /\ r.strays = s.strays
  BY DEF State, Same, SameLists, SameReconnection, SameTransport, SameAttempt,
         SameBuffering, Closes
<1> HIDE DEF r
<1>4. Good(r)
  BY <1>2, <1>3, SameIsGood DEF Good
<1>5. r.requests \in 0 .. MaxRequests /\ r.strays \in 0 .. MaxStrays
  <2>1. s.requests \in Nat /\ s.strays \in Nat
    BY DEF State
  <2> QED
    BY <1>1, <1>3, <2>1, BoundsAssumption
<1>6. TypeOK'
  BY <1>1, <1>2, <1>5 DEF TypeOK, State, Packets, Status
<1> QED
  BY <1>1, <1>4, <1>6 DEF IInv

(* Between events, a socket is in a state of the kind the lemmas are about.*)
LEMMA IsState == IInv => sock \in State /\ Good(sock)
<1> SUFFICES ASSUME IInv
             PROVE  sock \in State /\ Good(sock)
  OBVIOUS
<1>1. sock.requests \in Nat /\ sock.strays \in Nat
  BY DEF IInv, TypeOK
<1>2. sock \in State
  BY <1>1 DEF IInv, TypeOK, State, Packets, Status
<1> QED
  BY <1>2 DEF IInv

(* The history of a disconnection is not among the parts.                  *)
LEMMA DownStep ==
  ASSUME NEW s \in State, NEW v \in BOOLEAN
  PROVE  LET r == [s EXCEPT !.down = v] IN
         /\ r \in State
         /\ Sound(s) => Sound(r)
         /\ Driven(s) => Driven(r)
         /\ Good(s) => Good(r)
<1> DEFINE r == [s EXCEPT !.down = v]
<1>1. r \in State
  BY Zenon DEF State
<1>2. Same(s, r)
  BY DEF State, Same, SameLists, SameReconnection, SameTransport, SameAttempt,
         SameBuffering, Closes
<1> HIDE DEF r
<1>3. /\ Sound(s) => Sound(r)
      /\ Driven(s) => Driven(r)
      /\ Good(s) => Good(r)
  BY <1>1, <1>2, SameIsGood DEF Good
<1> QED
  BY <1>1, <1>3 DEF r

(* connect() of the application.                                           *)
LEMMA UserConnectStep == IInv /\ UserConnect => IInv'
<1> SUFFICES ASSUME IInv, UserConnect
             PROVE  IInv'
  OBVIOUS
<1> DEFINE called == Connect(sock)
           r == [called EXCEPT !.down = FALSE]
<1>1. sock \in State /\ Good(sock)
  BY IsState
<1>2. called \in State /\ Good(called)
  BY <1>1, ConnectStep DEF Good
<1>3. Becomes(r)
  BY DEF UserConnect
<1> HIDE DEF called
<1>4. r \in State /\ Good(r)
  BY <1>2, DownStep
<1> HIDE DEF r
<1> QED
  BY <1>3, <1>4, BecomesStep

(* The application emits the next message.                                 *)
LEMMA UserEmitStep == IInv /\ UserEmit => IInv'
<1> SUFFICES ASSUME IInv, UserEmit
             PROVE  IInv'
  OBVIOUS
<1> DEFINE p == sock.emitted + 1
           q == [sock EXCEPT !.emitted = p]
           r == Packet(q, p)
<1>1. sock \in State /\ Good(sock)
  BY IsState
<1>2. /\ p \in 0 .. MaxEmits /\ sock.emitted \in Nat /\ p \in Nat
      /\ sock.emitted < p
  BY <1>1, BoundsAssumption DEF State, UserEmit
<1>3. Becomes(r)
  BY DEF UserEmit
<1> HIDE DEF p
<1>4. q \in State
  BY <1>1, <1>2, Zenon DEF State
<1>5. /\ q.sent = sock.sent /\ q.buffer = sock.buffer /\ q.emitted = p
      /\ SameReconnection(sock, q) /\ SameTransport(sock, q)
      /\ SameAttempt(sock, q) /\ SameBuffering(sock, q) /\ q.ws = sock.ws
  BY <1>1 DEF State, SameReconnection, SameTransport, SameAttempt, SameBuffering
<1> HIDE DEF q
<1>6. /\ \A i \in DOMAIN sock.sent : sock.sent[i] \in Nat /\ sock.sent[i] < p
      /\ \A j \in DOMAIN sock.buffer :
           sock.buffer[j] \in Nat /\ sock.buffer[j] < p
  <2>1. /\ \A i \in DOMAIN sock.sent : sock.sent[i] \in 1 .. MaxEmits
        /\ \A j \in DOMAIN sock.buffer : sock.buffer[j] \in 0 .. MaxEmits
    <3>1. sock.sent \in Seq(1 .. MaxEmits) /\ sock.buffer \in Seq(0 .. MaxEmits)
      BY <1>1 DEF State, Packets
    <3>2. /\ DOMAIN sock.sent = 1 .. Len(sock.sent)
          /\ DOMAIN sock.buffer = 1 .. Len(sock.buffer)
      BY <3>1, LenProperties
    <3>3. \A i \in DOMAIN sock.sent : sock.sent[i] \in 1 .. MaxEmits
      BY <3>1, <3>2, ElementOfSeq
    <3>4. \A j \in DOMAIN sock.buffer : sock.buffer[j] \in 0 .. MaxEmits
      BY <3>1, <3>2, ElementOfSeq
    <3> QED
      BY <3>3, <3>4
  <2>2. /\ \A i \in DOMAIN sock.sent : sock.sent[i] <= sock.emitted
        /\ \A j \in DOMAIN sock.buffer : sock.buffer[j] <= sock.emitted
    BY <1>1 DEF Good, Sound, Ordered
  <2> QED
    BY <1>2, <2>1, <2>2, BoundsAssumption
<1>7. Follows(q, p)
  BY <1>2, <1>5, <1>6 DEF Follows
<1>8. Ordered(q)
  <2>1. /\ \A i \in DOMAIN sock.sent : sock.sent[i] <= p
        /\ \A j \in DOMAIN sock.buffer : sock.buffer[j] <= p
    BY <1>2, <1>6
  <2> QED
    BY <1>1, <1>5, <2>1 DEF Good, Sound, Ordered
<1>9. Sound(q) /\ Driven(q) /\ Ending(q) /\ Waiting(q)
  <2>1. Attempted(q) /\ Driven(q) /\ Chosen(q)
    BY <1>1, <1>5 DEF Good, Sound, Attempted, Driven, Chosen, HasTransport,
                      SameReconnection, SameTransport, SameBuffering
  <2>2. Ending(q) /\ Waiting(q)
    BY <1>1, <1>5 DEF Good, Ending, Waiting, Takes, SameAttempt, SameTransport,
                      SameBuffering
  <2> QED
    BY <1>8, <2>1, <2>2 DEF Sound
<1>10. r \in State /\ SameButLists(q, r) /\ Ordered(r) /\ Waiting(r)
  BY <1>2, <1>4, <1>7, <1>8, <1>9, PacketStep
<1> HIDE DEF r
<1>11. Good(r)
  BY <1>4, <1>9, <1>10, ButLists DEF Good
<1> QED
  BY <1>3, <1>10, <1>11, BecomesStep

(* disconnect() of the application.                                        *)
LEMMA UserDisconnectStep == IInv /\ UserDisconnect => IInv'
<1> SUFFICES ASSUME IInv, UserDisconnect
             PROVE  IInv'
  OBVIOUS
<1> DEFINE told == IF sock.open THEN Packet(sock, DisconnectPacket) ELSE sock
           down == [told EXCEPT !.down = sock.connected]
           r == OnDisconnect(down, TRUE)
<1>1. sock \in State /\ Good(sock)
  BY IsState
<1>2. Becomes(IF told.threw THEN down ELSE r)
  BY DEF UserDisconnect
<1>3. told \in State /\ Good(told)
  <2>1. CASE sock.open
    <3> DEFINE q == Packet(sock, DisconnectPacket)
    <3>1. DisconnectPacket \in 0 .. MaxEmits /\ Follows(sock, DisconnectPacket)
      BY BoundsAssumption DEF DisconnectPacket, Follows
    <3>2. q \in State /\ SameButLists(sock, q) /\ Ordered(q) /\ Waiting(q)
      BY <1>1, <3>1, PacketStep DEF Good, Sound
    <3> HIDE DEF q
    <3>3. Good(q)
      BY <1>1, <3>2, ButLists DEF Good
    <3> QED
      BY <2>1, <3>2, <3>3 DEF q
  <2>2. CASE ~sock.open
    BY <1>1, <2>2
  <2> QED
    BY <2>1, <2>2
<1> HIDE DEF told
<1>4. sock.connected \in BOOLEAN
  BY <1>1 DEF State
<1>5. down \in State /\ Good(down)
  BY <1>3, <1>4, DownStep
<1> HIDE DEF down
<1>6. r \in State /\ Good(r)
  BY <1>5, OnDisconnectStep DEF Good
<1> HIDE DEF r
<1> QED
  BY <1>2, <1>5, <1>6, BecomesStep

(* The unload of the page.                                                 *)
LEMMA DisconnectSyncStep == IInv /\ DisconnectSync => IInv'
<1> SUFFICES ASSUME IInv, DisconnectSync
             PROVE  IInv'
  OBVIOUS
<1> DEFINE down == [sock EXCEPT !.down = sock.connected]
           r == OnDisconnect(down, TRUE)
<1>1. sock \in State /\ Good(sock) /\ sock.connected \in BOOLEAN
  BY IsState DEF State
<1>2. Becomes(r)
  BY DEF DisconnectSync
<1>3. down \in State /\ Good(down)
  BY <1>1, DownStep
<1> HIDE DEF down
<1>4. r \in State /\ Good(r)
  BY <1>3, OnDisconnectStep DEF Good
<1> HIDE DEF r
<1> QED
  BY <1>2, <1>4, BecomesStep

(* A handshake that succeeds.                                              *)
LEMMA HandshakeDoneStep == IInv /\ HandshakeDone => IInv'
<1> SUFFICES ASSUME IInv, HandshakeDone
             PROVE  IInv'
  OBVIOUS
<1> DEFINE requests == sock.requests - 1
           first == sock.onceFirst \/ ~sock.reconnecting
           transports == IF sock.transports = "unset"
                         THEN "websocket" ELSE sock.transports
           done == [sock EXCEPT
                      !.requests = requests, !.heartbeatTimer = TRUE,
                      !.onceFirst = first, !.transports = transports]
           r == ConnectTransport(done)
<1>1. sock \in State /\ Good(sock)
  BY IsState
<1>2. Becomes(r)
  <2>1. [sock EXCEPT
          !.requests = @ - 1, !.heartbeatTimer = TRUE,
          !.onceFirst = @ \/ ~sock.reconnecting,
          !.transports = IF @ = "unset" THEN "websocket" ELSE @] = done
    BY <1>1 DEF State
  <2> HIDE DEF done
  <2> QED
    BY <2>1 DEF HandshakeDone
<1>3. /\ requests \in Nat /\ first \in BOOLEAN
      /\ transports \in {"unset", "websocket", "empty"}
  BY <1>1 DEF State, HandshakeDone
<1>4. /\ transports = "empty" <=> sock.transports = "empty"
      /\ transports = "empty" \/ \E w \in WebSocket : sock.ws[w] = "new"
  BY DEF HandshakeDone
<1> HIDE DEF requests, first, transports
<1>5. done \in State
  BY <1>1, <1>3, Zenon DEF State
<1>6. /\ SameLists(sock, done) /\ SameReconnection(sock, done)
      /\ SameBuffering(sock, done) /\ done.ws = sock.ws
      /\ done.transport = sock.transport /\ done.transports = transports
  BY <1>1 DEF State, SameLists, SameReconnection, SameBuffering
<1> HIDE DEF done
<1>7. Sound(done) /\ Driven(done) /\ Waiting(done)
  <2>1. Attempted(done) /\ Driven(done)
    BY <1>1, <1>4, <1>6 DEF Good, Sound, Attempted, Driven, SameReconnection
  <2>2. Chosen(done)
    BY <1>1, <1>4, <1>6 DEF Good, Sound, Chosen, HasTransport, SameBuffering
  <2>3. Ordered(done)
    BY <1>1, <1>6 DEF Good, Sound, Ordered, SameLists
  <2>4. Waiting(done)
    BY <1>1, <1>6 DEF Good, Waiting, Takes, SameLists, SameBuffering
  <2> QED
    BY <2>1, <2>2, <2>3, <2>4 DEF Sound
<1>8. r \in State /\ Good(r)
  BY <1>4, <1>5, <1>6, <1>7, ConnectTransportStep
<1> HIDE DEF r
<1> QED
  BY <1>2, <1>8, BecomesStep

(* A handshake that is refused, or fails.                                  *)
LEMMA HandshakeEndsStep == IInv /\ (HandshakeRefused \/ HandshakeFails) => IInv'
<1> SUFFICES ASSUME IInv, HandshakeRefused \/ HandshakeFails
             PROVE  IInv'
  OBVIOUS
<1> DEFINE requests == sock.requests - 1
           refused == [sock EXCEPT !.requests = requests, !.refused = TRUE]
           failed == [sock EXCEPT !.requests = requests, !.connecting = FALSE]
<1>1. sock \in State /\ Good(sock)
  BY IsState
<1>2. Becomes(refused) \/ Becomes(failed)
  <2>1. /\ [sock EXCEPT !.requests = @ - 1, !.refused = TRUE] = refused
        /\ [sock EXCEPT !.requests = @ - 1, !.connecting = FALSE] = failed
    BY <1>1 DEF State
  <2> HIDE DEF refused, failed
  <2> QED
    BY <2>1 DEF HandshakeRefused, HandshakeFails
<1>3. requests \in Nat
  BY <1>1 DEF State, HandshakeRefused, HandshakeFails
<1> HIDE DEF requests
<1>4. refused \in State /\ failed \in State
  BY <1>1, <1>3, Zenon DEF State
<1>5. /\ SameLists(sock, refused) /\ SameReconnection(sock, refused)
      /\ SameTransport(sock, refused) /\ SameBuffering(sock, refused)
      /\ refused.ws = sock.ws /\ refused.refused
  BY <1>1 DEF State, SameLists, SameReconnection, SameTransport, SameBuffering
<1>6. /\ SameLists(sock, failed) /\ SameReconnection(sock, failed)
      /\ SameTransport(sock, failed) /\ SameBuffering(sock, failed)
      /\ failed.ws = sock.ws /\ ~failed.connecting
  BY <1>1 DEF State, SameLists, SameReconnection, SameTransport, SameBuffering
<1> HIDE DEF refused, failed
<1>7. Good(refused)
  <2>1. Attempted(refused) /\ Driven(refused) /\ Chosen(refused)
    BY <1>1, <1>5 DEF Good, Sound, Attempted, Driven, Chosen, HasTransport,
                      SameReconnection, SameTransport, SameBuffering
  <2>2. Ordered(refused) /\ Ending(refused) /\ Waiting(refused)
    BY <1>1, <1>5 DEF Good, Sound, Ordered, Ending, Waiting, Takes, SameLists,
                      SameTransport, SameBuffering
  <2> QED
    BY <2>1, <2>2 DEF Good, Sound
<1>8. Good(failed)
  <2>1. Attempted(failed) /\ Driven(failed) /\ Chosen(failed)
    BY <1>1, <1>6 DEF Good, Sound, Attempted, Driven, Chosen, HasTransport,
                      SameReconnection, SameTransport, SameBuffering
  <2>2. Ordered(failed) /\ Ending(failed) /\ Waiting(failed)
    BY <1>1, <1>6 DEF Good, Sound, Ordered, Ending, Waiting, Takes, SameLists,
                      SameTransport, SameBuffering
  <2> QED
    BY <2>1, <2>2 DEF Good, Sound
<1> QED
  BY <1>2, <1>4, <1>7, <1>8, BecomesStep

(* A connect timeout, which may take the last transport.                   *)
LEMMA ConnectTimeoutStep ==
  ASSUME NEW w \in WebSocket, IInv, ConnectTimeout(w)
  PROVE  IInv'
<1> DEFINE timers == sock.connectTimers \ {w}
           fired == [sock EXCEPT !.connectTimers = timers]
           failed == [fired EXCEPT !.connecting = FALSE]
           empty == [failed EXCEPT !.transports = "empty"]
           r == ConnectFailed(empty)
<1>1. sock \in State /\ Good(sock)
  BY IsState
<1>2. /\ Becomes(IF sock.connected THEN fired
                 ELSE IF ~sock.tryMultiple THEN failed ELSE r)
      /\ timers \in SUBSET WebSocket
  <2>1. [sock EXCEPT !.connectTimers = @ \ {w}] = fired
    BY <1>1 DEF State
  <2>2. timers \in SUBSET WebSocket
    BY <1>1 DEF State
  <2> HIDE DEF fired
  <2> QED
    BY <2>1, <2>2 DEF ConnectTimeout
<1> HIDE DEF timers
<1>3. fired \in State
  BY <1>1, <1>2, Zenon DEF State
<1>4. /\ SameLists(sock, fired) /\ SameReconnection(sock, fired)
      /\ SameTransport(sock, fired) /\ SameBuffering(sock, fired)
      /\ fired.ws = sock.ws
  BY <1>1 DEF State, SameLists, SameReconnection, SameTransport, SameBuffering
<1> HIDE DEF fired
<1>5. Sound(fired) /\ Driven(fired) /\ Waiting(fired)
  <2>1. Attempted(fired) /\ Driven(fired) /\ Chosen(fired)
    BY <1>1, <1>4 DEF Good, Sound, Attempted, Driven, Chosen, HasTransport,
                      SameReconnection, SameTransport, SameBuffering
  <2>2. Ordered(fired) /\ Waiting(fired)
    BY <1>1, <1>4 DEF Good, Sound, Ordered, Waiting, Takes, SameLists,
                      SameTransport, SameBuffering
  <2> QED
    BY <2>1, <2>2 DEF Sound
<1>6. sock.connected => Ending(fired)
  BY <1>4 DEF Ending, SameBuffering
<1>7. failed \in State
  BY <1>3, Zenon DEF State
<1>8. /\ SameLists(fired, failed) /\ SameReconnection(fired, failed)
      /\ SameTransport(fired, failed) /\ SameBuffering(fired, failed)
      /\ failed.ws = fired.ws /\ ~failed.connecting
  BY <1>3 DEF State, SameLists, SameReconnection, SameTransport, SameBuffering
<1> HIDE DEF failed
<1>9. Good(failed)
  <2>1. Attempted(failed) /\ Driven(failed) /\ Chosen(failed)
    BY <1>5, <1>8 DEF Sound, Attempted, Driven, Chosen, HasTransport,
                      SameReconnection, SameTransport, SameBuffering
  <2>2. Ordered(failed) /\ Ending(failed) /\ Waiting(failed)
    BY <1>5, <1>8 DEF Sound, Ordered, Ending, Waiting, Takes, SameLists,
                      SameTransport, SameBuffering
  <2> QED
    BY <2>1, <2>2 DEF Good, Sound
<1>10. empty \in State
  BY <1>7, Zenon DEF State
<1>11. /\ SameLists(failed, empty) /\ SameReconnection(failed, empty)
       /\ SameBuffering(failed, empty) /\ empty.ws = failed.ws
       /\ empty.transport = failed.transport /\ empty.transports = "empty"
  BY <1>7 DEF State, SameLists, SameReconnection, SameBuffering
<1> HIDE DEF empty
<1>12. Good(empty)
  <2>1. Attempted(empty) /\ Driven(empty) /\ Chosen(empty) /\ Ending(empty)
    BY <1>9, <1>11 DEF Good, Sound, Attempted, Driven, Chosen, HasTransport,
                       Ending, SameReconnection
  <2>2. Ordered(empty) /\ Waiting(empty)
    BY <1>9, <1>11 DEF Good, Sound, Ordered, Waiting, Takes, SameLists,
                       SameBuffering
  <2> QED
    BY <2>1, <2>2 DEF Good, Sound
<1>13. r \in State /\ Good(r)
  BY <1>10, <1>12, ConnectFailedStep
<1> HIDE DEF r
<1>14. CASE sock.connected
  BY <1>2, <1>3, <1>5, <1>6, <1>14, BecomesStep DEF Good
<1>15. CASE ~sock.connected
  BY <1>2, <1>7, <1>9, <1>13, <1>15, BecomesStep
<1> QED
  BY <1>14, <1>15

(* The heartbeat timeout.                                                  *)
LEMMA HeartbeatTimeoutStep == IInv /\ HeartbeatTimeout => IInv'
<1> SUFFICES ASSUME IInv, HeartbeatTimeout
             PROVE  IInv'
  OBVIOUS
<1> DEFINE fired == [sock EXCEPT !.heartbeatTimer = FALSE]
           shut == [fired EXCEPT !.open = FALSE]
<1>1. sock \in State /\ Good(sock)
  BY IsState
<1>2. Becomes(IF sock.transport \in WebSocket
              THEN OnClose(fired, sock.transport)
              ELSE IF sock.transport = Unopened
              THEN OnDisconnect(shut, FALSE)
              ELSE Threw(fired))
  BY DEF HeartbeatTimeout
<1>3. fired \in State
  BY <1>1, Zenon DEF State
<1>4. Same(sock, fired)
  BY <1>1 DEF State, Same, SameLists, SameReconnection, SameTransport,
              SameAttempt, SameBuffering, Closes
<1> HIDE DEF fired
<1>5. Good(fired)
  BY <1>1, <1>3, <1>4, SameIsGood DEF Good
<1>6. shut \in State
  BY <1>3, Zenon DEF State
<1>7. Same(fired, shut)
  BY <1>3 DEF State, Same, SameLists, SameReconnection, SameTransport,
              SameAttempt, SameBuffering, Closes
<1> HIDE DEF shut
<1>8. Good(shut)
  BY <1>3, <1>5, <1>6, <1>7, SameIsGood DEF Good
<1>9. CASE sock.transport \in WebSocket
  <2> DEFINE r == OnClose(fired, sock.transport)
  <2>1. r \in State /\ Good(r)
    BY <1>3, <1>5, <1>9, OnCloseStep DEF Good
  <2>2. Becomes(r)
    BY <1>2, <1>9
  <2> HIDE DEF r
  <2> QED
    BY <2>1, <2>2, BecomesStep
<1>10. CASE sock.transport \notin WebSocket /\ sock.transport = Unopened
  <2> DEFINE r == OnDisconnect(shut, FALSE)
  <2>1. r \in State /\ Good(r)
    BY <1>6, <1>8, OnDisconnectStep DEF Good
  <2>2. Becomes(r)
    BY <1>2, <1>10
  <2> HIDE DEF r
  <2> QED
    BY <2>1, <2>2, BecomesStep
<1>11. CASE sock.transport \notin WebSocket /\ sock.transport # Unopened
  <2> DEFINE r == Threw(fired)
  <2>1. r \in State /\ Same(fired, r)
    BY <1>3, ThrewStep
  <2>2. Becomes(r)
    BY <1>2, <1>11
  <2> HIDE DEF r
  <2>3. Good(r)
    BY <1>3, <1>5, <2>1, SameIsGood DEF Good
  <2> QED
    BY <2>1, <2>2, <2>3, BecomesStep
<1> QED
  BY <1>9, <1>10, <1>11

(* The close timeout of a WebSocket.                                       *)
LEMMA CloseTimeoutStep ==
  ASSUME NEW w \in WebSocket, IInv, CloseTimeout(w)
  PROVE  IInv'
<1> DEFINE q == ClearTimeouts(sock, w)
           r == TransportOnDisconnect(q, w)
<1>1. sock \in State /\ Good(sock)
  BY IsState
<1>2. Becomes(r)
  BY DEF CloseTimeout, ClearTimeouts
<1>3. q \in State /\ Same(sock, q)
  BY <1>1, ClearTimeoutsStep
<1> HIDE DEF q
<1>4. Sound(q) /\ Driven(q)
  BY <1>1, <1>3, SameIsGood DEF Good
<1>5. r \in State /\ Good(r)
  BY <1>3, <1>4, TransportOnDisconnectStep
<1> HIDE DEF r
<1> QED
  BY <1>2, <1>5, BecomesStep

(* A reconnection timer, the last one or one that nobody can clear.        *)
LEMMA ReconnectionTimeoutStep == IInv /\ ReconnectionTimeout => IInv'
<1> SUFFICES ASSUME IInv, ReconnectionTimeout
             PROVE  IInv'
  OBVIOUS
<1>1. sock \in State /\ Good(sock)
  BY IsState
<1>2. ASSUME NEW q \in State, SameButReconnection(sock, q),
             q.redo = sock.redo, q.attempts = sock.attempts
      PROVE  MaybeReconnect(q) \in State /\ Good(MaybeReconnect(q))
  <2>1. Sound(q) /\ Ending(q) /\ Waiting(q)
    BY <1>1, <1>2, ButReconnection DEF Good, Sound, Attempted
  <2> QED
    BY <2>1, MaybeReconnectStep
<1>3. CASE Becomes(MaybeReconnect([sock EXCEPT !.reconnectionTimer = FALSE]))
  <2> DEFINE q == [sock EXCEPT !.reconnectionTimer = FALSE]
             r == MaybeReconnect(q)
  <2>1. Becomes(r)
    BY <1>3
  <2>2. q \in State
    BY <1>1, Zenon DEF State
  <2>3. /\ SameButReconnection(sock, q) /\ q.redo = sock.redo
        /\ q.attempts = sock.attempts
    BY <1>1 DEF State, SameButReconnection, SameLists, SameTransport,
                SameAttempt, SameBuffering
  <2> HIDE DEF q
  <2>4. r \in State /\ Good(r)
    BY <1>2, <2>2, <2>3
  <2> HIDE DEF r
  <2> QED
    BY <2>1, <2>4, BecomesStep
<1>4. CASE /\ sock.strays > 0
           /\ Becomes(MaybeReconnect([sock EXCEPT !.strays = @ - 1]))
  <2> DEFINE strays == sock.strays - 1
             q == [sock EXCEPT !.strays = strays]
             r == MaybeReconnect(q)
  <2>1. Becomes(r)
    <3>1. [sock EXCEPT !.strays = @ - 1] = q
      BY <1>1 DEF State
    <3> HIDE DEF q
    <3> QED
      BY <1>4, <3>1
  <2>2. strays \in Nat
    BY <1>1, <1>4 DEF State
  <2> HIDE DEF strays
  <2>3. q \in State
    BY <1>1, <2>2, Zenon DEF State
  <2>4. /\ SameButReconnection(sock, q) /\ q.redo = sock.redo
        /\ q.attempts = sock.attempts
    BY <1>1 DEF State, SameButReconnection, SameLists, SameTransport,
                SameAttempt, SameBuffering
  <2> HIDE DEF q
  <2>5. r \in State /\ Good(r)
    BY <1>2, <2>3, <2>4
  <2> HIDE DEF r
  <2> QED
    BY <2>1, <2>5, BecomesStep
<1> QED
  BY <1>3, <1>4 DEF ReconnectionTimeout

(* A WebSocket opens, and the messages that wait may be sent.              *)
LEMMA WsOpenStep ==
  ASSUME NEW w \in WebSocket, IInv, WsOpen(w)
  PROVE  IInv'
<1> DEFINE ws == [sock.ws EXCEPT ![w] = "open"]
           isOpen == [sock.isOpen EXCEPT ![w] = TRUE]
           timers == sock.closeTimers \ {w}
           q == [sock EXCEPT !.ws = ws, !.isOpen = isOpen, !.open = TRUE,
                             !.closeTimers = timers]
           r == SetBuffer(q, FALSE)
<1>1. sock \in State /\ Good(sock)
  BY IsState
<1>2. Becomes(r)
  <2>1. [sock EXCEPT !.ws[w] = "open", !.isOpen[w] = TRUE, !.open = TRUE,
                     !.closeTimers = @ \ {w}] = q
    BY <1>1 DEF State
  <2> HIDE DEF q
  <2> QED
    BY <2>1 DEF WsOpen
<1>3. /\ ws \in [WebSocket -> Status] /\ isOpen \in [WebSocket -> BOOLEAN]
      /\ timers \in SUBSET WebSocket
  BY <1>1 DEF State, Status
<1> HIDE DEF ws, isOpen, timers
<1>4. q \in State
  BY <1>1, <1>3, Zenon DEF State
<1>5. /\ SameLists(sock, q) /\ SameReconnection(sock, q)
      /\ SameTransport(sock, q) /\ SameAttempt(sock, q) /\ SameBuffering(sock, q)
  BY <1>1 DEF State, SameLists, SameReconnection, SameTransport, SameAttempt,
              SameBuffering
<1> HIDE DEF q
<1>6. HasTransport(sock)
  BY <1>1 DEF Good, Sound, Chosen, WsOpen
<1>7. Sound(q) /\ Driven(q) /\ Ending(q)
  <2>1. Attempted(q) /\ Driven(q)
    BY <1>1, <1>5 DEF Good, Sound, Attempted, Driven, SameReconnection,
                      SameTransport
  <2>2. Chosen(q)
    BY <1>5, <1>6 DEF Chosen, HasTransport, SameTransport
  <2>3. Ordered(q)
    BY <1>1, <1>5 DEF Good, Sound, Ordered, SameLists
  <2>4. Ending(q)
    BY <1>1, <1>5 DEF Good, Ending, SameAttempt, SameTransport, SameBuffering
  <2> QED
    BY <2>1, <2>2, <2>3, <2>4 DEF Sound
<1>8. r \in State /\ SameButLists(q, r) /\ Ordered(r) /\ Waiting(r)
  BY <1>4, <1>7, SetBufferStep DEF Sound
<1> HIDE DEF r
<1>9. Good(r)
  BY <1>4, <1>7, <1>8, ButLists DEF Good
<1> QED
  BY <1>2, <1>8, <1>9, BecomesStep

(* A WebSocket closes.                                                     *)
LEMMA WsCloseStep ==
  ASSUME NEW w \in WebSocket, IInv, WsClose(w)
  PROVE  IInv'
<1> DEFINE ws == [sock.ws EXCEPT ![w] = "closed"]
           q == [sock EXCEPT !.ws = ws]
           closed == OnClose(q, w)
           r == SetBuffer(closed, TRUE)
<1>1. sock \in State /\ Good(sock)
  BY IsState
<1>2. Becomes(IF closed.threw THEN closed ELSE r)
  <2>1. [sock EXCEPT !.ws[w] = "closed"] = q
    BY <1>1 DEF State
  <2> HIDE DEF q
  <2> QED
    BY <2>1 DEF WsClose
<1>3. /\ ws \in [WebSocket -> Status]
      /\ \A v \in WebSocket :
           ws[v] = sock.ws[v]
             \/ (sock.ws[v] # "new" /\ ws[v] \notin {"new", "open"})
  BY <1>1 DEF State, Status, WsClose
<1> HIDE DEF ws
<1>4. q \in State
  BY <1>1, <1>3, Zenon DEF State
<1>5. Same(sock, q)
  BY <1>1, <1>3 DEF State, Same, SameLists, SameReconnection, SameTransport,
                    SameAttempt, SameBuffering, Closes
<1> HIDE DEF q
<1>6. Sound(q) /\ Driven(q)
  BY <1>1, <1>4, <1>5, SameIsGood DEF Good
<1>7. closed \in State /\ Good(closed)
  BY <1>4, <1>6, OnCloseStep
<1> HIDE DEF closed
<1>8. r \in State /\ SameButLists(closed, r) /\ Ordered(r) /\ Waiting(r)
  BY <1>7, SetBufferStep DEF Good, Sound
<1> HIDE DEF r
<1>9. Good(r)
  BY <1>7, <1>8, ButLists DEF Good
<1> QED
  BY <1>2, <1>7, <1>8, <1>9, BecomesStep

(* Data comes: some packet, the connection, or its end.                    *)
LEMMA WsMessageStep ==
  ASSUME NEW w \in WebSocket, IInv, WsMessage(w)
  PROVE  IInv'
<1> DEFINE timers == IF sock.connected \/ sock.connecting \/ sock.reconnecting
                     THEN sock.closeTimers \cup {w}
                     ELSE sock.closeTimers \ {w}
           data == [sock EXCEPT !.closeTimers = timers, !.heartbeatTimer = TRUE]
           connect == OnConnect(data)
           disconnect == OnDisconnect(data, TRUE)
<1>1. sock \in State /\ Good(sock)
  BY IsState
<1>2. Becomes(data) \/ Becomes(connect) \/ Becomes(disconnect)
  <2>1. [sock EXCEPT
          !.closeTimers = IF sock.connected \/ sock.connecting
                               \/ sock.reconnecting
                          THEN @ \cup {w} ELSE @ \ {w},
          !.heartbeatTimer = TRUE] = data
    BY <1>1 DEF State
  <2> HIDE DEF data
  <2> QED
    BY <2>1 DEF WsMessage
<1>3. timers \in SUBSET WebSocket
  BY <1>1 DEF State
<1> HIDE DEF timers
<1>4. data \in State
  BY <1>1, <1>3, Zenon DEF State
<1>5. Same(sock, data)
  BY <1>1 DEF State, Same, SameLists, SameReconnection, SameTransport,
              SameAttempt, SameBuffering, Closes
<1> HIDE DEF data
<1>6. Good(data)
  BY <1>1, <1>4, <1>5, SameIsGood DEF Good
<1>7. HasTransport(data)
  <2>1. HasTransport(sock)
    BY <1>1 DEF Good, Sound, Chosen, WsMessage
  <2> QED
    BY <1>5, <2>1 DEF HasTransport, Same, SameTransport
<1>8. connect \in State /\ Good(connect)
  BY <1>4, <1>6, <1>7, OnConnectStep
<1>9. disconnect \in State /\ Good(disconnect)
  BY <1>4, <1>6, OnDisconnectStep DEF Good
<1> HIDE DEF connect, disconnect
<1> QED
  BY <1>2, <1>4, <1>6, <1>8, <1>9, BecomesStep

(***************************************************************************)
(* The theorems.                                                           *)
(***************************************************************************)

(* At first nothing is sent, connected or under way.                       *)
LEMMA InitIInv == Init => IInv
<1> SUFFICES ASSUME Init
             PROVE  IInv
  OBVIOUS
<1>1. /\ <<>> \in Seq(0 .. MaxEmits) /\ <<>> \in Seq(1 .. MaxEmits)
      /\ 0 \in 0 .. MaxAttempts + 1 /\ 0 \in 0 .. MaxRequests
      /\ 0 \in 0 .. MaxStrays /\ 0 \in 0 .. MaxEmits /\ 0 <= MaxAttempts
  BY BoundsAssumption
<1>2. TypeOK
  BY <1>1 DEF Init, TypeOK, NoTransport
<1>3. DOMAIN <<>> = {}
  OBVIOUS
<1>4. Ordered(sock)
  BY <1>3 DEF Init, Ordered, Ascending
<1>5. Attempted(sock) /\ Chosen(sock) /\ Driven(sock) /\ Ending(sock)
      /\ Waiting(sock)
  BY <1>1 DEF Init, Attempted, Chosen, Driven, Ending, Waiting
<1> QED
  BY <1>2, <1>4, <1>5 DEF IInv, Good, Sound

(* Every event keeps the invariant.                                        *)
LEMMA StepIInv == IInv /\ [Next]_vars => IInv'
<1> SUFFICES ASSUME IInv, [Next]_vars
             PROVE  IInv'
  OBVIOUS
<1>1. CASE UserConnect
  BY <1>1, UserConnectStep
<1>2. CASE UserEmit
  BY <1>2, UserEmitStep
<1>3. CASE UserDisconnect
  BY <1>3, UserDisconnectStep
<1>4. CASE DisconnectSync
  BY <1>4, DisconnectSyncStep
<1>5. CASE HandshakeDone
  BY <1>5, HandshakeDoneStep
<1>6. CASE HandshakeRefused \/ HandshakeFails
  BY <1>6, HandshakeEndsStep
<1>7. CASE HeartbeatTimeout
  BY <1>7, HeartbeatTimeoutStep
<1>8. CASE ReconnectionTimeout
  BY <1>8, ReconnectionTimeoutStep
<1>9. ASSUME NEW w \in WebSocket, ConnectTimeout(w)
      PROVE  IInv'
  BY <1>9, ConnectTimeoutStep
<1>10. ASSUME NEW w \in WebSocket, CloseTimeout(w)
       PROVE  IInv'
  BY <1>10, CloseTimeoutStep
<1>11. ASSUME NEW w \in WebSocket, WsOpen(w)
       PROVE  IInv'
  BY <1>11, WsOpenStep
<1>12. ASSUME NEW w \in WebSocket, WsClose(w)
       PROVE  IInv'
  BY <1>12, WsCloseStep
<1>13. ASSUME NEW w \in WebSocket, WsMessage(w)
       PROVE  IInv'
  BY <1>13, WsMessageStep
<1>14. CASE UNCHANGED vars
  <2>1. sock' = sock
    BY <1>14 DEF vars
  <2>2. TypeOK'
    BY <2>1 DEF IInv, TypeOK
  <2>3. Good(sock)'
    BY <2>1 DEF IInv
  <2> QED
    BY <2>2, <2>3 DEF IInv
<1> QED
  BY <1>1, <1>2, <1>3, <1>4, <1>5, <1>6, <1>7, <1>8, <1>9, <1>10, <1>11,
     <1>12, <1>13, <1>14
  DEF Next

(* The inductive invariant holds in every state of the client.             *)
THEOREM IInvHolds == Spec => []IInv
<1> QED
  BY InitIInv, StepIInv, PTL DEF Spec

(* The state of a socket has its type: the attempts of a reconnection do   *)
(* not exceed their bound, and no buffer holds but messages of its own.    *)
THEOREM TypeCorrect == Spec => []TypeOK
<1>1. IInv => TypeOK
  BY DEF IInv
<1> QED
  BY <1>1, IInvHolds, PTL

(* Messages reach the wire in the order of emit, none of them twice,       *)
(* whether they waited in the buffer or not, over any number of            *)
(* connections.                                                            *)
THEOREM InOrder == Spec => []SentInOrder
<1>1. IInv => SentInOrder
  <2> SUFFICES ASSUME IInv, NEW i \in DOMAIN sock.sent, NEW j \in DOMAIN sock.sent,
                      i < j
               PROVE  sock.sent[i] < sock.sent[j]
    BY DEF SentInOrder
  <2>1. sock.sent \in Seq(1 .. MaxEmits)
    BY DEF IInv, TypeOK
  <2>2. DOMAIN sock.sent = 1 .. Len(sock.sent)
    BY <2>1, LenProperties
  <2>3. sock.sent[j] \in 1 .. MaxEmits
    BY <2>1, <2>2, ElementOfSeq
  <2>4. sock.sent[j] # DisconnectPacket
    BY <2>3, BoundsAssumption DEF DisconnectPacket
  <2> QED
    BY <2>4 DEF IInv, Good, Sound, Ordered, Ascending
<1> QED
  BY <1>1, IInvHolds, PTL

(* A reconnection that has attempts left is driven by a timer, unless the  *)
(* transports are used up.                                                 *)
THEOREM TimerDrives == Spec => []ReconnectionIsDriven
<1>1. IInv => ReconnectionIsDriven
  BY DEF IInv, Good, Driven, ReconnectionIsDriven
<1> QED
  BY <1>1, IInvHolds, PTL

(* While connecting is set, something is on its way that clears it, unless *)
(* a handshake was refused or the transports are used up.                  *)
THEOREM AttemptEnds == Spec => []ConnectingEnds
<1>1. IInv => ConnectingEnds
  BY DEF IInv, Good, Ending, ConnectingEnds
<1> QED
  BY <1>1, IInvHolds, PTL

==============================================================================
