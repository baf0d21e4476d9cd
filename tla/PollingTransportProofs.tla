------------------------- MODULE PollingTransportProofs -------------------------
(***************************************************************************)
(* What PollingTransport promises, proved for any number of transports,    *)
(* handshakes, messages and heartbeats and for any of the kinds of         *)
(* transport.                                                              *)
(*                                                                         *)
(* The inductive invariant has a part for the connection (which transport  *)
(* is open, polled and timed) and one for the messages (where they are).   *)
(* Both are predicates of a state, as the operators of PollingTransport    *)
(* are functions of one: an event is a few of these operators, and each of *)
(* them has a lemma of its own.                                            *)
(***************************************************************************)
EXTENDS PollingTransport, FiniteSetTheorems, SequenceTheorems, TLAPS

(***************************************************************************)
(* States within an event.  Becomes bounds the requests at the end of one, *)
(* so they may be too many before.                                         *)
(***************************************************************************)

State ==
  [browser : Browser,
   connected : BOOLEAN, connecting : BOOLEAN, reconnecting : BOOLEAN,
   doBuffer : BOOLEAN, buffer : Seq(1 .. MaxEmits), requests : Nat,
   made : 0 .. MaxTransports, current : 0 .. MaxTransports,
   usedUp : BOOLEAN, once : BOOLEAN, connectTimer : BOOLEAN, strays : Nat,
   heartbeatTimer : BOOLEAN, deferred : Nat,
   isOpen : [Transport -> BOOLEAN], closeTimers : SUBSET Transport,
   gets : [Transport -> 0 .. 1], orphans : [Transport -> Nat],
   posts : Nat, owner : [Post -> 0 .. MaxTransports],
   messages : [Post -> Seq(1 .. MaxEmits)],
   pending : SUBSET Nat, deaf : SUBSET Nat, taken : SUBSET Nat,
   emitted : 0 .. MaxEmits, got : [Transport -> Seq(1 .. MaxEmits)],
   threw : BOOLEAN, stale : BOOLEAN, dropped : SUBSET Transport,
   revived : BOOLEAN]

(***************************************************************************)
(* The connection.                                                         *)
(***************************************************************************)

(* A transport that is not made yet does nothing.  Once there is one, it   *)
(* is only missing if the list is used up.                                 *)
Fresh(q) ==
  /\ q.current <= q.made
  /\ q.current = 0 => q.usedUp \/ q.made = 0
  /\ q.made = 0 => ~q.connected
  /\ ~q.browser.defers => q.deferred = 0
  /\ \A t \in Transport : t > q.made =>
       ~q.isOpen[t] /\ t \notin q.closeTimers /\ q.gets[t] = 0 /\ q.orphans[t] = 0

(* A request is forgotten only when a transport is opened twice.           *)
NoneForgotten(q) ==
  ~q.browser.defers => \A t \in Transport : q.orphans[t] = 0

(* XHR polling has no request when it is closed.                           *)
Quiet(q) ==
  XhrPolling(q) /\ ~q.browser.defers /\ ~q.usedUp =>
    \A t \in Transport : q.gets[t] = 1 => q.isOpen[t]

Sound(q) == Fresh(q) /\ NoneForgotten(q) /\ Quiet(q)

Polled(q) ==
  \A t \in Transport : q.isOpen[t] /\ t = q.current =>
    q.gets[t] = 1 \/ t \in q.closeTimers \/ t \in q.dropped

Connection(q) == Sound(q) /\ Polled(q)

(***************************************************************************)
(* The messages.                                                           *)
(***************************************************************************)

Rises(list) == \A i, j \in DOMAIN list : i < j => list[i] < list[j]

Sent(q) == {p \in Post : p <= q.posts}

Requests(q) ==
  /\ q.pending \cup q.deaf \cup q.taken \subseteq 1 .. q.posts
  /\ \A p \in Sent(q) : q.owner[p] \in 1 .. q.made

(* What may be sent does not wait.                                         *)
Buffered(q) == q.connected /\ ~q.doBuffer /\ q.current # 0 => q.buffer = <<>>

(* Messages go to the buffer, and from there to a request, in order.       *)
Ordered(q) ==
  /\ Rises(q.buffer)
  /\ \A k \in DOMAIN q.buffer : q.buffer[k] <= q.emitted
  /\ \A p \in Sent(q) :
       /\ Rises(q.messages[p])
       /\ \A i \in DOMAIN q.messages[p] :
            /\ q.messages[p][i] <= q.emitted
            /\ \A k \in DOMAIN q.buffer : q.messages[p][i] < q.buffer[k]
  /\ \A p, o \in Sent(q) : p < o =>
       \A i \in DOMAIN q.messages[p], j \in DOMAIN q.messages[o] :
         q.messages[p][i] < q.messages[o][j]

Steady(q) == ~q.stale /\ ~q.browser.defers

(* A request with messages that is under way is the last such one of its   *)
(* transport, and messages wait for its answer.                            *)
OneAtATime(q) ==
  Steady(q) =>
    \A p \in Sent(q) \cap q.pending : q.messages[p] # <<>> =>
      /\ \A o \in Sent(q) :
           q.owner[o] = q.owner[p] /\ q.messages[o] # <<>> => o <= p
      /\ q.owner[p] = q.current => q.doBuffer

(* What the server has came in a request that it took.                     *)
Got(q) ==
  \A t \in Transport :
    /\ \A i \in DOMAIN q.got[t] :
         \E p \in Sent(q) \cap q.taken :
           /\ q.owner[p] = t
           /\ \E j \in DOMAIN q.messages[p] : q.got[t][i] = q.messages[p][j]
    /\ Steady(q) => Rises(q.got[t])

Placed(q) == Requests(q) /\ Ordered(q) /\ OneAtATime(q) /\ Got(q)

Messages(q) == Buffered(q) /\ Placed(q)

IInv == TypeOK /\ ~s.threw /\ Connection(s) /\ Messages(s)

(***************************************************************************)
(* What an operator leaves alone.                                          *)
(***************************************************************************)

SameMessages(q, r) ==
  /\ r.browser = q.browser
  /\ r.doBuffer = q.doBuffer /\ r.buffer = q.buffer
  /\ r.posts = q.posts /\ r.owner = q.owner /\ r.messages = q.messages
  /\ r.pending = q.pending /\ r.deaf = q.deaf /\ r.taken = q.taken
  /\ r.emitted = q.emitted /\ r.got = q.got /\ r.stale = q.stale

SamePlace(q, r) ==
  r.made = q.made /\ r.current = q.current /\ r.usedUp = q.usedUp

SameTransports(q, r) ==
  /\ r.browser = q.browser /\ SamePlace(q, r)
  /\ r.deferred = q.deferred
  /\ r.isOpen = q.isOpen /\ r.closeTimers = q.closeTimers
  /\ r.gets = q.gets /\ r.orphans = q.orphans /\ r.dropped = q.dropped

(* A transport that stays open keeps its request and its timer.            *)
Calmer(q, r) ==
  /\ SamePlace(q, r) /\ r.browser = q.browser /\ r.dropped = q.dropped
  /\ \A t \in Transport :
       r.isOpen[t] => /\ q.isOpen[t] /\ r.gets[t] = q.gets[t]
                      /\ t \in q.closeTimers => t \in r.closeTimers

(* The messages stay where they are.                                       *)
LEMMA PlacedStays ==
  ASSUME NEW q \in State, NEW r \in State, Placed(q), SameMessages(q, r),
         SamePlace(q, r)
  PROVE  Placed(r)
<1>1. Requests(r)
  BY DEF Placed, Requests, Sent, SameMessages, SamePlace
<1>2. Ordered(r)
  BY DEF Placed, Ordered, Sent, SameMessages
<1>3. OneAtATime(r)
  BY DEF Placed, OneAtATime, Sent, Steady, SameMessages, SamePlace
<1>4. Got(r)
  BY DEF Placed, Got, Sent, Steady, SameMessages
<1> QED
  BY <1>1, <1>2, <1>3, <1>4 DEF Placed

(* A disconnection, too, leaves them alone.                                *)
LEMMA MessagesStay ==
  ASSUME NEW q \in State, NEW r \in State, Messages(q),
         SameMessages(q, r), SamePlace(q, r), r.connected => q.connected
  PROVE  Messages(r)
BY PlacedStays DEF Messages, Buffered, SameMessages, SamePlace

(* The transports stay as they are.                                        *)
LEMMA SoundStays ==
  ASSUME NEW q \in State, NEW r \in State, Sound(q), SameTransports(q, r),
         r.connected => q.connected \/ q.made # 0
  PROVE  Sound(r)
BY DEF Sound, Fresh, NoneForgotten, Quiet, XhrPolling, SameTransports, SamePlace

(* A transport that is calmer is polled as before.                         *)
LEMMA PolledStays ==
  ASSUME NEW q \in State, NEW r \in State, Polled(q), Calmer(q, r)
  PROVE  Polled(r)
BY DEF Polled, Calmer, SamePlace

(* Transports that stay as they are are calm.                              *)
LEMMA SameIsCalmer ==
  ASSUME NEW q \in State, NEW r \in State, SameTransports(q, r)
  PROVE  Calmer(q, r)
BY DEF SameTransports, Calmer

(***************************************************************************)
(* POST requests.                                                          *)
(***************************************************************************)

(* No messages are under way that new ones could overtake.                 *)
Free(q) ==
  Steady(q) =>
    \A p \in Sent(q) \cap q.pending :
      q.owner[p] = q.current => q.messages[p] = <<>>

Newer(q, list) ==
  /\ Rises(list)
  /\ \A k \in DOMAIN list : list[k] <= q.emitted
  /\ \A p \in Sent(q) : \A i \in DOMAIN q.messages[p], k \in DOMAIN list :
       q.messages[p][i] < list[k]

(* r is q with a request of transport t for the messages of a list, or for *)
(* none.                                                                   *)
Posting(q, r, t, list) ==
  /\ r.browser = q.browser /\ SamePlace(q, r)
  /\ r.doBuffer = TRUE
  /\ r.posts = q.posts + 1
  /\ r.owner = [q.owner EXCEPT ![q.posts + 1] = t]
  /\ r.messages = [q.messages EXCEPT ![q.posts + 1] = list]
  /\ r.pending = q.pending \cup {q.posts + 1}
  /\ r.deaf \subseteq q.deaf \cup q.pending
  /\ r.taken = q.taken /\ r.emitted = q.emitted /\ r.got = q.got
  /\ r.stale = q.stale

(* A request for messages that are newer than all that were sent, or for a *)
(* heartbeat.                                                              *)
LEMMA Posted ==
  ASSUME NEW q \in State, NEW r \in State, NEW t \in Transport,
         NEW list \in Seq(1 .. MaxEmits),
         Placed(q), Posting(q, r, t, list), t <= q.made, Newer(q, list),
         list # <<>> => Free(q) /\ t = q.current,
         r.buffer = <<>> \/ (r.buffer = q.buffer /\ list = <<>>)
  PROVE  Messages(r)
<1> DEFINE new == q.posts + 1
<1>1. /\ q.posts \in Nat
      /\ DOMAIN q.owner = Post /\ DOMAIN q.messages = Post
      /\ q.owner \in [Post -> 0 .. MaxTransports]
      /\ q.made \in 0 .. MaxTransports /\ t \in 1 .. q.made
  BY DEF State, Transport
<1> USE DEF Posting
<1>2. Sent(r) \subseteq Sent(q) \cup {new} /\ Sent(q) \subseteq Sent(r)
  BY <1>1 DEF Sent, Post
<1>3. \A p \in Sent(q) : /\ p # new /\ p \in Post /\ p < new
                         /\ r.owner[p] = q.owner[p]
                         /\ r.messages[p] = q.messages[p]
  BY <1>1 DEF Sent, Post
<1>4. new \in Sent(r) => r.owner[new] = t /\ r.messages[new] = list
  BY <1>1 DEF Sent
<1>5. q.pending \cup q.deaf \cup q.taken \subseteq 1 .. q.posts
  BY DEF Placed, Requests
<1>6. Requests(r)
  <2>1. r.pending \cup r.deaf \cup r.taken \subseteq 1 .. r.posts
    BY <1>1, <1>5
  <2>2. \A p \in Sent(r) : r.owner[p] \in 1 .. r.made
    BY <1>1, <1>2, <1>3, <1>4 DEF Placed, Requests, SamePlace
  <2> QED
    BY <2>1, <2>2 DEF Requests
<1>7. Ordered(r)
  <2>1. \A p \in Sent(r) : /\ Rises(r.messages[p])
                           /\ \A i \in DOMAIN r.messages[p] :
                                r.messages[p][i] <= r.emitted
    BY <1>2, <1>3, <1>4 DEF Placed, Ordered, Newer
  <2>2. ASSUME NEW p \in Sent(r), NEW o \in Sent(r), p < o,
               NEW i \in DOMAIN r.messages[p], NEW j \in DOMAIN r.messages[o]
        PROVE  r.messages[p][i] < r.messages[o][j]
    <3>1. p \in Sent(q)
      <4>1. CASE p = new /\ o = new
        BY <1>1, <2>2, <4>1
      <4>2. CASE p = new /\ o \in Sent(q)
        <5>1. o < new /\ o \in Nat /\ new \in Nat
          BY <1>1, <1>3, <4>2 DEF Post
        <5> QED
          BY <2>2, <4>2, <5>1
      <4> QED
        BY <1>2, <2>2, <4>1, <4>2
    <3>2. CASE o \in Sent(q)
      BY <1>3, <2>2, <3>1, <3>2 DEF Placed, Ordered
    <3>3. CASE o = new
      BY <1>3, <1>4, <2>2, <3>1, <3>3 DEF Newer
    <3> QED
      BY <1>2, <3>2, <3>3
  <2>3. Rises(r.buffer) /\ \A k \in DOMAIN r.buffer : r.buffer[k] <= r.emitted
    <3>1. CASE r.buffer = <<>>
      BY <3>1 DEF Rises
    <3>2. CASE r.buffer = q.buffer
      BY <3>2 DEF Placed, Ordered
    <3> QED
      BY <3>1, <3>2
  <2>4. \A p \in Sent(r) : \A i \in DOMAIN r.messages[p] :
          \A k \in DOMAIN r.buffer : r.messages[p][i] < r.buffer[k]
    <3>1. CASE r.buffer = <<>>
      BY <3>1
    <3>2. CASE r.buffer = q.buffer /\ list = <<>>
      BY <1>2, <1>3, <1>4, <3>2 DEF Placed, Ordered
    <3> QED
      BY <3>1, <3>2
  <2> QED
    BY <2>1, <2>2, <2>3, <2>4 DEF Ordered
<1>8. OneAtATime(r)
  <2> SUFFICES ASSUME Steady(r), NEW p \in Sent(r) \cap r.pending,
                      r.messages[p] # <<>>,
                      NEW o \in Sent(r), r.owner[o] = r.owner[p],
                      r.messages[o] # <<>>
               PROVE  o <= p
    BY DEF OneAtATime
  <2>1. Steady(q)
    BY DEF Steady
  <2>2. CASE p = new
    BY <1>1, <1>2, <1>3, <2>2
  <2>3. CASE p # new
    <3>1. p \in Sent(q) \cap q.pending /\ q.messages[p] # <<>>
      BY <1>2, <1>3, <2>3
    <3>2. o \in Sent(q) /\ q.owner[o] = q.owner[p] /\ q.messages[o] # <<>>
      <4>1. CASE o = new
        <5>1. list # <<>> /\ q.owner[p] = t
          BY <1>3, <1>4, <3>1, <4>1
        <5> QED
          BY <2>1, <3>1, <5>1 DEF Free
      <4>2. CASE o # new
        BY <1>2, <1>3, <3>1, <4>2
      <4> QED
        BY <4>1, <4>2
    <3> QED
      BY <2>1, <3>1, <3>2 DEF Placed, OneAtATime
  <2> QED
    BY <2>2, <2>3
<1>9. Got(r)
  <2> SUFFICES ASSUME NEW u \in Transport
               PROVE  /\ \A i \in DOMAIN r.got[u] :
                           \E p \in Sent(r) \cap r.taken :
                             /\ r.owner[p] = u
                             /\ \E j \in DOMAIN r.messages[p] :
                                  r.got[u][i] = r.messages[p][j]
                      /\ Steady(r) => Rises(r.got[u])
    BY DEF Got
  <2>1. Steady(r) => Rises(r.got[u])
    BY DEF Placed, Got, Steady
  <2>2. ASSUME NEW i \in DOMAIN r.got[u]
        PROVE  \E p \in Sent(r) \cap r.taken :
                 /\ r.owner[p] = u
                 /\ \E j \in DOMAIN r.messages[p] : r.got[u][i] = r.messages[p][j]
    <3>1. PICK p \in Sent(q) \cap q.taken :
            /\ q.owner[p] = u
            /\ \E j \in DOMAIN q.messages[p] : q.got[u][i] = q.messages[p][j]
      BY <2>2 DEF Placed, Got
    <3> QED
      BY <1>2, <1>3, <3>1
  <2> QED
    BY <2>1, <2>2
<1> QED
  BY <1>6, <1>7, <1>8, <1>9 DEF Messages, Placed, Buffered

(* The buffer is newer than what was sent.                                 *)
LEMMA BufferIsNewer ==
  ASSUME NEW q \in State, Placed(q)
  PROVE  Newer(q, q.buffer)
BY DEF Placed, Ordered, Newer

(* The fields that post sets.                                              *)
LEMMA PostFields ==
  ASSUME NEW q \in State, NEW t \in Transport, NEW list \in Seq(1 .. MaxEmits)
  PROVE  LET r == PostMessages(q, t, list) IN
         /\ r \in State
         /\ SameTransports(q, r) /\ r.connected = q.connected
         /\ Posting(q, r, t, list)
         /\ r.buffer = q.buffer /\ r.threw = q.threw
<1> DEFINE n == q.posts + 1
           owner == [q.owner EXCEPT ![n] = t]
           messages == [q.messages EXCEPT ![n] = list]
           pending == q.pending \cup {n}
           deaf == IF q.browser.kind = "jsonp"
                   THEN q.deaf \cup {o \in q.pending : q.owner[o] = t}
                   ELSE q.deaf
           r == [q EXCEPT !.doBuffer = TRUE, !.posts = n, !.owner = owner,
                          !.messages = messages, !.pending = pending,
                          !.deaf = deaf]
<1>1. /\ n \in Nat
      /\ owner \in [Post -> 0 .. MaxTransports]
      /\ messages \in [Post -> Seq(1 .. MaxEmits)]
      /\ pending \in SUBSET Nat
      /\ deaf \in SUBSET Nat /\ deaf \subseteq q.deaf \cup q.pending
  <2>1. /\ q.posts \in Nat /\ t \in 0 .. MaxTransports
        /\ q.owner \in [Post -> 0 .. MaxTransports]
        /\ q.messages \in [Post -> Seq(1 .. MaxEmits)]
        /\ q.pending \in SUBSET Nat /\ q.deaf \in SUBSET Nat
    BY BoundsAssumption DEF State, Transport
  <2>2. n \in Nat
    BY <2>1
  <2> HIDE DEF n
  <2>3. /\ owner \in [Post -> 0 .. MaxTransports]
        /\ messages \in [Post -> Seq(1 .. MaxEmits)]
    BY <2>1, <2>2
  <2>4. /\ pending \in SUBSET Nat
        /\ deaf \in SUBSET Nat /\ deaf \subseteq q.deaf \cup q.pending
    BY <2>1, <2>2
  <2> QED
    BY <2>2, <2>3, <2>4
<1>2. PostMessages(q, t, list) = r
  BY DEF PostMessages, State
<1> HIDE DEF n, owner, messages, pending, deaf
<1>3. r \in State
  BY <1>1, Zenon DEF State
<1>4. /\ SameTransports(q, r) /\ r.connected = q.connected
      /\ r.threw = q.threw /\ r.buffer = q.buffer
      /\ r.doBuffer = TRUE
      /\ r.posts = n /\ r.owner = owner /\ r.messages = messages
      /\ r.pending = pending /\ r.deaf = deaf
      /\ r.taken = q.taken /\ r.emitted = q.emitted /\ r.got = q.got
      /\ r.stale = q.stale
  BY DEF State, SameTransports, SamePlace
<1> QED
  BY <1>1, <1>2, <1>3, <1>4
  DEF n, owner, messages, pending, Posting, SameTransports

(* A heartbeat is answered.                                                *)
LEMMA HeartbeatStep ==
  ASSUME NEW q \in State, NEW t \in Transport, Messages(q), t <= q.made
  PROVE  LET r == PostMessages(q, t, <<>>) IN
         /\ r \in State /\ SameTransports(q, r) /\ Messages(r)
         /\ r.connected = q.connected /\ r.threw = q.threw
<1> DEFINE none == <<>>
           r == PostMessages(q, t, none)
<1>1. none \in Seq(1 .. MaxEmits) /\ Newer(q, none)
  BY DEF Newer, Rises
<1> HIDE DEF none
<1>2. /\ r \in State
      /\ SameTransports(q, r) /\ r.connected = q.connected
      /\ Posting(q, r, t, none)
      /\ r.buffer = q.buffer /\ r.threw = q.threw
  BY <1>1, PostFields
<1>3. Messages(r)
  <2>1. none = <<>>
    BY DEF none
  <2>2. Placed(q)
    BY DEF Messages
  <2> HIDE DEF r
  <2> QED
    BY <1>1, <1>2, <2>1, <2>2, Posted
<1> QED
  BY <1>2, <1>3 DEF none

(* setBuffer(false) flushes the buffer of a connected socket.              *)
LEMMA SetBufferStep ==
  ASSUME NEW q \in State, Placed(q), Free(q), q.current <= q.made
  PROVE  LET r == SetBuffer(q, FALSE) IN
         /\ r \in State /\ SameTransports(q, r) /\ Messages(r)
         /\ r.connected = q.connected
         /\ r.threw => q.threw \/ q.current = 0
<1> DEFINE set == [q EXCEPT !.doBuffer = FALSE]
           failed == [set EXCEPT !.threw = TRUE]
<1>1. set \in State /\ failed \in State
  BY Zenon DEF State
<1>2. /\ SameTransports(q, set) /\ set.connected = q.connected
      /\ set.threw = q.threw
      /\ set.doBuffer = FALSE /\ set.buffer = q.buffer
      /\ set.posts = q.posts /\ set.owner = q.owner
      /\ set.messages = q.messages /\ set.pending = q.pending
      /\ set.deaf = q.deaf /\ set.taken = q.taken
      /\ set.emitted = q.emitted /\ set.got = q.got /\ set.stale = q.stale
  BY DEF State, SameTransports, SamePlace
<1>3. SameTransports(set, failed) /\ SameMessages(set, failed)
      /\ failed.connected = set.connected
  BY <1>1 DEF State, SameTransports, SamePlace, SameMessages
<1>4. SetBuffer(q, FALSE) = IF q.connected /\ q.buffer # <<>>
                            THEN IF q.current = 0 THEN failed
                                 ELSE [PostMessages(set, q.current, q.buffer)
                                         EXCEPT !.buffer = <<>>]
                            ELSE set
  BY DEF SetBuffer, Threw
<1> HIDE DEF set, failed
<1>5. Placed(set)
  <2>1. set.browser = q.browser /\ set.current = q.current /\ set.made = q.made
    BY <1>2 DEF SameTransports, SamePlace
  <2>2. Requests(set)
    BY <1>2, <2>1 DEF Placed, Requests, Sent
  <2>3. Ordered(set)
    BY <1>2 DEF Placed, Ordered, Sent
  <2>4. OneAtATime(set)
    BY <1>2, <2>1 DEF Placed, OneAtATime, Free, Sent, Steady
  <2>5. Got(set)
    BY <1>2, <2>1 DEF Placed, Got, Sent, Steady
  <2> QED
    BY <2>2, <2>3, <2>4, <2>5 DEF Placed
<1>6. CASE q.connected /\ q.buffer # <<>> /\ q.current = 0
  <2>1. SetBuffer(q, FALSE) = failed
    BY <1>4, <1>6
  <2>2. SamePlace(set, failed) /\ failed.current = 0
    BY <1>2, <1>3, <1>6 DEF SameTransports, SamePlace
  <2>3. Messages(failed)
    BY <1>1, <1>3, <1>5, <2>2, PlacedStays DEF Messages, Buffered
  <2> QED
    BY <1>1, <1>2, <1>3, <1>6, <2>1, <2>3 DEF SameTransports, SamePlace
<1>7. CASE q.connected /\ q.buffer # <<>> /\ q.current # 0
  <2> DEFINE post == PostMessages(set, q.current, q.buffer)
             r == [post EXCEPT !.buffer = <<>>]
  <2>1. q.buffer \in Seq(1 .. MaxEmits) /\ q.current \in Transport
    BY <1>7, BoundsAssumption DEF State, Transport
  <2>2. /\ post \in State
        /\ SameTransports(set, post) /\ post.connected = set.connected
        /\ Posting(set, post, q.current, q.buffer)
        /\ post.threw = set.threw
    BY <1>1, <2>1, PostFields
  <2> HIDE DEF post
  <2>3. <<>> \in Seq(1 .. MaxEmits)
    OBVIOUS
  <2>4. r \in State
    BY <2>2, <2>3, Zenon DEF State
  <2>5. /\ SameTransports(q, r) /\ r.connected = q.connected
        /\ r.threw = q.threw /\ r.buffer = <<>>
    BY <1>2, <2>2 DEF State, SameTransports, SamePlace
  <2>6. Posting(q, r, q.current, q.buffer)
    BY <1>2, <2>2 DEF State, SameTransports, SamePlace, Posting
  <2>7. Messages(r)
    <3>1. Newer(q, q.buffer)
      BY BufferIsNewer
    <3> HIDE DEF r
    <3> QED
      BY <1>7, <2>1, <2>4, <2>5, <2>6, <3>1, Posted
  <2>8. SetBuffer(q, FALSE) = r
    BY <1>4, <1>7 DEF post
  <2> HIDE DEF r
  <2> QED
    BY <2>4, <2>5, <2>7, <2>8
<1>8. CASE ~(q.connected /\ q.buffer # <<>>)
  <2>1. SetBuffer(q, FALSE) = set
    BY <1>4, <1>8
  <2>2. Messages(set)
    BY <1>2, <1>5, <1>8 DEF Messages, Buffered
  <2> QED
    BY <1>1, <1>2, <2>1, <2>2
<1> QED
  BY <1>6, <1>7, <1>8

(***************************************************************************)
(* GET requests, and the end of a transport.                               *)
(***************************************************************************)

(* A transport that is polled: get replaces the request that there was, or *)
(* forgets it.                                                             *)
LEMMA GetStep ==
  ASSUME NEW q \in State, NEW t \in Transport, Sound(q), t <= q.made,
         t = q.current \/ Polled(q),
         ~q.browser.defers /\ q.browser.kind # "jsonp" => q.gets[t] = 0
  PROVE  LET r == Get(q, t) IN
         /\ r \in State /\ Connection(r)
         /\ SameMessages(q, r) /\ SamePlace(q, r)
         /\ r.connected = q.connected /\ r.threw = q.threw
<1> DEFINE gets == [q.gets EXCEPT ![t] = 1]
           more == IF q.browser.kind = "jsonp" THEN q.orphans[t]
                   ELSE q.orphans[t] + q.gets[t]
           orphans == [q.orphans EXCEPT ![t] = more]
           r == [q EXCEPT !.gets = gets, !.orphans = orphans]
<1>1. CASE XhrPolling(q) /\ ~q.isOpen[t]
  <2>1. Get(q, t) = q
    BY <1>1 DEF Get
  <2>2. Polled(q)
    BY <1>1 DEF Polled
  <2> QED
    BY <2>1, <2>2 DEF Connection, SameMessages, SamePlace
<1>2. CASE ~(XhrPolling(q) /\ ~q.isOpen[t])
  <2>1. /\ q.gets \in [Transport -> 0 .. 1]
        /\ q.orphans \in [Transport -> Nat]
        /\ q.orphans[t] \in Nat /\ q.gets[t] \in 0 .. 1
        /\ q.made \in Int
    BY DEF State
  <2>2. more \in Nat
    BY <2>1
  <2>3. gets \in [Transport -> 0 .. 1] /\ orphans \in [Transport -> Nat]
    BY <2>1, <2>2
  <2>4. Get(q, t) = r
    BY <1>2 DEF Get, State
  <2>5. /\ \A u \in Transport : gets[u] = IF u = t THEN 1 ELSE q.gets[u]
        /\ \A u \in Transport : orphans[u] = IF u = t THEN more ELSE q.orphans[u]
    BY <2>1
  <2> HIDE DEF gets, orphans
  <2>6. r \in State
    BY <2>3, Zenon DEF State
  <2>7. /\ SameMessages(q, r) /\ SamePlace(q, r)
        /\ r.gets = gets /\ r.orphans = orphans
        /\ r.connected = q.connected /\ r.threw = q.threw
        /\ r.deferred = q.deferred /\ r.isOpen = q.isOpen
        /\ r.closeTimers = q.closeTimers /\ r.dropped = q.dropped
        /\ r.browser = q.browser
    BY DEF State, SameMessages, SamePlace
  <2> HIDE DEF r
  <2>8. Fresh(r)
    <3>1. /\ r.current <= r.made
          /\ r.current = 0 => r.usedUp \/ r.made = 0
          /\ r.made = 0 => ~r.connected
          /\ ~r.browser.defers => r.deferred = 0
      BY <2>7 DEF Sound, Fresh, SamePlace
    <3>2. ASSUME NEW u \in Transport, u > r.made
          PROVE  /\ ~r.isOpen[u] /\ u \notin r.closeTimers
                 /\ r.gets[u] = 0 /\ r.orphans[u] = 0
      <4>1. u # t /\ u > q.made
        BY <2>1, <2>7, <3>2 DEF SamePlace, Transport
      <4> QED
        BY <2>5, <2>7, <4>1 DEF Sound, Fresh
    <3> QED
      BY <3>1, <3>2 DEF Fresh
  <2>9. NoneForgotten(r)
    BY <2>1, <2>5, <2>7 DEF Sound, NoneForgotten
  <2>10. Quiet(r)
    BY <1>2, <2>5, <2>7 DEF Sound, Quiet, XhrPolling, SamePlace
  <2>11. Polled(r)
    BY <2>5, <2>7 DEF Polled, SamePlace
  <2> QED
    BY <2>4, <2>6, <2>7, <2>8, <2>9, <2>10, <2>11 DEF Connection, Sound
<1> QED
  BY <1>1, <1>2

(* What onClose does to its transport.                                     *)
LEMMA ShutFields ==
  ASSUME NEW q \in State, NEW t \in 0 .. MaxTransports, NEW closing \in BOOLEAN
  PROVE  LET r == Shut(q, t, closing) IN
         /\ r \in State /\ SameMessages(q, r) /\ SamePlace(q, r)
         /\ r.connected = q.connected /\ r.connecting = q.connecting
         /\ r.reconnecting = q.reconnecting /\ r.threw = q.threw
         /\ r.deferred = q.deferred /\ r.dropped = q.dropped
         /\ r.orphans = q.orphans
         /\ \A u \in Transport : r.isOpen[u] <=> q.isOpen[u] /\ u # t
         /\ r.closeTimers = q.closeTimers \ {t}
         /\ \A u \in Transport :
              r.gets[u] = IF u = t /\ \/ XhrPolling(q)
                                      \/ q.browser.kind = "htmlfile" /\ closing
                          THEN 0 ELSE q.gets[u]
<1> DEFINE isOpen == [q.isOpen EXCEPT ![t] = FALSE]
           timers == q.closeTimers \ {t}
           aborts == XhrPolling(q) \/ (q.browser.kind = "htmlfile" /\ closing)
           left == IF aborts THEN 0 ELSE q.gets[t]
           gets == [q.gets EXCEPT ![t] = left]
           r == [q EXCEPT !.isOpen = isOpen, !.closeTimers = timers,
                          !.heartbeatTimer = FALSE, !.gets = gets]
<1>1. /\ q.gets \in [Transport -> 0 .. 1]
      /\ q.isOpen \in [Transport -> BOOLEAN]
      /\ q.closeTimers \in SUBSET Transport
  BY DEF State
<1>2. isOpen \in [Transport -> BOOLEAN] /\ timers \in SUBSET Transport
  BY <1>1
<1>3. gets \in [Transport -> 0 .. 1]
  <2>1. t \in Transport => left \in 0 .. 1
    BY <1>1
  <2> HIDE DEF left
  <2> QED
    BY <1>1, <2>1
<1>4. Shut(q, t, closing) = r
  BY DEF Shut, State
<1>5. /\ \A u \in Transport : isOpen[u] <=> q.isOpen[u] /\ u # t
      /\ \A u \in Transport :
           gets[u] = IF u = t /\ aborts THEN 0 ELSE q.gets[u]
  BY <1>1
<1> HIDE DEF isOpen, timers, gets, left
<1>6. r \in State
  BY <1>2, <1>3, Zenon DEF State
<1>7. /\ SameMessages(q, r) /\ SamePlace(q, r)
      /\ r.gets = gets /\ r.isOpen = isOpen /\ r.closeTimers = timers
      /\ r.orphans = q.orphans
      /\ r.connected = q.connected /\ r.connecting = q.connecting
      /\ r.reconnecting = q.reconnecting /\ r.threw = q.threw
      /\ r.deferred = q.deferred /\ r.dropped = q.dropped
  BY DEF State, SameMessages, SamePlace
<1> QED
  BY <1>4, <1>5, <1>6, <1>7 DEF timers

(* What closes a transport makes nothing forgotten or fresh.               *)
LEMMA ShutSound ==
  ASSUME NEW q \in State, NEW t \in 0 .. MaxTransports, NEW closing \in BOOLEAN,
         Sound(q)
  PROVE  LET r == Shut(q, t, closing) IN
         Sound(r) /\ Calmer(q, r)
<1> DEFINE r == Shut(q, t, closing)
<1>1. /\ SameMessages(q, r) /\ SamePlace(q, r)
      /\ r.connected = q.connected
      /\ r.deferred = q.deferred /\ r.dropped = q.dropped
      /\ r.orphans = q.orphans
      /\ \A u \in Transport : r.isOpen[u] <=> q.isOpen[u] /\ u # t
      /\ r.closeTimers = q.closeTimers \ {t}
      /\ \A u \in Transport :
           r.gets[u] = IF u = t /\ \/ XhrPolling(q)
                                   \/ q.browser.kind = "htmlfile" /\ closing
                       THEN 0 ELSE q.gets[u]
  BY ShutFields
<1> HIDE DEF r
<1>2. r.browser = q.browser
  BY <1>1 DEF SameMessages
<1>3. Fresh(r)
  BY <1>1, <1>2 DEF Sound, Fresh, SamePlace
<1>4. NoneForgotten(r)
  BY <1>1, <1>2 DEF Sound, NoneForgotten
<1>5. Quiet(r)
  BY <1>1, <1>2 DEF Sound, Quiet, XhrPolling, SamePlace
<1>6. Calmer(q, r)
  <2>1. \A u \in Transport :
          r.isOpen[u] => /\ q.isOpen[u] /\ r.gets[u] = q.gets[u]
                         /\ u \in q.closeTimers => u \in r.closeTimers
    BY <1>1
  <2> QED
    BY <1>1, <1>2, <2>1 DEF Calmer
<1> QED
  BY <1>3, <1>4, <1>5, <1>6 DEF r, Sound

(* One change after the other.                                             *)
LEMMA CalmerAgain ==
  ASSUME NEW q, NEW r, NEW z, Calmer(q, r), Calmer(r, z)
  PROVE  Calmer(q, z)
BY DEF Calmer, SamePlace

(* The messages stay where they are twice.                                 *)
LEMMA MessagesAgain ==
  ASSUME NEW q, NEW r, NEW z, SameMessages(q, r), SameMessages(r, z)
  PROVE  SameMessages(q, z)
BY DEF SameMessages

(* Socket.onDisconnect.                                                    *)
LEMMA SocketOnDisconnectStep ==
  ASSUME NEW q \in State, NEW booted \in BOOLEAN, Sound(q)
  PROVE  LET r == SocketOnDisconnect(q, booted) IN
         /\ r \in State /\ Sound(r) /\ Calmer(q, r) /\ SameMessages(q, r)
         /\ ~r.connected /\ r.orphans = q.orphans
         /\ r.threw => q.threw \/ q.current = 0
<1> DEFINE off == [q EXCEPT !.connected = FALSE, !.connecting = FALSE,
                            !.revived = FALSE]
           failed == [off EXCEPT !.threw = TRUE]
           shut == Shut(off, q.current, TRUE)
           again == shut.reconnecting \/ (q.connected /\ ~booted)
           done == [shut EXCEPT !.reconnecting = again]
<1>1. off \in State
  BY Zenon DEF State
<1>2. failed \in State
  <2> HIDE DEF off
  <2> QED
    BY <1>1, Zenon DEF State
<1>3. /\ SameMessages(q, off) /\ SameTransports(q, off)
      /\ ~off.connected /\ off.threw = q.threw /\ off.orphans = q.orphans
  BY DEF State, SameMessages, SameTransports, SamePlace
<1>4. SocketOnDisconnect(q, booted) =
        IF ~q.connected /\ ~q.connecting THEN off
        ELSE IF q.current = 0 THEN failed ELSE done
  BY DEF SocketOnDisconnect, Threw
<1>5. /\ SameMessages(off, failed) /\ SameTransports(off, failed)
      /\ ~failed.connected /\ failed.orphans = off.orphans
  BY <1>1, <1>3 DEF State, SameMessages, SameTransports, SamePlace
<1> HIDE DEF off
<1>6. q.current \in 0 .. MaxTransports
  BY DEF State
<1>7. Sound(off) /\ Calmer(q, off)
  BY <1>1, <1>3, SoundStays, SameIsCalmer
<1>8. CASE ~q.connected /\ ~q.connecting
  BY <1>1, <1>3, <1>4, <1>7, <1>8
<1>9. CASE (q.connected \/ q.connecting) /\ q.current = 0
  <2>1. SocketOnDisconnect(q, booted) = failed
    BY <1>4, <1>9
  <2> HIDE DEF failed
  <2>2. Sound(failed) /\ Calmer(off, failed)
    BY <1>1, <1>2, <1>5, <1>7, SoundStays, SameIsCalmer
  <2>3. SameMessages(q, failed) /\ Calmer(q, failed)
    BY <1>3, <1>5, <1>7, <2>2, CalmerAgain, MessagesAgain
  <2> QED
    BY <1>2, <1>3, <1>5, <1>9, <2>1, <2>2, <2>3
<1>10. CASE (q.connected \/ q.connecting) /\ q.current # 0
  <2>1. SocketOnDisconnect(q, booted) = done
    BY <1>4, <1>10
  <2> DEFINE yes == TRUE
  <2>2. yes \in BOOLEAN /\ shut = Shut(off, q.current, yes)
    OBVIOUS
  <2> HIDE DEF yes, shut
  <2>3. /\ shut \in State /\ SameMessages(off, shut)
        /\ shut.connected = off.connected /\ shut.threw = off.threw
        /\ shut.reconnecting = off.reconnecting
        /\ shut.orphans = off.orphans
    BY <1>1, <1>6, <2>2, ShutFields
  <2>4. Sound(shut) /\ Calmer(off, shut)
    BY <1>1, <1>6, <1>7, <2>2, ShutSound
  <2>5. again \in BOOLEAN
    BY <2>3 DEF State
  <2> HIDE DEF again
  <2>6. done \in State
    BY <2>3, <2>5, Zenon DEF State
  <2>7. /\ SameMessages(shut, done) /\ SameTransports(shut, done)
        /\ done.connected = shut.connected /\ done.threw = shut.threw
        /\ done.orphans = shut.orphans
    BY <2>3 DEF State, SameMessages, SameTransports, SamePlace
  <2> HIDE DEF done
  <2>8. Sound(done) /\ Calmer(shut, done)
    BY <2>3, <2>4, <2>6, <2>7, SoundStays, SameIsCalmer
  <2>9. SameMessages(q, done) /\ Calmer(q, done)
    BY <1>3, <1>7, <2>3, <2>4, <2>7, <2>8, CalmerAgain, MessagesAgain
  <2> QED
    BY <1>3, <2>1, <2>3, <2>6, <2>7, <2>8, <2>9
<1> QED
  BY <1>8, <1>9, <1>10

(* A transport that closes takes the connection down.  If there is no      *)
(* transport, XHR polling keeps the request it had.                        *)
LEMMA OnCloseStep ==
  ASSUME NEW q \in State, NEW t \in Transport, NEW closing \in BOOLEAN,
         Sound(q), ~q.threw, t <= q.made, t = q.current \/ Polled(q)
  PROVE  LET r == OnClose(q, t, closing) IN
         /\ r \in State /\ Connection(r) /\ SameMessages(q, r)
         /\ SamePlace(q, r) /\ ~r.connected /\ ~r.isOpen[t]
<1> DEFINE shut == Shut(q, t, closing)
           off == SocketOnDisconnect(shut, FALSE)
           gets == [off.gets EXCEPT ![t] = q.gets[t]]
           kept == [off EXCEPT !.gets = gets]
<1>1. t \in 0 .. MaxTransports
  BY BoundsAssumption DEF Transport
<1>2. /\ shut \in State /\ SameMessages(q, shut)
      /\ shut.threw = q.threw /\ shut.orphans = q.orphans
      /\ \A u \in Transport : shut.isOpen[u] <=> q.isOpen[u] /\ u # t
  BY <1>1, ShutFields
<1>3. Sound(shut) /\ Calmer(q, shut)
  BY <1>1, ShutSound
<1> DEFINE no == FALSE
<1>4. no \in BOOLEAN /\ off = SocketOnDisconnect(shut, no)
  OBVIOUS
<1>5. OnClose(q, t, closing) =
        IF off.threw /\ XhrPolling(q) THEN [off EXCEPT !.gets[t] = q.gets[t]] ELSE off
  BY DEF OnClose
<1> HIDE DEF no, shut, off
<1>6. /\ off \in State /\ Sound(off) /\ Calmer(shut, off)
      /\ SameMessages(shut, off) /\ ~off.connected
      /\ off.orphans = shut.orphans
      /\ off.threw => shut.threw \/ shut.current = 0
  BY <1>2, <1>3, <1>4, SocketOnDisconnectStep
<1>7. /\ SameMessages(q, off) /\ Calmer(q, off)
      /\ off.browser = q.browser /\ SamePlace(q, off)
      /\ ~off.isOpen[t]
  BY <1>2, <1>3, <1>6, CalmerAgain, MessagesAgain DEF Calmer, SameMessages
<1>8. Polled(off)
  <2>1. CASE t = q.current
    BY <1>7, <2>1 DEF Polled, SamePlace
  <2>2. CASE Polled(q)
    BY <1>6, <1>7, <2>2, PolledStays
  <2> QED
    BY <2>1, <2>2
<1>9. CASE off.threw /\ XhrPolling(q)
  <2>1. q.gets[t] \in 0 .. 1 /\ off.gets \in [Transport -> 0 .. 1]
    BY <1>6 DEF State
  <2>2. /\ gets \in [Transport -> 0 .. 1]
        /\ \A u \in Transport : gets[u] = IF u = t THEN q.gets[t] ELSE off.gets[u]
    BY <2>1
  <2>3. OnClose(q, t, closing) = kept
    BY <1>5, <1>9, <1>6 DEF State
  <2> HIDE DEF gets
  <2>4. kept \in State
    BY <1>6, <2>2, Zenon DEF State
  <2>5. /\ SameMessages(off, kept) /\ SamePlace(off, kept)
        /\ kept.connected = off.connected /\ kept.browser = off.browser
        /\ kept.deferred = off.deferred /\ kept.isOpen = off.isOpen
        /\ kept.closeTimers = off.closeTimers /\ kept.orphans = off.orphans
        /\ kept.dropped = off.dropped /\ kept.gets = gets
    BY <1>6 DEF State, SameMessages, SamePlace
  <2> HIDE DEF kept
  <2>6. Fresh(kept)
    <3>1. q.made \in Int /\ t \in Int
      BY DEF State, Transport
    <3>2. \A u \in Transport : u > off.made => u # t
      BY <1>7, <3>1 DEF SamePlace
    <3> QED
      BY <1>6, <2>2, <2>5, <3>2 DEF Sound, Fresh, SamePlace
  <2>7. NoneForgotten(kept)
    BY <1>6, <2>5 DEF Sound, NoneForgotten
  <2>8. q.usedUp
    <3>1. shut.current = 0 /\ q.current = 0
      BY <1>2, <1>3, <1>6, <1>9 DEF Calmer, SamePlace
    <3>2. q.made # 0
      BY DEF State, Transport
    <3> QED
      BY <3>1, <3>2 DEF Sound, Fresh
  <2>9. Quiet(kept)
    BY <1>7, <2>5, <2>8 DEF Quiet, SamePlace
  <2>10. Polled(kept)
    BY <1>7, <1>8, <2>2, <2>5 DEF Polled, SamePlace
  <2> QED
    BY <1>6, <1>7, <2>3, <2>4, <2>5, <2>6, <2>7, <2>9, <2>10, MessagesAgain
    DEF Connection, Sound, SamePlace
<1>10. CASE ~(off.threw /\ XhrPolling(q))
  <2>1. OnClose(q, t, closing) = off
    BY <1>5, <1>10
  <2> QED
    BY <1>6, <1>7, <1>8, <2>1 DEF Connection
<1> QED
  BY <1>9, <1>10

(* onDisconnect of a transport whose close timeout has passed.             *)
LEMMA OnDisconnectStep ==
  ASSUME NEW q \in State, NEW t \in Transport,
         Sound(q), ~q.threw, t <= q.made, t = q.current \/ Polled(q)
  PROVE  LET r == OnDisconnect(q, t) IN
         /\ r \in State /\ Connection(r) /\ SameMessages(q, r)
         /\ SamePlace(q, r) /\ (r.connected => q.connected)
<1> DEFINE yes == TRUE
           no == FALSE
           closed == IF q.isOpen[t] THEN OnClose(q, t, yes) ELSE q
           timers == closed.closeTimers \ {t}
           untimed == [closed EXCEPT !.closeTimers = timers]
           r == SocketOnDisconnect(untimed, no)
<1>1. OnDisconnect(q, t) = IF closed.threw THEN closed ELSE r
  BY DEF OnDisconnect
<1>2. yes \in BOOLEAN /\ no \in BOOLEAN
  OBVIOUS
<1> HIDE DEF yes, no
<1>3. /\ closed \in State /\ Connection(closed) /\ SameMessages(q, closed)
      /\ SamePlace(q, closed) /\ (closed.connected => q.connected)
      /\ ~closed.isOpen[t]
  <2>1. CASE q.isOpen[t]
    <3>1. closed = OnClose(q, t, yes)
      BY <2>1
    <3> HIDE DEF closed
    <3> QED
      BY <1>2, <3>1, OnCloseStep
  <2>2. CASE ~q.isOpen[t]
    <3>1. closed = q
      BY <2>2
    <3>2. Polled(q)
      BY <2>2 DEF Polled
    <3> HIDE DEF closed
    <3> QED
      BY <2>2, <3>1, <3>2 DEF Connection, SameMessages, SamePlace
  <2> QED
    BY <2>1, <2>2
<1> HIDE DEF closed
<1>4. timers \in SUBSET Transport
  BY <1>3 DEF State
<1> HIDE DEF timers
<1>5. untimed \in State
  BY <1>3, <1>4, Zenon DEF State
<1>6. /\ SameMessages(closed, untimed) /\ SamePlace(closed, untimed)
      /\ untimed.closeTimers = timers /\ untimed.browser = closed.browser
      /\ untimed.connected = closed.connected
      /\ untimed.isOpen = closed.isOpen /\ untimed.gets = closed.gets
      /\ untimed.orphans = closed.orphans /\ untimed.deferred = closed.deferred
      /\ untimed.dropped = closed.dropped
  BY <1>3 DEF State, SameMessages, SamePlace
<1> HIDE DEF untimed
<1>7. Sound(untimed)
  BY <1>3, <1>6 DEF timers, Connection, Sound, Fresh, NoneForgotten, Quiet,
                    XhrPolling, SamePlace
<1>8. Polled(untimed)
  BY <1>3, <1>6 DEF timers, Connection, Polled, SamePlace
<1>9. /\ r \in State /\ Sound(r) /\ Calmer(untimed, r)
      /\ SameMessages(untimed, r) /\ ~r.connected
  BY <1>2, <1>5, <1>7, SocketOnDisconnectStep
<1> HIDE DEF r
<1>10. Polled(r)
  BY <1>5, <1>8, <1>9, PolledStays
<1>11. SameMessages(q, r)
  BY <1>3, <1>6, <1>9, MessagesAgain
<1>12. SamePlace(q, r)
  BY <1>3, <1>6, <1>9 DEF Calmer, SamePlace
<1> QED
  BY <1>1, <1>3, <1>9, <1>10, <1>11, <1>12 DEF Connection

(***************************************************************************)
(* Connection.                                                             *)
(***************************************************************************)

(* Timers and flags that the invariant does not mention.                   *)
SameButFlags(q, r) ==
  /\ SameTransports(q, r) /\ SameMessages(q, r) /\ r.connected = q.connected

(* A change of flags is none for the invariant.                            *)
LEMMA FlagsChange ==
  ASSUME NEW q \in State, NEW r \in State, SameButFlags(q, r)
  PROVE  /\ Sound(q) => Sound(r)
         /\ Polled(q) => Polled(r)
         /\ Messages(q) => Messages(r)
         /\ Placed(q) => Placed(r)
         /\ Calmer(q, r) /\ SamePlace(q, r)
<1>1. SamePlace(q, r) /\ Calmer(q, r)
  BY SameIsCalmer DEF SameButFlags, SameTransports
<1> QED
  BY <1>1, SoundStays, PolledStays, MessagesStay, PlacedStays DEF SameButFlags

(* setHeartbeatTimeout sets its timer only.                                *)
LEMMA HeartbeatTimeoutFields ==
  ASSUME NEW q \in State
  PROVE  LET r == SetHeartbeatTimeout(q) IN
         r \in State /\ SameButFlags(q, r) /\ r.threw = q.threw
<1> DEFINE timer == (q.current = 0 \/ q.browser.kind = "htmlfile")
           r == [q EXCEPT !.heartbeatTimer = timer]
<1>1. timer \in BOOLEAN
  OBVIOUS
<1>2. SetHeartbeatTimeout(q) = r
  BY DEF SetHeartbeatTimeout
<1> HIDE DEF timer
<1>3. r \in State
  BY <1>1, Zenon DEF State
<1>4. SameButFlags(q, r) /\ r.threw = q.threw
  BY DEF State, SameButFlags, SameTransports, SameMessages, SamePlace
<1> QED
  BY <1>2, <1>3, <1>4

(* XHR.open of the current transport.                                      *)
LEMMA OpenTransportStep ==
  ASSUME NEW q \in State, Sound(q), Messages(q), Free(q),
         ~q.browser.defers /\ q.current # 0 => q.gets[q.current] = 0
  PROVE  LET r == OpenTransport(q) IN
         r \in State /\ Connection(r) /\ Messages(r)
<1> DEFINE t == q.current
           on == [q EXCEPT !.connecting = TRUE]
           failed == [on EXCEPT !.threw = TRUE]
           ready == SetBuffer(on, FALSE)
           isOpen == [ready.isOpen EXCEPT ![t] = TRUE]
           up == [ready EXCEPT !.isOpen = isOpen]
           opened == Get(up, t)
           timers == opened.closeTimers \cup {t}
           strays == IF q.connectTimer THEN opened.strays + 1 ELSE opened.strays
           r == [opened EXCEPT !.closeTimers = timers, !.connectTimer = TRUE,
                               !.strays = strays]
<1>1. on \in State
  BY Zenon DEF State
<1>2. SameButFlags(q, on) /\ on.browser = q.browser /\ on.current = q.current
  BY DEF State, SameButFlags, SameTransports, SameMessages, SamePlace
<1>3. OpenTransport(q) =
        IF t = 0 THEN failed
        ELSE [Get([ready EXCEPT !.isOpen[t] = TRUE], t) EXCEPT
                !.closeTimers = @ \cup {t}, !.connectTimer = TRUE,
                !.strays = IF q.connectTimer THEN @ + 1 ELSE @]
  BY DEF OpenTransport, Threw
<1> HIDE DEF on
<1>4. Sound(on) /\ Messages(on) /\ SamePlace(q, on)
  BY <1>1, <1>2, FlagsChange
<1>5. CASE t = 0
  <2>1. failed \in State
    BY <1>1, Zenon DEF State
  <2>2. SameButFlags(on, failed)
    BY <1>1 DEF State, SameButFlags, SameTransports, SameMessages, SamePlace
  <2>3. Sound(failed) /\ Messages(failed) /\ SamePlace(on, failed)
    BY <1>1, <1>4, <2>1, <2>2, FlagsChange
  <2>4. Polled(failed)
    BY <1>2, <1>5, <2>3 DEF Polled, SamePlace, Transport
  <2> QED
    BY <1>3, <1>5, <2>1, <2>3, <2>4 DEF Connection
<1>6. CASE t # 0
  <2>1. t \in Transport /\ t <= q.made /\ t \in Int /\ q.made \in Int
    BY <1>6, BoundsAssumption DEF State, Transport, Sound, Fresh
  <2>2. Placed(on) /\ Free(on) /\ on.current <= on.made
    BY <1>2, <1>4, <2>1 DEF Messages, Free, Steady, Sent, SameButFlags, SameMessages,
                            SamePlace
  <2>3. /\ ready \in State /\ SameTransports(on, ready) /\ Messages(ready)
        /\ ready.connected = on.connected
    BY <1>1, <2>2, SetBufferStep
  <2> HIDE DEF ready
  <2>4. Sound(ready)
    BY <1>1, <1>4, <2>3, SoundStays
  <2>5. /\ ready.current = t /\ ready.made = q.made /\ ready.gets = q.gets
        /\ ready.browser = q.browser
    BY <1>2, <2>3 DEF SameTransports, SamePlace, SameButFlags
  <2>6. /\ isOpen \in [Transport -> BOOLEAN]
        /\ \A u \in Transport : isOpen[u] = IF u = t THEN TRUE ELSE ready.isOpen[u]
    BY <2>1, <2>3 DEF State
  <2>7. up = [ready EXCEPT !.isOpen[t] = TRUE]
    BY <2>3 DEF State
  <2> HIDE DEF isOpen, t
  <2>8. up \in State
    BY <2>3, <2>6, Zenon DEF State
  <2>9. /\ SameMessages(ready, up) /\ SamePlace(ready, up)
        /\ up.connected = ready.connected /\ up.isOpen = isOpen
        /\ up.gets = ready.gets /\ up.orphans = ready.orphans
        /\ up.closeTimers = ready.closeTimers /\ up.deferred = ready.deferred
        /\ up.dropped = ready.dropped /\ up.browser = ready.browser
    BY <2>3 DEF State, SameMessages, SamePlace
  <2> HIDE DEF up
  <2>10. Sound(up)
    <3>1. Fresh(up)
      <4>1. \A u \in Transport : u > up.made => u # t
        BY <2>1, <2>5, <2>9 DEF SamePlace, Transport
      <4> QED
        BY <2>4, <2>6, <2>9, <4>1 DEF Sound, Fresh, SamePlace
    <3>2. NoneForgotten(up)
      BY <2>4, <2>9 DEF Sound, NoneForgotten
    <3>3. Quiet(up)
      BY <2>4, <2>6, <2>9 DEF Sound, Quiet, XhrPolling, SamePlace
    <3> QED
      BY <3>1, <3>2, <3>3 DEF Sound
  <2>11. Messages(up)
    BY <2>3, <2>8, <2>9, MessagesStay
  <2>12. up.current = t /\ t <= up.made /\ (~up.browser.defers => up.gets[t] = 0)
    BY <1>6, <2>1, <2>5, <2>9 DEF SamePlace, t
  <2>13. /\ opened \in State /\ Connection(opened)
         /\ SameMessages(up, opened) /\ SamePlace(up, opened)
         /\ opened.connected = up.connected
    BY <2>1, <2>8, <2>10, <2>12, GetStep
  <2>14. OpenTransport(q) = r
    <3>1. opened = Get([ready EXCEPT !.isOpen[t] = TRUE], t)
      BY <2>7
    <3> HIDE DEF opened
    <3> QED
      BY <1>3, <1>6, <2>13, <3>1 DEF State
  <2> HIDE DEF opened, failed
  <2>15. timers \in SUBSET Transport /\ strays \in Nat
    <3>1. opened.strays \in Nat /\ opened.closeTimers \in SUBSET Transport
      BY <2>13 DEF State
    <3> QED
      BY <2>1, <3>1
  <2> HIDE DEF strays, timers
  <2>16. r \in State
    BY <2>13, <2>15, Zenon DEF State
  <2>17. /\ SameMessages(opened, r) /\ SamePlace(opened, r)
         /\ r.connected = opened.connected /\ r.isOpen = opened.isOpen
         /\ r.gets = opened.gets /\ r.orphans = opened.orphans
         /\ r.closeTimers = timers /\ r.deferred = opened.deferred
         /\ r.dropped = opened.dropped /\ r.browser = opened.browser
    BY <2>13 DEF State, SameMessages, SamePlace
  <2> HIDE DEF r
  <2>18. Fresh(r)
    <3>1. \A u \in Transport : u > opened.made => u # t
      BY <2>1, <2>5, <2>9, <2>13 DEF SamePlace, Transport
    <3> QED
      BY <2>13, <2>17, <3>1 DEF timers, Connection, Sound, Fresh, SamePlace
  <2>19. NoneForgotten(r) /\ Quiet(r)
    BY <2>13, <2>17 DEF Connection, Sound, NoneForgotten, Quiet, XhrPolling, SamePlace
  <2>20. Polled(r)
    BY <2>13, <2>17 DEF timers, Connection, Polled, SamePlace
  <2>21. Messages(r)
    <3>1. Messages(opened)
      BY <2>8, <2>11, <2>13, MessagesStay
    <3> QED
      BY <2>13, <2>16, <2>17, <3>1, MessagesStay
  <2> QED
    BY <2>14, <2>16, <2>18, <2>19, <2>20, <2>21 DEF Connection, Sound
<1> QED
  BY <1>5, <1>6

(* r is q with another transport, or with none when the list is used up.   *)
Made(q, r) ==
  /\ SameMessages(q, r)
  /\ r.made = q.made + 1 /\ r.usedUp = q.usedUp
  /\ r.current = IF q.usedUp THEN 0 ELSE q.made + 1
  /\ r.connected = q.connected /\ r.deferred = q.deferred
  /\ r.isOpen = q.isOpen /\ r.gets = q.gets /\ r.orphans = q.orphans
  /\ r.closeTimers \subseteq q.closeTimers /\ r.dropped = q.dropped

(* The next transport is closed and has no request.                        *)
LEMMA MadeStep ==
  ASSUME NEW q \in State, NEW r \in State, Sound(q), Messages(q), Made(q, r),
         q.made < MaxTransports
  PROVE  /\ Connection(r) /\ Messages(r) /\ Free(r)
         /\ r.current # 0 => r.gets[r.current] = 0
<1>1. /\ q.made \in Nat /\ q.made + 1 \in Nat
      /\ r.browser = q.browser
      /\ r.current # 0 => r.current \in Transport /\ r.current > q.made
      /\ 0 \notin Transport
  BY BoundsAssumption DEF State, Transport, Made, SameMessages
<1>2. Fresh(r)
  <2>1. \A t \in Transport : t > r.made => t > q.made
    BY <1>1 DEF Made, Transport
  <2> QED
    BY <1>1, <2>1 DEF Sound, Fresh, Made
<1>3. NoneForgotten(r) /\ Quiet(r)
  BY <1>1 DEF Sound, NoneForgotten, Quiet, XhrPolling, Made
<1>4. Polled(r)
  BY <1>1 DEF Sound, Fresh, Polled, Made
<1>5. \A p \in Sent(r) : r.owner[p] \in 1 .. q.made /\ r.owner[p] # r.current
  BY <1>1 DEF Messages, Placed, Requests, Sent, Made, SameMessages
<1>6. Requests(r)
  BY <1>1, <1>5 DEF Messages, Placed, Requests, Made, SameMessages
<1>7. Ordered(r)
  BY DEF Messages, Placed, Ordered, Sent, Made, SameMessages
<1>8. OneAtATime(r)
  BY <1>5 DEF Messages, Placed, OneAtATime, Sent, Steady, Made, SameMessages
<1>9. Got(r)
  BY DEF Messages, Placed, Got, Sent, Steady, Made, SameMessages
<1>10. Buffered(r)
  BY DEF Messages, Buffered, Sound, Fresh, Made, SameMessages
<1>11. Free(r)
  BY <1>5 DEF Free
<1>12. r.current # 0 => r.gets[r.current] = 0
  BY <1>1 DEF Sound, Fresh, Made
<1> QED
  BY <1>2, <1>3, <1>4, <1>6, <1>7, <1>8, <1>9, <1>10, <1>11, <1>12
  DEF Connection, Sound, Messages, Placed

(* The inner connect of Socket.connect.                                    *)
LEMMA CreateTransportStep ==
  ASSUME NEW q \in State, Sound(q), Messages(q), q.made < MaxTransports
  PROVE  LET r == CreateTransport(q) IN
         r \in State /\ Connection(r) /\ Messages(r)
<1> DEFINE timers == q.closeTimers \ {q.current}
           next == q.made + 1
           current == IF q.usedUp THEN 0 ELSE next
           new == [q EXCEPT !.closeTimers = timers, !.made = next,
                            !.current = current]
           due == q.deferred + 1
           later == [new EXCEPT !.deferred = due]
           clear == [q EXCEPT !.closeTimers = @ \ {q.current}]
           made == [clear EXCEPT !.made = @ + 1,
                                  !.current = IF q.usedUp THEN 0 ELSE q.made + 1]
<1>1. /\ timers \in SUBSET Transport /\ timers \subseteq q.closeTimers
      /\ next \in 0 .. MaxTransports /\ current \in 0 .. MaxTransports
      /\ due \in Nat
  BY BoundsAssumption DEF State
<1>2. new = made
  BY DEF State
<1>3. CreateTransport(q) =
        IF q.usedUp THEN new
        ELSE IF q.browser.defers THEN [new EXCEPT !.deferred = @ + 1]
        ELSE OpenTransport(new)
  <2>1. CreateTransport(q) =
          IF q.usedUp THEN made
          ELSE IF q.browser.defers THEN [made EXCEPT !.deferred = @ + 1]
          ELSE OpenTransport(made)
    BY DEF CreateTransport
  <2> HIDE DEF new, made
  <2> QED
    BY <1>2, <2>1
<1>4. new.deferred = q.deferred
  BY DEF State
<1> HIDE DEF timers, next, current, due
<1>5. new \in State
  BY <1>1, Zenon DEF State
<1>6. Made(q, new)
  BY <1>1 DEF State, Made, SameMessages, next, current
<1> HIDE DEF new
<1>7. /\ Connection(new) /\ Messages(new) /\ Free(new)
      /\ new.current # 0 => new.gets[new.current] = 0
  BY <1>5, <1>6, MadeStep
<1>8. CASE q.usedUp
  BY <1>3, <1>5, <1>7, <1>8
<1>9. CASE ~q.usedUp /\ q.browser.defers
  <2>1. later = [new EXCEPT !.deferred = @ + 1]
    BY <1>4, <1>5 DEF State, due
  <2>2. later \in State
    BY <1>1, <1>5, Zenon DEF State
  <2>3. /\ SameMessages(new, later) /\ SamePlace(new, later)
        /\ later.connected = new.connected /\ later.isOpen = new.isOpen
        /\ later.gets = new.gets /\ later.orphans = new.orphans
        /\ later.closeTimers = new.closeTimers
        /\ later.dropped = new.dropped /\ later.browser = new.browser
    BY <1>5 DEF State, SameMessages, SamePlace
  <2>4. new.browser = q.browser
    BY <1>6 DEF Made, SameMessages
  <2> HIDE DEF later
  <2>5. Connection(later)
    BY <1>7, <1>9, <2>3, <2>4 DEF Connection, Sound, Fresh, NoneForgotten, Quiet,
                                  XhrPolling, Polled, SamePlace
  <2>6. Messages(later)
    BY <1>5, <1>7, <2>2, <2>3, MessagesStay
  <2> QED
    BY <1>3, <1>9, <2>1, <2>2, <2>5, <2>6
<1>10. CASE ~q.usedUp /\ ~q.browser.defers
  <2>1. CreateTransport(q) = OpenTransport(new)
    BY <1>3, <1>10
  <2> QED
    BY <1>5, <1>7, <2>1, OpenTransportStep DEF Connection
<1> QED
  BY <1>8, <1>9, <1>10

(* Socket.onConnect.                                                       *)
LEMMA OnConnectStep ==
  ASSUME NEW q \in State, Sound(q), Messages(q), q.made # 0
  PROVE  LET r == OnConnect(q) IN
         r \in State /\ Sound(r) /\ Messages(r) /\ Calmer(q, r)
<1> DEFINE on == [q EXCEPT !.connected = TRUE, !.connecting = FALSE]
           flushed == IF q.doBuffer THEN on ELSE SetBuffer(on, FALSE)
           timer == flushed.connectTimer /\ q.browser.defers /\ ~q.once
           again == flushed.reconnecting /\ q.current = 0
           throws == (q.reconnecting /\ q.current = 0)
           r == [flushed EXCEPT !.connectTimer = timer, !.once = FALSE,
                                !.reconnecting = again, !.threw = throws]
<1>1. on \in State
  BY Zenon DEF State
<1>2. /\ SameTransports(q, on) /\ SameMessages(q, on) /\ on.connected
  BY DEF State, SameTransports, SameMessages, SamePlace
<1>3. OnConnect(q) = IF q.connected THEN q
                     ELSE IF flushed.threw THEN flushed
                     ELSE [flushed EXCEPT !.connectTimer = @ /\ q.browser.defers /\ ~q.once,
                                          !.once = FALSE,
                                          !.reconnecting = @ /\ q.current = 0,
                                          !.threw = (q.reconnecting /\ q.current = 0)]
  BY DEF OnConnect
<1> HIDE DEF on
<1>4. CASE q.connected
  <2>1. Calmer(q, q)
    BY DEF Calmer, SamePlace
  <2> QED
    BY <1>3, <1>4, <2>1
<1>5. CASE ~q.connected
  <2>1. Sound(on) /\ Calmer(q, on)
    BY <1>1, <1>2, SoundStays, SameIsCalmer
  <2>2. Placed(on)
    BY <1>1, <1>2, PlacedStays DEF Messages, SameTransports
  <2>3. /\ flushed \in State /\ SameTransports(on, flushed) /\ Messages(flushed)
        /\ flushed.connected = on.connected
    <3>1. CASE q.doBuffer
      <4>1. flushed = on
        BY <3>1
      <4>2. Messages(on)
        BY <1>2, <2>2, <3>1 DEF Messages, Buffered, SameMessages
      <4> QED
        BY <1>1, <4>1, <4>2 DEF SameTransports, SamePlace
    <3>2. CASE ~q.doBuffer
      <4>1. flushed = SetBuffer(on, FALSE)
        BY <3>2
      <4>2. Free(on)
        BY <1>2, <2>2, <3>2 DEF Free, Placed, OneAtATime, SameMessages
      <4>3. on.current <= on.made
        BY <2>1 DEF Sound, Fresh
      <4> HIDE DEF flushed
      <4> QED
        BY <1>1, <2>2, <4>1, <4>2, <4>3, SetBufferStep
    <3> QED
      BY <3>1, <3>2
  <2> HIDE DEF flushed
  <2>4. Sound(flushed) /\ Calmer(q, flushed)
    BY <1>1, <2>1, <2>3, SoundStays, SameIsCalmer, CalmerAgain
  <2>5. CASE flushed.threw
    BY <1>3, <1>5, <2>3, <2>4, <2>5
  <2>6. CASE ~flushed.threw
    <3>1. OnConnect(q) = r
      BY <1>3, <1>5, <2>3, <2>6 DEF State
    <3>2. timer \in BOOLEAN /\ again \in BOOLEAN /\ throws \in BOOLEAN
      OBVIOUS
    <3> HIDE DEF timer, again, throws
    <3>3. r \in State
      BY <2>3, <3>2, Zenon DEF State
    <3>4. SameButFlags(flushed, r)
      BY <2>3 DEF State, SameButFlags, SameTransports, SameMessages, SamePlace
    <3> HIDE DEF r
    <3>5. Sound(r) /\ Messages(r) /\ Calmer(flushed, r)
      BY <2>3, <2>4, <3>3, <3>4, FlagsChange
    <3> QED
      BY <2>4, <3>1, <3>3, <3>5, CalmerAgain
  <2> QED
    BY <2>5, <2>6
<1> QED
  BY <1>4, <1>5

(***************************************************************************)
(* What comes in.                                                          *)
(***************************************************************************)

(* A packet.                                                               *)
LEMMA OnPacketStep ==
  ASSUME NEW q \in State, NEW t \in Transport, NEW packet \in Data,
         Sound(q), Messages(q), t <= q.made
  PROVE  LET r == OnPacket(q, t, packet) IN
         r \in State /\ Sound(r) /\ Messages(r) /\ Calmer(q, r)
<1> DEFINE timed == SetHeartbeatTimeout(q)
           revived == IF q.connected THEN timed.revived
                      ELSE (t # q.current \/ ~q.isOpen[t])
           told == [timed EXCEPT !.revived = revived]
<1>1. timed \in State /\ SameButFlags(q, timed) /\ timed.threw = q.threw
  BY HeartbeatTimeoutFields
<1>2. OnPacket(q, t, packet) =
        CASE packet = "connect"    ->
               OnConnect([timed EXCEPT !.revived =
                 IF q.connected THEN @ ELSE t # q.current \/ ~q.isOpen[t]])
          [] packet = "disconnect" -> SocketOnDisconnect(timed, TRUE)
          [] packet = "heartbeat"  -> PostMessages(timed, t, <<>>)
          [] OTHER                 -> timed
  BY DEF OnPacket
<1> HIDE DEF timed
<1>3. Sound(timed) /\ Messages(timed) /\ Calmer(q, timed) /\ timed.made = q.made
  BY <1>1, FlagsChange DEF SamePlace
<1>4. CASE packet = "connect"
  <2>1. OnPacket(q, t, packet) = OnConnect(told)
    BY <1>1, <1>2, <1>4 DEF State
  <2>2. revived \in BOOLEAN
    BY <1>1 DEF State
  <2> HIDE DEF revived
  <2>3. told \in State
    BY <1>1, <2>2, Zenon DEF State
  <2>4. SameButFlags(timed, told)
    BY <1>1 DEF State, SameButFlags, SameTransports, SameMessages, SamePlace
  <2> HIDE DEF told
  <2>5. Sound(told) /\ Messages(told) /\ Calmer(timed, told) /\ told.made = timed.made
    BY <1>1, <1>3, <2>3, <2>4, FlagsChange DEF SamePlace
  <2>6. told.made # 0
    BY <1>3, <2>5 DEF State, Transport
  <2>7. /\ OnConnect(told) \in State /\ Sound(OnConnect(told))
        /\ Messages(OnConnect(told)) /\ Calmer(told, OnConnect(told))
    BY <2>3, <2>5, <2>6, OnConnectStep
  <2>8. Calmer(q, OnConnect(told))
    BY <1>3, <2>5, <2>7, CalmerAgain
  <2> QED
    BY <2>1, <2>7, <2>8
<1>5. CASE packet = "disconnect"
  <2> DEFINE yes == TRUE
             off == SocketOnDisconnect(timed, yes)
  <2>1. OnPacket(q, t, packet) = off
    BY <1>2, <1>5
  <2>2. yes \in BOOLEAN
    OBVIOUS
  <2> HIDE DEF yes
  <2>3. /\ off \in State /\ Sound(off) /\ Calmer(timed, off)
        /\ SameMessages(timed, off) /\ ~off.connected
    BY <1>1, <1>3, <2>2, SocketOnDisconnectStep
  <2> HIDE DEF off
  <2>4. Messages(off)
    BY <1>1, <1>3, <2>3, MessagesStay DEF Calmer
  <2> QED
    BY <1>3, <2>1, <2>3, <2>4, CalmerAgain
<1>6. CASE packet = "heartbeat"
  <2> DEFINE post == PostMessages(timed, t, <<>>)
  <2>1. OnPacket(q, t, packet) = post
    BY <1>2, <1>6
  <2>2. /\ post \in State /\ SameTransports(timed, post) /\ Messages(post)
        /\ post.connected = timed.connected
    BY <1>1, <1>3, HeartbeatStep
  <2> HIDE DEF post
  <2>3. Sound(post) /\ Calmer(timed, post)
    BY <1>1, <1>3, <2>2, SoundStays, SameIsCalmer
  <2> QED
    BY <1>3, <2>1, <2>2, <2>3, CalmerAgain
<1>7. CASE packet \notin {"connect", "disconnect", "heartbeat"}
  <2>1. OnPacket(q, t, packet) = timed
    BY <1>2, <1>7
  <2> QED
    BY <1>1, <1>3, <2>1
<1> QED
  BY <1>4, <1>5, <1>6, <1>7

(* Data come in on transport t.  A request that was answered is gone; only *)
(* htmlfile's goes on.                                                     *)
LEMMA AnsweredStep ==
  ASSUME NEW q \in State, NEW t \in Transport, NEW packet \in Data,
         NEW throws \in BOOLEAN,
         Sound(q), Messages(q), t <= q.made,
         \A u \in Transport : q.isOpen[u] /\ u = q.current /\ u # t =>
           q.gets[u] = 1 \/ u \in q.closeTimers \/ u \in q.dropped,
         q.browser.kind = "htmlfile" => q.gets[t] = 1,
         ~q.browser.defers /\ q.browser.kind \notin {"htmlfile", "jsonp"} =>
           q.gets[t] = 0
  PROVE  LET r == Answered(q, t, packet, throws) IN
         r \in State /\ Connection(r) /\ Messages(r)
<1> DEFINE timers == IF Waiting(q) THEN q.closeTimers \cup {t}
                     ELSE q.closeTimers \ {t}
           timed == [q EXCEPT !.closeTimers = timers]
           data == OnPacket(timed, t, packet)
           dropped == IF Waiting(q) \/ t # q.current THEN data.dropped
                      ELSE data.dropped \cup {t}
           lost == [data EXCEPT !.dropped = dropped]
<1>1. /\ timers \in SUBSET Transport
      /\ \A u \in Transport : u # t => (u \in timers <=> u \in q.closeTimers)
      /\ Waiting(q) => t \in timers
  BY DEF State
<1>2. OnData(q, t, packet) = data
  BY DEF OnData, State
<1> HIDE DEF timers
<1>3. timed \in State
  BY <1>1, Zenon DEF State
<1>4. /\ SameMessages(q, timed) /\ SamePlace(q, timed)
      /\ timed.connected = q.connected /\ timed.isOpen = q.isOpen
      /\ timed.gets = q.gets /\ timed.orphans = q.orphans
      /\ timed.closeTimers = timers /\ timed.deferred = q.deferred
      /\ timed.dropped = q.dropped /\ timed.browser = q.browser
  BY DEF State, SameMessages, SamePlace
<1> HIDE DEF timed
<1>5. Sound(timed)
  <2>1. Fresh(timed)
    <3>1. \A u \in Transport : u > q.made => u # t
      BY DEF State, Transport
    <3> QED
      BY <1>1, <1>4, <3>1 DEF Sound, Fresh, SamePlace
  <2> QED
    BY <1>4, <2>1 DEF Sound, NoneForgotten, Quiet, XhrPolling, SamePlace
<1>6. Messages(timed) /\ t <= timed.made
  BY <1>3, <1>4, MessagesStay DEF SamePlace
<1>7. data \in State /\ Sound(data) /\ Messages(data) /\ Calmer(timed, data)
  BY <1>3, <1>5, <1>6, OnPacketStep
<1>8. Answered(q, t, packet, throws) =
        IF q.browser.kind = "htmlfile" THEN data
        ELSE IF throws \/ data.threw
        THEN [data EXCEPT !.dropped =
                IF Waiting(q) \/ t # q.current THEN @ ELSE @ \cup {t}]
        ELSE IF data.isOpen[t] THEN Get(data, t)
        ELSE data
  BY <1>2 DEF Answered
<1> HIDE DEF data
<1>9. /\ SamePlace(q, data) /\ data.browser = q.browser
      /\ data.dropped = q.dropped
      /\ data.isOpen[t] => data.gets[t] = q.gets[t]
      /\ data.isOpen[t] /\ Waiting(q) => t \in data.closeTimers
  BY <1>1, <1>4, <1>7 DEF Calmer, SamePlace
<1>10. \A u \in Transport : data.isOpen[u] /\ u = data.current /\ u # t =>
         data.gets[u] = 1 \/ u \in data.closeTimers \/ u \in data.dropped
  BY <1>1, <1>4, <1>7 DEF Calmer, SamePlace
<1>11. CASE q.browser.kind = "htmlfile"
  <2>1. Polled(data)
    BY <1>9, <1>10, <1>11 DEF Polled
  <2> QED
    BY <1>7, <1>8, <1>11, <2>1 DEF Connection
<1>12. CASE q.browser.kind # "htmlfile" /\ (throws \/ data.threw)
  <2>1. Answered(q, t, packet, throws) = lost
    BY <1>7, <1>8, <1>12 DEF State
  <2>2. dropped \in SUBSET Transport
    BY <1>7 DEF State
  <2>3. data.dropped \subseteq dropped /\ (Waiting(q) \/ t # q.current \/ t \in dropped)
    OBVIOUS
  <2> HIDE DEF dropped
  <2>4. lost \in State
    BY <1>7, <2>2, Zenon DEF State
  <2>5. /\ SameMessages(data, lost) /\ SamePlace(data, lost)
        /\ lost.connected = data.connected /\ lost.isOpen = data.isOpen
        /\ lost.gets = data.gets /\ lost.orphans = data.orphans
        /\ lost.closeTimers = data.closeTimers /\ lost.deferred = data.deferred
        /\ lost.dropped = dropped /\ lost.browser = data.browser
    BY <1>7 DEF State, SameMessages, SamePlace
  <2> HIDE DEF lost
  <2>6. Sound(lost)
    BY <1>7, <2>5 DEF Sound, Fresh, NoneForgotten, Quiet, XhrPolling, SamePlace
  <2>7. Polled(lost)
    BY <1>9, <1>10, <2>3, <2>5 DEF Polled, SamePlace
  <2>8. Messages(lost)
    BY <1>7, <2>4, <2>5, MessagesStay
  <2> QED
    BY <2>1, <2>4, <2>6, <2>7, <2>8 DEF Connection
<1>13. CASE q.browser.kind # "htmlfile" /\ ~(throws \/ data.threw)
  <2>1. CASE data.isOpen[t]
    <3>1. Answered(q, t, packet, throws) = Get(data, t)
      BY <1>8, <1>13, <2>1
    <3>2. t = data.current \/ Polled(data)
      BY <1>10 DEF Polled
    <3>3. t <= data.made
      BY <1>9 DEF SamePlace
    <3>4. ~data.browser.defers /\ data.browser.kind # "jsonp" => data.gets[t] = 0
      BY <1>9, <1>13, <2>1
    <3>5. /\ Get(data, t) \in State /\ Connection(Get(data, t))
          /\ SameMessages(data, Get(data, t)) /\ SamePlace(data, Get(data, t))
          /\ Get(data, t).connected = data.connected
      BY <1>7, <3>2, <3>3, <3>4, GetStep
    <3>6. Messages(Get(data, t))
      BY <1>7, <3>5, MessagesStay
    <3> QED
      BY <3>1, <3>5, <3>6
  <2>2. CASE ~data.isOpen[t]
    <3>1. Answered(q, t, packet, throws) = data
      BY <1>8, <1>13, <2>2
    <3>2. Polled(data)
      BY <1>10, <2>2 DEF Polled
    <3> QED
      BY <1>7, <3>1, <3>2 DEF Connection
  <2> QED
    BY <2>1, <2>2
<1> QED
  BY <1>11, <1>12, <1>13

(***************************************************************************)
(* The events.                                                             *)
(***************************************************************************)

(* At the end of an event, the requests are within their bound, and an     *)
(* exception is forgotten.                                                 *)
LEMMA AtTheEnd ==
  ASSUME NEW q \in State, Connection(q), Messages(q), Becomes(q)
  PROVE  IInv'
<1> DEFINE r == [q EXCEPT !.threw = FALSE]
<1>1. q.posts <= MaxPosts /\ q.requests <= MaxRequests /\ s' = r
  BY DEF Becomes
<1>2. r \in State
  BY Zenon DEF State
<1>3. /\ SameButFlags(q, r) /\ ~r.threw
      /\ r.posts = q.posts /\ r.requests = q.requests
  BY DEF State, SameButFlags, SameTransports, SameMessages, SamePlace
<1> HIDE DEF r
<1>4. Connection(r) /\ Messages(r)
  BY <1>2, <1>3, FlagsChange DEF Connection
<1>5. r.posts \in 0 .. MaxPosts /\ r.requests \in 0 .. MaxRequests
  BY <1>1, <1>2, <1>3 DEF State
<1>6. /\ r.pending \in SUBSET Post /\ r.deaf \in SUBSET Post
      /\ r.taken \in SUBSET Post
  <2>1. r.pending \cup r.deaf \cup r.taken \subseteq 1 .. r.posts
    BY <1>4 DEF Messages, Placed, Requests
  <2>2. MaxPosts \in Nat
    BY BoundsAssumption DEF MaxPosts
  <2>3. 1 .. r.posts \subseteq Post
    BY <1>5, <2>2 DEF Post
  <2> QED
    BY <2>1, <2>3
<1>7. TypeOK'
  <2>1. r \in [browser : Browser,
               connected : BOOLEAN, connecting : BOOLEAN, reconnecting : BOOLEAN,
               doBuffer : BOOLEAN, buffer : Seq(1 .. MaxEmits),
               requests : 0 .. MaxRequests,
               made : 0 .. MaxTransports, current : 0 .. MaxTransports,
               usedUp : BOOLEAN, once : BOOLEAN, connectTimer : BOOLEAN,
               strays : Nat, heartbeatTimer : BOOLEAN, deferred : Nat,
               isOpen : [Transport -> BOOLEAN], closeTimers : SUBSET Transport,
               gets : [Transport -> 0 .. 1], orphans : [Transport -> Nat],
               posts : 0 .. MaxPosts, owner : [Post -> 0 .. MaxTransports],
               messages : [Post -> Seq(1 .. MaxEmits)],
               pending : SUBSET Post, deaf : SUBSET Post, taken : SUBSET Post,
               emitted : 0 .. MaxEmits, got : [Transport -> Seq(1 .. MaxEmits)],
               threw : BOOLEAN, stale : BOOLEAN, dropped : SUBSET Transport,
               revived : BOOLEAN]
    BY <1>2, <1>5, <1>6 DEF State
  <2> QED
    BY <1>1, <2>1 DEF TypeOK
<1> QED
  BY <1>1, <1>3, <1>4, <1>7 DEF IInv

(* At first there is nothing.                                              *)
LEMMA InitIInv == Init => IInv
<1> SUFFICES ASSUME Init
             PROVE  IInv
  OBVIOUS
<1> DEFINE closed == [t \in Transport |-> FALSE]
           none == [t \in Transport |-> 0]
           noOwner == [p \in Post |-> 0]
           noMessages == [p \in Post |-> <<>>]
           nothing == [t \in Transport |-> <<>>]
<1>1. PICK b \in Browser :
        s = [browser |-> b,
             connected |-> FALSE, connecting |-> FALSE, reconnecting |-> FALSE,
             doBuffer |-> FALSE, buffer |-> <<>>, requests |-> 0, made |-> 0,
             current |-> 0, usedUp |-> FALSE, once |-> FALSE,
             connectTimer |-> FALSE, strays |-> 0, heartbeatTimer |-> FALSE,
             deferred |-> 0, isOpen |-> closed, closeTimers |-> {},
             gets |-> none, orphans |-> none,
             posts |-> 0, owner |-> noOwner,
             messages |-> noMessages, pending |-> {}, deaf |-> {},
             taken |-> {}, emitted |-> 0, got |-> nothing,
             threw |-> FALSE, stale |-> FALSE, dropped |-> {},
             revived |-> FALSE]
  BY DEF Init
<1>2. MaxPosts \in Nat
  BY BoundsAssumption DEF MaxPosts
<1>3. /\ 0 \in 0 .. MaxTransports /\ 0 \in 0 .. MaxPosts /\ 0 \in 0 .. MaxEmits
      /\ 0 \in 0 .. MaxRequests /\ 0 \in Nat
      /\ <<>> \in Seq(1 .. MaxEmits)
      /\ closed \in [Transport -> BOOLEAN]
      /\ none \in [Transport -> 0 .. 1]
      /\ none \in [Transport -> Nat]
      /\ noOwner \in [Post -> 0 .. MaxTransports]
      /\ noMessages \in [Post -> Seq(1 .. MaxEmits)]
      /\ nothing \in [Transport -> Seq(1 .. MaxEmits)]
  BY <1>2, BoundsAssumption
<1>4. \A t \in Transport : ~closed[t] /\ none[t] = 0 /\ nothing[t] = <<>>
  OBVIOUS
<1> HIDE DEF closed, none, noOwner, noMessages, nothing
<1>5. TypeOK
  BY <1>1, <1>3 DEF TypeOK
<1>6. /\ ~s.connected /\ s.current = 0 /\ s.made = 0 /\ s.deferred = 0 /\ ~s.threw
      /\ \A t \in Transport : /\ ~s.isOpen[t] /\ s.gets[t] = 0
                              /\ s.orphans[t] = 0 /\ s.got[t] = <<>>
      /\ s.closeTimers = {} /\ s.buffer = <<>> /\ s.posts = 0
      /\ s.pending = {} /\ s.deaf = {} /\ s.taken = {}
  BY <1>1, <1>4
<1>7. Sent(s) = {}
  BY <1>6 DEF Sent, Post
<1>8. Connection(s)
  BY <1>6 DEF Connection, Sound, Fresh, Quiet, NoneForgotten, Polled
<1>9. Messages(s)
  BY <1>6, <1>7 DEF Messages, Buffered, Placed, Requests, Ordered,
                    OneAtATime, Got, Rises
<1> QED
  BY <1>5, <1>6, <1>8, <1>9 DEF IInv

(* Between two events the requests are within their bound.                 *)
LEMMA InState == IInv => s \in State /\ ~s.threw /\ Connection(s) /\ Messages(s)
BY DEF IInv, TypeOK, State, Post

(* An event that sets a flag or counts a handshake.                        *)
LEMMA FlagEvent ==
  ASSUME IInv, NEW r \in State, SameButFlags(s, r), Becomes(r)
  PROVE  IInv'
BY InState, FlagsChange, AtTheEnd DEF Connection

(* connect() asks for a handshake.                                         *)
LEMMA ConnectStep == IInv /\ Connect => IInv'
<1> SUFFICES ASSUME IInv, Connect
             PROVE  IInv'
  OBVIOUS
<1> DEFINE more == s.requests + 1
           r == [s EXCEPT !.connecting = TRUE, !.requests = more]
<1>1. s \in State /\ more \in Nat
  BY InState DEF State
<1>2. Becomes(r)
  BY <1>1 DEF Connect, State
<1> HIDE DEF more
<1>3. r \in State
  BY <1>1, Zenon DEF State
<1>4. SameButFlags(s, r)
  BY <1>1 DEF State, SameButFlags, SameTransports, SameMessages, SamePlace
<1> QED
  BY <1>2, <1>3, <1>4, FlagEvent

(* A reconnection gives up.                                                *)
LEMMA ReconnectionFailsStep == IInv /\ ReconnectionFails => IInv'
<1> SUFFICES ASSUME IInv, ReconnectionFails
             PROVE  IInv'
  OBVIOUS
<1> DEFINE r == [s EXCEPT !.reconnecting = FALSE]
<1>1. s \in State /\ Becomes(r)
  BY InState DEF ReconnectionFails
<1>2. r \in State
  BY <1>1, Zenon DEF State
<1>3. SameButFlags(s, r)
  BY <1>1 DEF State, SameButFlags, SameTransports, SameMessages, SamePlace
<1> QED
  BY <1>1, <1>2, <1>3, FlagEvent

(* A handshake less.                                                       *)
LEMMA Shaken ==
  ASSUME IInv, s.requests > 0
  PROVE  LET r == [s EXCEPT !.requests = @ - 1] IN
         r \in State /\ SameButFlags(s, r)
<1> DEFINE fewer == s.requests - 1
           r == [s EXCEPT !.requests = fewer]
<1>1. s \in State /\ fewer \in Nat
  BY InState DEF State
<1>2. r = [s EXCEPT !.requests = @ - 1]
  BY <1>1 DEF State
<1> HIDE DEF fewer
<1>3. r \in State
  BY <1>1, Zenon DEF State
<1>4. SameButFlags(s, r)
  BY <1>1 DEF State, SameButFlags, SameTransports, SameMessages, SamePlace
<1> QED
  BY <1>2, <1>3, <1>4

(* A handshake that is refused.                                            *)
LEMMA HandshakeRefusedStep == IInv /\ HandshakeRefused => IInv'
BY Shaken, FlagEvent DEF HandshakeRefused

(* A handshake that fails ends the attempt.                                *)
LEMMA HandshakeFailsStep == IInv /\ HandshakeFails => IInv'
<1> SUFFICES ASSUME IInv, HandshakeFails
             PROVE  IInv'
  OBVIOUS
<1> DEFINE fewer == s.requests - 1
           r == [s EXCEPT !.requests = fewer, !.connecting = FALSE]
<1>1. s \in State /\ s.requests > 0 /\ fewer \in Nat
  BY InState DEF HandshakeFails, State
<1>2. Becomes(r)
  BY <1>1 DEF HandshakeFails, State
<1> HIDE DEF fewer
<1>3. r \in State
  BY <1>1, Zenon DEF State
<1>4. SameButFlags(s, r)
  BY <1>1 DEF State, SameButFlags, SameTransports, SameMessages, SamePlace
<1> QED
  BY <1>2, <1>3, <1>4, FlagEvent

(* A transport is made, and opened at once or when the page has loaded.    *)
LEMMA HandshakeDoneStep == IInv /\ HandshakeDone => IInv'
<1> SUFFICES ASSUME IInv, HandshakeDone
             PROVE  IInv'
  OBVIOUS
<1> DEFINE shaken == [s EXCEPT !.requests = @ - 1]
           timed == SetHeartbeatTimeout(shaken)
           made == CreateTransport(timed)
           r == [made EXCEPT !.once = s.browser.defers]
<1>1. /\ s \in State /\ Connection(s) /\ Messages(s)
      /\ s.requests > 0 /\ s.made < MaxTransports /\ Becomes(r)
  BY InState DEF HandshakeDone
<1>2. shaken \in State /\ SameButFlags(s, shaken)
  BY <1>1, Shaken
<1> HIDE DEF shaken
<1>3. timed \in State /\ SameButFlags(shaken, timed)
  BY <1>2, HeartbeatTimeoutFields
<1> HIDE DEF timed
<1>4. Sound(timed) /\ Messages(timed) /\ timed.made = s.made
  BY <1>1, <1>2, <1>3, FlagsChange DEF Connection, SamePlace
<1>5. made \in State /\ Connection(made) /\ Messages(made)
  BY <1>1, <1>3, <1>4, CreateTransportStep
<1>6. s.browser.defers \in BOOLEAN
  BY <1>1 DEF State, Browser
<1> HIDE DEF made
<1> DEFINE flag == s.browser.defers
           z == [made EXCEPT !.once = flag]
<1>7. Becomes(z)
  BY <1>1
<1> HIDE DEF flag, r
<1>8. z \in State
  <2>1. flag \in BOOLEAN
    BY <1>6 DEF flag
  <2> QED
    BY <1>5, <2>1, Zenon DEF State
<1>9. SameButFlags(made, z)
  BY <1>5 DEF State, SameButFlags, SameTransports, SameMessages, SamePlace
<1> HIDE DEF z
<1>10. Connection(z) /\ Messages(z)
  BY <1>5, <1>8, <1>9, FlagsChange DEF Connection
<1> QED
  BY <1>7, <1>8, <1>10, AtTheEnd

(* The last attempt of a reconnection.                                     *)
LEMMA RedoTransportsStep == IInv /\ RedoTransports => IInv'
<1> SUFFICES ASSUME IInv, RedoTransports
             PROVE  IInv'
  OBVIOUS
<1> DEFINE more == s.requests + 1
           next == s.made + 1
           current == IF s.usedUp THEN 0 ELSE next
           r == [s EXCEPT !.connecting = TRUE, !.requests = more,
                          !.made = next, !.current = current]
<1>1. /\ s \in State /\ Sound(s) /\ Messages(s)
      /\ s.made < MaxTransports
  BY InState DEF RedoTransports, Connection
<1>2. /\ more \in Nat /\ next \in 0 .. MaxTransports
      /\ current \in 0 .. MaxTransports
  BY <1>1, BoundsAssumption DEF State
<1>3. Becomes(r)
  <2>1. [s EXCEPT !.connecting = TRUE, !.requests = @ + 1, !.made = @ + 1,
                  !.current = IF s.usedUp THEN 0 ELSE s.made + 1] = r
    BY <1>1 DEF State
  <2> HIDE DEF r
  <2> QED
    BY <2>1 DEF RedoTransports
<1> HIDE DEF more, next, current
<1>4. r \in State
  BY <1>1, <1>2, Zenon DEF State
<1>5. Made(s, r)
  BY <1>1 DEF State, Made, SameMessages, next, current
<1> HIDE DEF r
<1>6. Connection(r) /\ Messages(r)
  BY <1>1, <1>4, <1>5, MadeStep
<1> QED
  BY <1>3, <1>4, <1>6, AtTheEnd

(* The page has loaded.                                                    *)
LEMMA DeferredOpenStep == IInv /\ DeferredOpen => IInv'
<1> SUFFICES ASSUME IInv, DeferredOpen
             PROVE  IInv'
  OBVIOUS
<1> DEFINE left == s.deferred - 1
           q == [s EXCEPT !.deferred = left]
           r == OpenTransport(q)
<1>1. /\ s \in State /\ Connection(s) /\ Messages(s)
      /\ s.deferred > 0 /\ left \in Nat
  BY InState DEF DeferredOpen, State
<1>2. Becomes(r)
  <2>1. q = [s EXCEPT !.deferred = @ - 1]
    BY <1>1 DEF State
  <2> HIDE DEF q
  <2> QED
    BY <2>1 DEF DeferredOpen
<1>3. s.browser.defers
  BY <1>1 DEF Connection, Sound, Fresh
<1> HIDE DEF left
<1>4. q \in State
  BY <1>1, Zenon DEF State
<1>5. /\ SameMessages(s, q) /\ SamePlace(s, q) /\ q.connected = s.connected
      /\ q.isOpen = s.isOpen /\ q.gets = s.gets /\ q.orphans = s.orphans
      /\ q.closeTimers = s.closeTimers /\ q.browser = s.browser
  BY <1>1 DEF State, SameMessages, SamePlace
<1> HIDE DEF q
<1>6. Sound(q)
  BY <1>1, <1>3, <1>5 DEF Connection, Sound, Fresh, NoneForgotten, Quiet,
                          XhrPolling, SamePlace
<1>7. Messages(q) /\ Free(q)
  BY <1>1, <1>3, <1>4, <1>5, MessagesStay DEF Free, Steady
<1>8. r \in State /\ Connection(r) /\ Messages(r)
  BY <1>3, <1>4, <1>5, <1>6, <1>7, OpenTransportStep
<1> QED
  BY <1>2, <1>8, AtTheEnd

(* A connect timeout leaves the transport open.                            *)
LEMMA GiveUpStep ==
  ASSUME NEW q \in State, Connection(q), Messages(q), GiveUp(q)
  PROVE  IInv'
<1>1. PICK used \in {q.usedUp, TRUE} :
        Becomes(IF q.connected THEN q
                ELSE [q EXCEPT !.connecting = FALSE, !.usedUp = used])
  BY DEF GiveUp
<1> DEFINE r == [q EXCEPT !.connecting = FALSE, !.usedUp = used]
<1>2. CASE q.connected
  BY <1>1, <1>2, AtTheEnd
<1>3. CASE ~q.connected
  <2>1. used \in BOOLEAN /\ (q.usedUp => used)
    BY DEF State
  <2>2. r \in State
    BY <2>1, Zenon DEF State
  <2>3. /\ SameMessages(q, r) /\ r.made = q.made /\ r.current = q.current
        /\ r.usedUp = used /\ r.connected = q.connected
        /\ r.isOpen = q.isOpen /\ r.gets = q.gets /\ r.orphans = q.orphans
        /\ r.closeTimers = q.closeTimers /\ r.deferred = q.deferred
        /\ r.dropped = q.dropped /\ r.browser = q.browser
    BY DEF State, SameMessages
  <2>4. Becomes(r)
    BY <1>1, <1>3
  <2> HIDE DEF r
  <2>5. Connection(r)
    BY <2>1, <2>3 DEF Connection, Sound, Fresh, NoneForgotten, Quiet, XhrPolling, Polled
  <2>6. Messages(r)
    <3>1. Buffered(r) /\ Requests(r)
      BY <2>3 DEF Messages, Placed, Buffered, Requests, Sent, SameMessages
    <3>2. Ordered(r)
      BY <2>3 DEF Messages, Placed, Ordered, Sent, SameMessages
    <3>3. OneAtATime(r)
      BY <2>3 DEF Messages, Placed, OneAtATime, Sent, Steady, SameMessages
    <3>4. Got(r)
      BY <2>3 DEF Messages, Placed, Got, Sent, Steady, SameMessages
    <3> QED
      BY <3>1, <3>2, <3>3, <3>4 DEF Messages, Placed
  <2> QED
    BY <2>2, <2>4, <2>5, <2>6, AtTheEnd
<1> QED
  BY <1>2, <1>3

(* The connect timeout set last, or an earlier one.                        *)
LEMMA ConnectTimeoutStep == IInv /\ ConnectTimeout => IInv'
<1> SUFFICES ASSUME IInv, ConnectTimeout
             PROVE  IInv'
  OBVIOUS
<1> DEFINE last == [s EXCEPT !.connectTimer = FALSE]
           fewer == s.strays - 1
           earlier == [s EXCEPT !.strays = fewer]
<1>1. s \in State /\ Connection(s) /\ Messages(s)
  BY InState
<1>2. GiveUp(last) \/ (s.strays > 0 /\ GiveUp(earlier))
  BY <1>1 DEF ConnectTimeout, State
<1>3. CASE GiveUp(last)
  <2>1. last \in State
    BY <1>1, Zenon DEF State
  <2>2. SameButFlags(s, last)
    BY <1>1 DEF State, SameButFlags, SameTransports, SameMessages, SamePlace
  <2> HIDE DEF last
  <2> QED
    BY <1>1, <1>3, <2>1, <2>2, FlagsChange, GiveUpStep DEF Connection
<1>4. CASE s.strays > 0 /\ GiveUp(earlier)
  <2>1. fewer \in Nat
    BY <1>1, <1>4 DEF State
  <2> HIDE DEF fewer
  <2>2. earlier \in State
    BY <1>1, <2>1, Zenon DEF State
  <2>3. SameButFlags(s, earlier)
    BY <1>1 DEF State, SameButFlags, SameTransports, SameMessages, SamePlace
  <2> HIDE DEF earlier
  <2> QED
    BY <1>1, <1>4, <2>2, <2>3, FlagsChange, GiveUpStep DEF Connection
<1> QED
  BY <1>2, <1>3, <1>4

(* A transport closes and the event ends.                                  *)
LEMMA Closing ==
  ASSUME NEW q \in State, NEW t \in Transport,
         Sound(q), Messages(q), ~q.threw, t <= q.made, t = q.current \/ Polled(q),
         Becomes(OnClose(q, t, FALSE))
  PROVE  IInv'
<1> DEFINE no == FALSE
           r == OnClose(q, t, no)
<1>1. Becomes(r) /\ no \in BOOLEAN
  OBVIOUS
<1> HIDE DEF no
<1>2. /\ r \in State /\ Connection(r) /\ SameMessages(q, r)
      /\ SamePlace(q, r) /\ ~r.connected
  BY <1>1, OnCloseStep
<1> HIDE DEF r
<1>3. Messages(r)
  BY <1>2, MessagesStay
<1> QED
  BY <1>1, <1>2, <1>3, AtTheEnd

(* The heartbeat timeout closes the current transport.                     *)
LEMMA HeartbeatTimeoutStep == IInv /\ HeartbeatTimeout => IInv'
<1> SUFFICES ASSUME IInv, HeartbeatTimeout
             PROVE  IInv'
  OBVIOUS
<1> DEFINE fired == [s EXCEPT !.heartbeatTimer = FALSE]
<1>1. s \in State /\ ~s.threw /\ Connection(s) /\ Messages(s)
  BY InState
<1>2. Becomes(IF s.current = 0 THEN fired ELSE OnClose(fired, s.current, FALSE))
  BY DEF HeartbeatTimeout
<1>3. fired \in State
  BY <1>1, Zenon DEF State
<1>4. SameButFlags(s, fired) /\ ~fired.threw /\ fired.current = s.current
  BY <1>1 DEF State, SameButFlags, SameTransports, SameMessages, SamePlace
<1> HIDE DEF fired
<1>5. CASE s.current = 0
  BY <1>2, <1>3, <1>4, <1>5, FlagEvent
<1>6. CASE s.current # 0
  <2>1. s.current \in Transport
    BY <1>1, <1>6, BoundsAssumption DEF State, Transport
  <2>2. Sound(fired) /\ Messages(fired) /\ s.current <= fired.made
    BY <1>1, <1>3, <1>4, FlagsChange DEF Connection, Sound, Fresh, SamePlace
  <2>3. Becomes(OnClose(fired, s.current, FALSE))
    BY <1>2, <1>6
  <2> QED
    BY <1>3, <1>4, <2>1, <2>2, <2>3, Closing
<1> QED
  BY <1>5, <1>6

(* The application disconnects.                                            *)
LEMMA UserDisconnectsStep == IInv /\ UserDisconnects => IInv'
<1> SUFFICES ASSUME IInv, UserDisconnects
             PROVE  IInv'
  OBVIOUS
<1> DEFINE yes == TRUE
           r == SocketOnDisconnect(s, yes)
<1>1. s \in State /\ Connection(s) /\ Messages(s)
  BY InState
<1>2. Becomes(r) /\ yes \in BOOLEAN
  BY DEF UserDisconnects
<1> HIDE DEF yes
<1>3. /\ r \in State /\ Sound(r) /\ Calmer(s, r) /\ SameMessages(s, r)
      /\ ~r.connected
  BY <1>1, <1>2, SocketOnDisconnectStep DEF Connection
<1> HIDE DEF r
<1>4. Polled(r) /\ Messages(r)
  BY <1>1, <1>3, PolledStays, MessagesStay DEF Connection, Calmer
<1> QED
  BY <1>2, <1>3, <1>4, AtTheEnd DEF Connection

(* The close timeout of a transport passes.                                *)
LEMMA CloseTimeoutStep ==
  ASSUME NEW t \in Transport, IInv, CloseTimeout(t)
  PROVE  IInv'
<1> DEFINE timers == s.closeTimers \ {t}
           q == [s EXCEPT !.closeTimers = timers]
           r == OnDisconnect(q, t)
<1>1. s \in State /\ ~s.threw /\ Connection(s) /\ Messages(s) /\ t \in s.closeTimers
  BY InState DEF CloseTimeout
<1>2. Becomes(r)
  BY <1>1 DEF CloseTimeout, State
<1>3. timers \in SUBSET Transport /\ \A u \in Transport : u # t /\ u \in s.closeTimers => u \in timers
  BY <1>1 DEF State
<1>4. timers \subseteq s.closeTimers
  OBVIOUS
<1> HIDE DEF timers
<1>5. q \in State
  BY <1>1, <1>3, Zenon DEF State
<1>6. /\ SameMessages(s, q) /\ SamePlace(s, q) /\ q.connected = s.connected
      /\ q.isOpen = s.isOpen /\ q.gets = s.gets /\ q.orphans = s.orphans
      /\ q.closeTimers = timers /\ q.browser = s.browser
      /\ q.deferred = s.deferred /\ q.dropped = s.dropped /\ ~q.threw
  BY <1>1 DEF State, SameMessages, SamePlace
<1> HIDE DEF q
<1>7. Sound(q)
  BY <1>1, <1>4, <1>6 DEF Connection, Sound, Fresh, NoneForgotten, Quiet,
                          XhrPolling, SamePlace
<1>8. Messages(q)
  BY <1>1, <1>5, <1>6, MessagesStay
<1>9. t = q.current \/ Polled(q)
  BY <1>1, <1>3, <1>6 DEF Connection, Polled, SamePlace
<1>10. t <= q.made
  BY <1>1, <1>6 DEF Connection, Sound, Fresh, SamePlace, State, Transport
<1>11. /\ r \in State /\ Connection(r) /\ SameMessages(q, r)
       /\ SamePlace(q, r) /\ (r.connected => q.connected)
  BY <1>5, <1>6, <1>7, <1>9, <1>10, OnDisconnectStep
<1> HIDE DEF r
<1>12. Messages(r)
  BY <1>5, <1>8, <1>11, MessagesStay
<1> QED
  BY <1>2, <1>11, <1>12, AtTheEnd

(* The state, with these requests.                                         *)
Recounted(q, gets, orphans) == q = [s EXCEPT !.gets = gets, !.orphans = orphans]

(* The requests of t are fewer than they are, or as many.                  *)
Fewer(t, gets, orphans) ==
  \A u \in Transport : /\ u # t => gets[u] = s.gets[u]
                       /\ orphans[u] <= s.orphans[u]
                       /\ gets[u] <= s.gets[u]

(* The requests of a transport, fewer than before.                         *)
LEMMA FewerRequests ==
  ASSUME IInv, NEW t \in Transport, NEW q,
         NEW gets \in [Transport -> 0 .. 1], NEW orphans \in [Transport -> Nat],
         Fewer(t, gets, orphans), Recounted(q, gets, orphans)
  PROVE  /\ q \in State /\ Sound(q) /\ Messages(q) /\ ~q.threw
         /\ q.gets = gets /\ q.orphans = orphans
         /\ q.browser = s.browser /\ SamePlace(s, q)
         /\ \A u \in Transport : q.isOpen[u] /\ u = q.current /\ u # t =>
              q.gets[u] = 1 \/ u \in q.closeTimers \/ u \in q.dropped
<1>1. s \in State /\ Connection(s) /\ Messages(s) /\ ~s.threw
  BY InState
<1> DEFINE mid == [s EXCEPT !.gets = gets]
           end == [mid EXCEPT !.orphans = orphans]
<1>2. mid \in State
  BY <1>1, Zenon DEF State
<1>3. q = end
  BY DEF Recounted
<1>4. /\ SameMessages(s, q) /\ SamePlace(s, q) /\ q.connected = s.connected
      /\ q.isOpen = s.isOpen /\ q.gets = gets /\ q.orphans = orphans
      /\ q.closeTimers = s.closeTimers /\ q.browser = s.browser
      /\ q.deferred = s.deferred /\ q.dropped = s.dropped /\ ~q.threw
  BY <1>1 DEF Recounted, State, SameMessages, SamePlace
<1>5. q \in State
  <2>1. end \in State
    <3> HIDE DEF mid
    <3> QED
      BY <1>2, Zenon DEF State
  <2> QED
    BY <1>3, <2>1
<1>6. \A u \in Transport :
        /\ gets[u] \in 0 .. 1 /\ s.gets[u] \in 0 .. 1 /\ gets[u] <= s.gets[u]
        /\ orphans[u] \in Nat /\ s.orphans[u] \in Nat /\ orphans[u] <= s.orphans[u]
        /\ u # t => gets[u] = s.gets[u]
  BY <1>1 DEF State, Fewer
<1>7. Fresh(q)
  <2>1. ASSUME NEW u \in Transport, u > q.made
        PROVE  gets[u] = 0 /\ orphans[u] = 0
    BY <1>1, <1>4, <1>6, <2>1 DEF Connection, Sound, Fresh, SamePlace
  <2> QED
    BY <1>1, <1>4, <2>1 DEF Connection, Sound, Fresh, SamePlace
<1>8. NoneForgotten(q)
  <2>1. ASSUME ~s.browser.defers, NEW u \in Transport
        PROVE  orphans[u] = 0
    BY <1>1, <1>6, <2>1 DEF Connection, Sound, NoneForgotten
  <2> QED
    BY <1>4, <2>1 DEF NoneForgotten
<1>9. Quiet(q)
  <2>1. ASSUME NEW u \in Transport, gets[u] = 1
        PROVE  s.gets[u] = 1
    BY <1>6, <2>1
  <2> QED
    BY <1>1, <1>4, <2>1 DEF Connection, Sound, Quiet, XhrPolling, SamePlace
<1>10. Messages(q)
  BY <1>1, <1>4, <1>5, MessagesStay
<1>11. \A u \in Transport : q.isOpen[u] /\ u = q.current /\ u # t =>
         q.gets[u] = 1 \/ u \in q.closeTimers \/ u \in q.dropped
  BY <1>1, <1>4, <1>6 DEF Connection, Polled, SamePlace
<1> QED
  BY <1>4, <1>5, <1>7, <1>8, <1>9, <1>10, <1>11 DEF Sound

(* A transport with a request was made.                                    *)
LEMMA RequestIsMade ==
  ASSUME IInv, NEW t \in Transport, s.gets[t] = 1 \/ s.orphans[t] > 0
  PROVE  t <= s.made
BY InState DEF Connection, Sound, Fresh, State, Transport

(* Data come in.                                                           *)
LEMMA AnswerStep ==
  ASSUME NEW t \in Transport, NEW d \in Data, NEW throws \in BOOLEAN,
         IInv, Answer(t, d, throws)
  PROVE  IInv'
<1> DEFINE left == IF s.browser.kind = "htmlfile" THEN s.gets[t] ELSE 0
           gets == [s.gets EXCEPT ![t] = left]
           orphans == s.orphans
           q == [s EXCEPT !.gets = gets, !.orphans = orphans]
           r == Answered(q, t, d, throws)
<1>1. s \in State /\ s.gets[t] = 1
  BY InState DEF Answer
<1>2. Becomes(r)
  <2>1. [s EXCEPT !.gets[t] = IF s.browser.kind = "htmlfile" THEN @ ELSE 0] = q
    BY <1>1 DEF State
  <2> HIDE DEF q
  <2> QED
    BY <2>1 DEF Answer
<1>3. /\ s.gets \in [Transport -> 0 .. 1] /\ orphans \in [Transport -> Nat]
      /\ left \in 0 .. 1 /\ left <= s.gets[t]
  BY <1>1 DEF State
<1>4. /\ gets \in [Transport -> 0 .. 1]
      /\ \A u \in Transport : gets[u] = IF u = t THEN left ELSE s.gets[u]
  BY <1>3
<1>5. Fewer(t, gets, orphans)
  <2>1. \A u \in Transport : s.gets[u] \in Int /\ orphans[u] \in Int
    BY <1>3
  <2> HIDE DEF left, gets
  <2> QED
    BY <1>3, <1>4, <2>1 DEF Fewer
<1>6. Recounted(q, gets, orphans)
  BY DEF Recounted
<1>7. /\ s.browser.kind = "htmlfile" => left = 1
      /\ s.browser.kind # "htmlfile" => left = 0
  BY <1>1
<1> HIDE DEF gets, orphans, q, left
<1>8. /\ q \in State /\ Sound(q) /\ Messages(q)
      /\ q.gets = gets /\ q.browser = s.browser /\ SamePlace(s, q)
      /\ \A u \in Transport : q.isOpen[u] /\ u = q.current /\ u # t =>
           q.gets[u] = 1 \/ u \in q.closeTimers \/ u \in q.dropped
  BY <1>3, <1>4, <1>5, <1>6, FewerRequests
<1>9. t <= q.made
  BY <1>1, <1>8, RequestIsMade DEF SamePlace
<1>10. /\ q.browser.kind = "htmlfile" => q.gets[t] = 1
       /\ q.browser.kind # "htmlfile" => q.gets[t] = 0
  BY <1>4, <1>7, <1>8
<1>11. r \in State /\ Connection(r) /\ Messages(r)
  BY <1>8, <1>9, <1>10, AnsweredStep
<1> QED
  BY <1>2, <1>11, AtTheEnd

(* Data come in for a request that was forgotten.                          *)
LEMMA OrphanAnswerStep ==
  ASSUME NEW t \in Transport, NEW d \in Data, NEW throws \in BOOLEAN,
         IInv, OrphanAnswer(t, d, throws)
  PROVE  IInv'
<1> DEFINE left == s.orphans[t] - 1
           gets == s.gets
           orphans == [s.orphans EXCEPT ![t] = left]
           q == [s EXCEPT !.gets = gets, !.orphans = orphans]
           r == Answered(q, t, d, throws)
<1>1. s \in State /\ Connection(s) /\ s.orphans[t] > 0
  BY InState DEF OrphanAnswer
<1>2. Becomes(r)
  <2>1. [s EXCEPT !.orphans[t] = @ - 1] = q
    BY <1>1 DEF State
  <2> HIDE DEF q
  <2> QED
    BY <2>1 DEF OrphanAnswer
<1>3. /\ s.orphans \in [Transport -> Nat] /\ gets \in [Transport -> 0 .. 1]
      /\ left \in Nat /\ left <= s.orphans[t]
  BY <1>1 DEF State
<1>4. /\ orphans \in [Transport -> Nat]
      /\ \A u \in Transport : orphans[u] = IF u = t THEN left ELSE s.orphans[u]
  BY <1>3
<1>5. Fewer(t, gets, orphans)
  <2>1. \A u \in Transport : gets[u] \in Int /\ s.orphans[u] \in Int
    BY <1>3
  <2>2. gets = s.gets
    OBVIOUS
  <2> HIDE DEF left, gets, orphans
  <2> QED
    BY <1>3, <1>4, <2>1, <2>2 DEF Fewer
<1>6. Recounted(q, gets, orphans)
  BY DEF Recounted
<1> HIDE DEF gets, orphans, q, left
<1>7. /\ q \in State /\ Sound(q) /\ Messages(q)
      /\ q.browser = s.browser /\ SamePlace(s, q)
      /\ \A u \in Transport : q.isOpen[u] /\ u = q.current /\ u # t =>
           q.gets[u] = 1 \/ u \in q.closeTimers \/ u \in q.dropped
  BY <1>3, <1>4, <1>5, <1>6, FewerRequests
<1>8. t <= q.made
  BY <1>1, <1>7, RequestIsMade DEF SamePlace
<1>9. q.browser.defers
  BY <1>1, <1>7 DEF Connection, Sound, NoneForgotten
<1>10. q.browser.kind # "htmlfile"
  BY <1>7, <1>9 DEF State, Browser
<1>11. r \in State /\ Connection(r) /\ Messages(r)
  BY <1>7, <1>8, <1>9, <1>10, AnsweredStep
<1> QED
  BY <1>2, <1>11, AtTheEnd

(* A GET fails, and its transport closes.                                  *)
LEMMA GetFailsStep ==
  ASSUME NEW t \in Transport, IInv, GetFails(t)
  PROVE  IInv'
<1>1. s \in State
  BY InState
<1>2. CASE s.gets[t] = 1 /\ Becomes(OnClose([s EXCEPT !.gets[t] = 0], t, FALSE))
  <2> DEFINE gets == [s.gets EXCEPT ![t] = 0]
             orphans == s.orphans
             q == [s EXCEPT !.gets = gets, !.orphans = orphans]
  <2>1. [s EXCEPT !.gets[t] = 0] = q
    BY <1>1 DEF State
  <2>2. /\ gets \in [Transport -> 0 .. 1] /\ orphans \in [Transport -> Nat]
        /\ \A u \in Transport : gets[u] = IF u = t THEN 0 ELSE s.gets[u]
        /\ \A u \in Transport : s.gets[u] \in 0 .. 1 /\ orphans[u] \in Nat
        /\ orphans = s.orphans
    BY <1>1 DEF State
  <2>3. Recounted(q, gets, orphans)
    BY DEF Recounted
  <2> HIDE DEF gets, orphans
  <2>4. Fewer(t, gets, orphans)
    BY <2>2 DEF Fewer
  <2>5. Becomes(OnClose(q, t, FALSE))
    BY <1>2, <2>1
  <2> HIDE DEF q
  <2>6. /\ q \in State /\ Sound(q) /\ Messages(q) /\ ~q.threw
        /\ SamePlace(s, q)
        /\ \A u \in Transport : q.isOpen[u] /\ u = q.current /\ u # t =>
             q.gets[u] = 1 \/ u \in q.closeTimers \/ u \in q.dropped
    BY <2>2, <2>3, <2>4, FewerRequests
  <2>7. t <= q.made /\ (t = q.current \/ Polled(q))
    BY <1>2, <2>6, RequestIsMade DEF SamePlace, Polled
  <2> QED
    BY <2>5, <2>6, <2>7, Closing
<1>3. CASE /\ s.orphans[t] > 0
           /\ Becomes(OnClose([s EXCEPT !.orphans[t] = @ - 1], t, FALSE))
  <2> DEFINE left == s.orphans[t] - 1
             gets == s.gets
             orphans == [s.orphans EXCEPT ![t] = left]
             q == [s EXCEPT !.gets = gets, !.orphans = orphans]
  <2>1. [s EXCEPT !.orphans[t] = @ - 1] = q
    BY <1>1 DEF State
  <2>2. /\ s.orphans \in [Transport -> Nat] /\ gets \in [Transport -> 0 .. 1]
        /\ left \in Nat /\ left <= s.orphans[t]
    BY <1>1, <1>3 DEF State
  <2>3. /\ orphans \in [Transport -> Nat]
        /\ \A u \in Transport : orphans[u] = IF u = t THEN left ELSE s.orphans[u]
        /\ \A u \in Transport : gets[u] \in 0 .. 1 /\ s.orphans[u] \in Nat
        /\ gets = s.gets
    BY <2>2
  <2>4. Recounted(q, gets, orphans)
    BY DEF Recounted
  <2> HIDE DEF gets, orphans, left
  <2>5. Fewer(t, gets, orphans)
    BY <2>2, <2>3 DEF Fewer
  <2>6. Becomes(OnClose(q, t, FALSE))
    BY <1>3, <2>1
  <2> HIDE DEF q
  <2>7. /\ q \in State /\ Sound(q) /\ Messages(q) /\ ~q.threw
        /\ SamePlace(s, q)
        /\ \A u \in Transport : q.isOpen[u] /\ u = q.current /\ u # t =>
             q.gets[u] = 1 \/ u \in q.closeTimers \/ u \in q.dropped
    BY <2>2, <2>3, <2>4, <2>5, FewerRequests
  <2>8. t <= q.made /\ (t = q.current \/ Polled(q))
    BY <1>3, <2>7, RequestIsMade DEF SamePlace, Polled
  <2> QED
    BY <2>6, <2>7, <2>8, Closing
<1> QED
  BY <1>2, <1>3 DEF GetFails

(* A message goes to the buffer, or out in a request of its own.           *)
LEMMA UserEmitsStep == IInv /\ UserEmits => IInv'
<1> SUFFICES ASSUME IInv, UserEmits
             PROVE  IInv'
  OBVIOUS
<1> DEFINE m == s.emitted + 1
           q == [s EXCEPT !.emitted = m]
           r == SocketPacket(q, m)
<1>1. s \in State /\ Connection(s) /\ Messages(s)
  BY InState
<1>2. s.emitted < MaxEmits /\ Becomes(r)
  BY DEF UserEmits
<1>3. s.emitted \in 0 .. MaxEmits
  BY <1>1 DEF State
<1>4. /\ m \in 0 .. MaxEmits /\ m \in 1 .. MaxEmits
      /\ m \in Int /\ s.emitted < m /\ s.emitted \in Int
  BY <1>2, <1>3, BoundsAssumption
<1> HIDE DEF m
<1>5. q \in State
  BY <1>1, <1>4, Zenon DEF State
<1>6. /\ SameTransports(s, q) /\ q.emitted = m
      /\ q.doBuffer = s.doBuffer /\ q.buffer = s.buffer
      /\ q.posts = s.posts /\ q.owner = s.owner
      /\ q.messages = s.messages /\ q.pending = s.pending
      /\ q.deaf = s.deaf /\ q.taken = s.taken
      /\ q.got = s.got /\ q.stale = s.stale
      /\ q.connected = s.connected /\ q.made = s.made
      /\ q.browser = s.browser /\ q.current = s.current
  BY <1>1 DEF State, SameTransports, SamePlace
<1> HIDE DEF q
<1>7. Connection(q)
  BY <1>1, <1>5, <1>6, SoundStays, SameIsCalmer, PolledStays DEF Connection
<1>8. /\ s.posts \in Nat
      /\ s.buffer \in Seq(1 .. MaxEmits)
      /\ \A k \in DOMAIN s.buffer : s.buffer[k] \in Int
      /\ \A p \in Sent(s) : \A i \in DOMAIN s.messages[p] : s.messages[p][i] \in Int
  <2>1. s.posts \in Nat /\ s.buffer \in Seq(1 .. MaxEmits)
    BY <1>1 DEF State
  <2>2. \A p \in Sent(s) : s.messages[p] \in Seq(1 .. MaxEmits)
    BY <1>1 DEF State, Sent
  <2>3. \A list \in Seq(1 .. MaxEmits) : \A i \in DOMAIN list : list[i] \in 1 .. MaxEmits
    BY ElementOfSeq, LenProperties
  <2> QED
    BY <2>1, <2>2, <2>3
<1>9. /\ \A k \in DOMAIN s.buffer : s.buffer[k] < m
      /\ \A p \in Sent(s) : \A i \in DOMAIN s.messages[p] : s.messages[p][i] < m
  <2>1. /\ \A k \in DOMAIN s.buffer : s.buffer[k] <= s.emitted
        /\ \A p \in Sent(s) : \A i \in DOMAIN s.messages[p] :
             s.messages[p][i] <= s.emitted
    BY <1>1 DEF Messages, Placed, Ordered
  <2> QED
    BY <1>4, <1>8, <2>1
<1>10. Placed(q)
  <2>1. Requests(q)
    BY <1>1, <1>6 DEF Messages, Placed, Requests, Sent
  <2>2. \A k \in DOMAIN s.buffer : s.buffer[k] <= m
    BY <1>4, <1>8, <1>9
  <2>3. \A p \in Sent(s) : \A i \in DOMAIN s.messages[p] : s.messages[p][i] <= m
    BY <1>4, <1>8, <1>9
  <2>4. Sent(q) = Sent(s)
    BY <1>6 DEF Sent
  <2>5. Ordered(q)
    BY <1>1, <1>6, <2>2, <2>3, <2>4 DEF Messages, Placed, Ordered
  <2>6. OneAtATime(q)
    BY <1>1, <1>6 DEF Messages, Placed, OneAtATime, Sent, Steady
  <2>7. Got(q)
    BY <1>1, <1>6 DEF Messages, Placed, Got, Sent, Steady
  <2> QED
    BY <2>1, <2>5, <2>6, <2>7 DEF Placed
<1>11. CASE ~q.connected \/ q.doBuffer
  <2> DEFINE longer == Append(q.buffer, m)
             waits == [q EXCEPT !.buffer = longer]
  <2>1. r = waits
    BY <1>5, <1>11 DEF SocketPacket, State
  <2>2. longer \in Seq(1 .. MaxEmits)
    BY <1>4, <1>6, <1>8
  <2>3. /\ Len(s.buffer) \in Nat /\ DOMAIN s.buffer = 1 .. Len(s.buffer)
        /\ DOMAIN longer = 1 .. Len(s.buffer) + 1
        /\ \A k \in DOMAIN s.buffer : longer[k] = s.buffer[k]
        /\ longer[Len(s.buffer) + 1] = m
    BY <1>4, <1>6, <1>8, LenProperties, AppendProperties
  <2> HIDE DEF longer
  <2>4. waits \in State
    BY <1>5, <2>2, Zenon DEF State
  <2>5. /\ SameTransports(q, waits) /\ waits.buffer = longer
        /\ waits.emitted = m /\ waits.doBuffer = q.doBuffer
        /\ waits.posts = s.posts /\ waits.owner = s.owner
        /\ waits.messages = s.messages /\ waits.pending = s.pending
        /\ waits.deaf = s.deaf /\ waits.taken = s.taken
        /\ waits.got = s.got /\ waits.stale = s.stale
        /\ waits.connected = q.connected /\ waits.made = s.made
        /\ waits.browser = s.browser /\ waits.current = s.current
    BY <1>5, <1>6 DEF State, SameTransports, SamePlace
  <2> HIDE DEF waits
  <2>6. Sent(waits) = Sent(s)
    BY <2>5 DEF Sent
  <2>7. Connection(waits)
    BY <1>5, <1>7, <2>4, <2>5, SoundStays, SameIsCalmer, PolledStays DEF Connection
  <2>8. Requests(waits) /\ OneAtATime(waits) /\ Got(waits)
    <3>1. Requests(waits)
      BY <1>1, <2>5 DEF Messages, Placed, Requests, Sent
    <3>2. OneAtATime(waits)
      BY <1>1, <1>6, <2>5 DEF Messages, Placed, OneAtATime, Sent, Steady
    <3>3. Got(waits)
      BY <1>1, <2>5 DEF Messages, Placed, Got, Sent, Steady
    <3> QED
      BY <3>1, <3>2, <3>3
  <2>9. Ordered(waits)
    <3>1. ASSUME NEW k \in DOMAIN longer
          PROVE  /\ longer[k] <= m
                 /\ k = Len(s.buffer) + 1 \/ k \in DOMAIN s.buffer
                 /\ \A p \in Sent(s) : \A i \in DOMAIN s.messages[p] :
                      s.messages[p][i] < longer[k]
      <4>1. CASE k \in DOMAIN s.buffer
        BY <1>1, <1>4, <1>8, <1>9, <2>3, <4>1 DEF Messages, Placed, Ordered
      <4>2. CASE k = Len(s.buffer) + 1
        BY <1>4, <1>9, <2>3, <4>2
      <4> QED
        BY <2>3, <4>1, <4>2
    <3>2. Rises(longer)
      <4> SUFFICES ASSUME NEW i \in DOMAIN longer, NEW j \in DOMAIN longer, i < j
                   PROVE  longer[i] < longer[j]
        BY DEF Rises
      <4>1. i \in DOMAIN s.buffer
        BY <2>3
      <4>2. CASE j \in DOMAIN s.buffer
        BY <1>1, <2>3, <4>1, <4>2 DEF Messages, Placed, Ordered, Rises
      <4>3. CASE j = Len(s.buffer) + 1
        BY <1>9, <2>3, <4>1, <4>3
      <4> QED
        BY <2>3, <4>2, <4>3
    <3>3. \A p \in Sent(s) : \A i \in DOMAIN s.messages[p] : s.messages[p][i] <= m
      BY <1>4, <1>8, <1>9
    <3> QED
      BY <1>1, <2>5, <2>6, <3>1, <3>2, <3>3 DEF Messages, Placed, Ordered
  <2>10. Buffered(waits)
    BY <1>11, <2>5 DEF Buffered
  <2> QED
    BY <1>2, <2>1, <2>4, <2>7, <2>8, <2>9, <2>10, AtTheEnd DEF Messages, Placed
<1>12. CASE q.connected /\ ~q.doBuffer /\ q.current = 0
  <2> DEFINE failed == [q EXCEPT !.threw = TRUE]
  <2>1. r = failed
    BY <1>12 DEF SocketPacket, Threw
  <2>2. failed \in State
    BY <1>5, Zenon DEF State
  <2>3. SameButFlags(q, failed)
    BY <1>5 DEF State, SameButFlags, SameTransports, SameMessages, SamePlace
  <2> HIDE DEF failed
  <2>4. Messages(q)
    BY <1>10, <1>12 DEF Messages, Buffered
  <2>5. Connection(failed) /\ Messages(failed)
    BY <1>5, <1>7, <2>2, <2>3, <2>4, FlagsChange DEF Connection
  <2> QED
    BY <1>2, <2>1, <2>2, <2>5, AtTheEnd
<1>13. CASE q.connected /\ ~q.doBuffer /\ q.current # 0
  <2> DEFINE list == <<m>>
             t == q.current
  <2>1. r = PostMessages(q, t, list)
    BY <1>13 DEF SocketPacket
  <2>2. /\ list \in Seq(1 .. MaxEmits) /\ DOMAIN list = {1} /\ list[1] = m
    BY <1>4
  <2>3. t \in Transport /\ t <= q.made /\ t = q.current
    BY <1>5, <1>7, <1>13, BoundsAssumption
    DEF State, Transport, Connection, Sound, Fresh
  <2> HIDE DEF list, t
  <2>4. /\ r \in State
        /\ SameTransports(q, r) /\ r.connected = q.connected
        /\ Posting(q, r, t, list)
        /\ r.buffer = q.buffer
    <3> HIDE DEF r
    <3> QED
      BY <1>5, <2>1, <2>2, <2>3, PostFields
  <2> HIDE DEF r
  <2>5. r.buffer = <<>>
    BY <1>1, <1>6, <1>13, <2>4 DEF Messages, Buffered
  <2>6. Free(q)
    BY <1>10, <1>13 DEF Placed, OneAtATime, Free
  <2>7. Newer(q, list)
    <3>1. Sent(q) = Sent(s)
      BY <1>6 DEF Sent
    <3> QED
      BY <1>4, <1>6, <1>9, <2>2, <3>1 DEF Newer, Rises
  <2>8. Messages(r)
    BY <1>5, <1>10, <2>2, <2>3, <2>4, <2>5, <2>6, <2>7, Posted
  <2>9. Connection(r)
    BY <1>5, <1>7, <2>4, SoundStays, SameIsCalmer, PolledStays DEF Connection
  <2>10. Becomes(r)
    BY <1>2 DEF r
  <2> QED
    BY <2>4, <2>8, <2>9, <2>10, AtTheEnd
<1> QED
  BY <1>11, <1>12, <1>13

(* The places of a list that follows another.                              *)
LEMMA Joined ==
  ASSUME NEW S, NEW a \in Seq(S), NEW b \in Seq(S)
  PROVE  /\ Len(a) \in Nat /\ Len(b) \in Nat
         /\ DOMAIN a = 1 .. Len(a) /\ DOMAIN b = 1 .. Len(b)
         /\ DOMAIN (a \o b) \subseteq Nat
         /\ \A i \in DOMAIN (a \o b) :
              \/ i \in DOMAIN a /\ (a \o b)[i] = a[i]
              \/ /\ Len(a) < i /\ i - Len(a) \in DOMAIN b
                 /\ (a \o b)[i] = b[i - Len(a)]
<1>1. /\ Len(a) \in Nat /\ Len(b) \in Nat
      /\ DOMAIN a = 1 .. Len(a) /\ DOMAIN b = 1 .. Len(b)
  BY LenProperties
<1>2. a \o b \in Seq(S) /\ Len(a \o b) = Len(a) + Len(b)
  BY ConcatProperties
<1>3. DOMAIN (a \o b) = 1 .. Len(a) + Len(b)
  BY <1>2, LenProperties
<1>4. ASSUME NEW i \in 1 .. Len(a) + Len(b)
      PROVE  \/ i \in 1 .. Len(a) /\ (a \o b)[i] = a[i]
             \/ /\ Len(a) < i /\ i - Len(a) \in 1 .. Len(b)
                /\ (a \o b)[i] = b[i - Len(a)]
  <2>1. (a \o b)[i] = IF i <= Len(a) THEN a[i] ELSE b[i - Len(a)]
    BY <1>1, <1>2, ConcatProperties
  <2>2. CASE i <= Len(a)
    BY <1>1, <2>1, <2>2
  <2>3. CASE ~(i <= Len(a))
    BY <1>1, <2>1, <2>3
  <2> QED
    BY <2>2, <2>3
<1>5. DOMAIN (a \o b) \subseteq Nat
  BY <1>1, <1>3
<1> QED
  BY <1>1, <1>3, <1>4, <1>5

(* The server takes a request: a heartbeat's, or the last one of its       *)
(* transport, newer than all that it took before, while no answer ended    *)
(* what was not its own.                                                   *)
LEMMA ServerTakesStep ==
  ASSUME NEW p \in Post, IInv, ServerTakes(p)
  PROVE  IInv'
<1> DEFINE t == s.owner[p]
           taken == s.taken \cup {p}
           list == s.got[t] \o s.messages[p]
           got == [s.got EXCEPT ![t] = list]
           q == [s EXCEPT !.taken = taken, !.got = got]
<1>1. s \in State /\ Connection(s) /\ Messages(s)
  BY InState
<1>2. p \in s.pending /\ p \notin s.taken /\ Becomes(q)
  <2>1. [s EXCEPT !.taken = @ \cup {p},
                  !.got[s.owner[p]] = @ \o s.messages[p]] = q
    BY <1>1 DEF State
  <2> HIDE DEF q
  <2> QED
    BY <2>1 DEF ServerTakes
<1>3. p \in Sent(s) /\ p \in Nat
  BY <1>1, <1>2 DEF Messages, Placed, Requests, Sent, Post
<1>4. t \in Transport
  <2>1. t \in 1 .. s.made /\ s.made \in 0 .. MaxTransports
    BY <1>1, <1>3 DEF State, Messages, Placed, Requests
  <2> QED
    BY <2>1, BoundsAssumption DEF Transport
<1>5. /\ s.got \in [Transport -> Seq(1 .. MaxEmits)]
      /\ s.got[t] \in Seq(1 .. MaxEmits)
      /\ s.messages[p] \in Seq(1 .. MaxEmits)
      /\ s.taken \in SUBSET Nat
  BY <1>1, <1>4 DEF State
<1>6. list \in Seq(1 .. MaxEmits)
  BY <1>5
<1>7. /\ Len(s.got[t]) \in Nat
      /\ DOMAIN s.got[t] = 1 .. Len(s.got[t])
      /\ DOMAIN list \subseteq Nat
      /\ \A i \in DOMAIN list :
           \/ i \in DOMAIN s.got[t] /\ list[i] = s.got[t][i]
           \/ /\ Len(s.got[t]) < i
              /\ i - Len(s.got[t]) \in DOMAIN s.messages[p]
              /\ list[i] = s.messages[p][i - Len(s.got[t])]
  BY <1>5, Joined
<1> HIDE DEF list
<1>8. got \in [Transport -> Seq(1 .. MaxEmits)] /\ taken \in SUBSET Nat
  BY <1>3, <1>5, <1>6
<1>9. \A u \in Transport : got[u] = IF u = t THEN list ELSE s.got[u]
  BY <1>5
<1> HIDE DEF got
<1>10. q \in State
  <2> HIDE DEF taken
  <2> QED
    BY <1>1, <1>8, Zenon DEF State
<1>11. /\ SameTransports(s, q) /\ q.taken = taken /\ q.got = got
       /\ q.browser = s.browser /\ q.current = s.current /\ q.made = s.made
       /\ q.connected = s.connected
       /\ q.doBuffer = s.doBuffer /\ q.buffer = s.buffer
       /\ q.posts = s.posts /\ q.owner = s.owner
       /\ q.messages = s.messages /\ q.pending = s.pending
       /\ q.deaf = s.deaf /\ q.emitted = s.emitted /\ q.stale = s.stale
  BY <1>1 DEF State, SameTransports, SamePlace
<1> HIDE DEF q
<1>12. Connection(q)
  BY <1>1, <1>10, <1>11, SoundStays, SameIsCalmer, PolledStays DEF Connection
<1>13. Sent(q) = Sent(s)
  BY <1>11 DEF Sent
<1>14. Buffered(q) /\ Ordered(q) /\ OneAtATime(q)
  <2>1. Buffered(q) /\ OneAtATime(q)
    BY <1>1, <1>11, <1>13 DEF Messages, Placed, Buffered, OneAtATime, Steady
  <2>2. Ordered(q)
    BY <1>1, <1>11, <1>13 DEF Messages, Placed, Ordered
  <2> QED
    BY <2>1, <2>2
<1>15. Requests(q)
  BY <1>1, <1>2, <1>11, <1>13 DEF Messages, Placed, Requests
<1>16. Got(q)
  <2> SUFFICES ASSUME NEW u \in Transport
               PROVE  /\ \A i \in DOMAIN got[u] :
                           \E o \in Sent(s) \cap taken :
                             /\ s.owner[o] = u
                             /\ \E j \in DOMAIN s.messages[o] :
                                  got[u][i] = s.messages[o][j]
                      /\ Steady(s) => Rises(got[u])
    BY <1>11, <1>13 DEF Got, Steady
  <2>1. CASE u # t
    <3>1. got[u] = s.got[u] /\ s.taken \subseteq taken
      BY <1>9, <2>1
    <3> QED
      BY <1>1, <3>1 DEF Messages, Placed, Got
  <2>2. CASE u = t
    <3>1. got[u] = list
      BY <1>9, <2>2
    <3>2. \A i \in DOMAIN s.got[t] :
            \E o \in Sent(s) \cap s.taken :
              /\ s.owner[o] = t
              /\ \E j \in DOMAIN s.messages[o] : s.got[t][i] = s.messages[o][j]
      BY <1>1, <1>4 DEF Messages, Placed, Got
    <3>3. ASSUME NEW i \in DOMAIN list
          PROVE  \E o \in Sent(s) \cap taken :
                   /\ s.owner[o] = t
                   /\ \E j \in DOMAIN s.messages[o] : list[i] = s.messages[o][j]
      <4>1. CASE i \in DOMAIN s.got[t] /\ list[i] = s.got[t][i]
        BY <3>2, <4>1
      <4>2. CASE /\ i - Len(s.got[t]) \in DOMAIN s.messages[p]
                 /\ list[i] = s.messages[p][i - Len(s.got[t])]
        <5>1. p \in Sent(s) \cap taken /\ s.owner[p] = t
          BY <1>3
        <5> QED
          BY <4>2, <5>1
      <4> QED
        BY <1>7, <4>1, <4>2
    <3>4. ASSUME Steady(s)
          PROVE  Rises(list)
      <4> SUFFICES ASSUME NEW i \in DOMAIN list, NEW j \in DOMAIN list, i < j
                   PROVE  list[i] < list[j]
        BY DEF Rises
      <4>1. Rises(s.got[t]) /\ Rises(s.messages[p])
        BY <1>1, <1>3, <1>4, <3>4 DEF Messages, Placed, Got, Ordered
      <4> DEFINE n == Len(s.got[t])
      <4>2. n \in Nat /\ i \in Nat /\ j \in Nat
        BY <1>7
      <4>3. CASE j \in DOMAIN s.got[t] /\ list[j] = s.got[t][j]
        <5>1. i \in DOMAIN s.got[t] /\ ~(n < i)
          BY <1>7, <4>2, <4>3
        <5>2. list[i] = s.got[t][i]
          BY <1>7, <5>1
        <5> QED
          BY <4>1, <4>3, <5>1, <5>2 DEF Rises
      <4>4. CASE /\ n < i /\ i - n \in DOMAIN s.messages[p]
                 /\ list[i] = s.messages[p][i - n]
                 /\ n < j /\ j - n \in DOMAIN s.messages[p]
                 /\ list[j] = s.messages[p][j - n]
        <5> HIDE DEF n
        <5>1. i - n < j - n
          BY <4>2
        <5> QED
          BY <4>1, <4>4, <5>1 DEF Rises
      <4>5. CASE /\ i \in DOMAIN s.got[t] /\ list[i] = s.got[t][i]
                 /\ n < j /\ j - n \in DOMAIN s.messages[p]
                 /\ list[j] = s.messages[p][j - n]
        <5>1. j - n \in DOMAIN s.messages[p]
          BY <4>5
        <5>2. PICK o \in Sent(s) \cap s.taken :
                /\ s.owner[o] = t
                /\ \E k \in DOMAIN s.messages[o] : s.got[t][i] = s.messages[o][k]
          BY <3>2, <4>5
        <5>3. PICK k \in DOMAIN s.messages[o] :
                s.owner[o] = t /\ s.got[t][i] = s.messages[o][k]
          BY <5>2
        <5>4. o <= p /\ o # p
          <6>1. s.messages[o] # <<>> /\ s.messages[p] # <<>>
            BY <5>1, <5>3
          <6> QED
            BY <1>1, <1>2, <1>3, <3>4, <5>3, <6>1 DEF Messages, Placed, OneAtATime
        <5>5. o < p
          BY <1>3, <5>4 DEF Sent, Post
        <5>6. s.messages[o][k] < s.messages[p][j - n]
          BY <1>1, <1>3, <5>1, <5>3, <5>5 DEF Messages, Placed, Ordered
        <5> QED
          BY <4>5, <5>3, <5>6
      <4>6. CASE n < i /\ j \in DOMAIN s.got[t]
        BY <1>7, <4>2, <4>6
      <4> QED
        BY <1>7, <4>3, <4>4, <4>5, <4>6
    <3> QED
      BY <2>2, <3>1, <3>3, <3>4
  <2> QED
    BY <2>1, <2>2
<1> QED
  BY <1>2, <1>10, <1>12, <1>14, <1>15, <1>16, AtTheEnd DEF Messages, Placed

(* A request is answered, whether its transport is open still or not.      *)
LEMMA PostAnsweredStep ==
  ASSUME NEW p \in Post, IInv, PostAnswered(p)
  PROVE  IInv'
<1> DEFINE t == s.owner[p]
           pending == s.pending \ {p}
           stale == (s.stale \/ Foreign(p))
           done == [s EXCEPT !.pending = pending]
           answered == [done EXCEPT !.stale = stale]
<1>1. s \in State /\ ~s.threw /\ Connection(s) /\ Messages(s)
  BY InState
<1>2. /\ p \in s.pending
      /\ \/ Becomes(done)
         \/ Becomes(SetBuffer(answered, FALSE))
         \/ Becomes(OnClose(done, t, FALSE))
  <2>1. done = [s EXCEPT !.pending = @ \ {p}]
    BY <1>1 DEF State
  <2>2. answered = [done EXCEPT !.stale = @ \/ Foreign(p)]
    BY <1>1 DEF State
  <2> HIDE DEF done, answered
  <2> QED
    BY <2>1, <2>2, Zenon DEF PostAnswered
<1>3. p \in Sent(s)
  BY <1>1, <1>2 DEF Messages, Placed, Requests, Sent, Post
<1>4. t \in Transport /\ t <= s.made
  <2>1. t \in 1 .. s.made /\ s.made \in 0 .. MaxTransports
    BY <1>1, <1>3 DEF State, Messages, Placed, Requests
  <2> QED
    BY <2>1, BoundsAssumption DEF Transport
<1>5. pending \in SUBSET Nat /\ stale \in BOOLEAN
  BY <1>1 DEF State, Foreign
<1>6. done \in State
  <2> HIDE DEF pending
  <2> QED
    BY <1>1, <1>5, Zenon DEF State
<1>7. /\ SameTransports(s, done) /\ done.pending = pending
      /\ done.threw = s.threw /\ done.made = s.made
      /\ done.browser = s.browser /\ done.current = s.current
      /\ done.connected = s.connected
      /\ done.doBuffer = s.doBuffer /\ done.buffer = s.buffer
      /\ done.posts = s.posts /\ done.owner = s.owner
      /\ done.messages = s.messages /\ done.taken = s.taken
      /\ done.deaf = s.deaf /\ done.emitted = s.emitted /\ done.got = s.got
      /\ done.stale = s.stale
  BY <1>1 DEF State, SameTransports, SamePlace
<1> HIDE DEF done, stale
<1>8. Connection(done)
  BY <1>1, <1>6, <1>7, SoundStays, SameIsCalmer, PolledStays DEF Connection
<1>9. Sent(done) = Sent(s)
  BY <1>7 DEF Sent
<1>10. Messages(done)
  <2>1. Buffered(done) /\ Requests(done)
    BY <1>1, <1>7, <1>9 DEF Messages, Placed, Buffered, Requests
  <2>2. Ordered(done)
    BY <1>1, <1>7, <1>9 DEF Messages, Placed, Ordered
  <2>3. OneAtATime(done)
    BY <1>1, <1>7, <1>9 DEF Messages, Placed, OneAtATime, Steady
  <2>4. Got(done)
    BY <1>1, <1>7, <1>9 DEF Messages, Placed, Got, Steady
  <2> QED
    BY <2>1, <2>2, <2>3, <2>4 DEF Messages, Placed
<1>11. CASE Becomes(done)
  BY <1>6, <1>8, <1>10, <1>11, AtTheEnd
<1>12. CASE Becomes(SetBuffer(answered, FALSE))
  <2> DEFINE r == SetBuffer(answered, FALSE)
  <2>1. answered \in State
    BY <1>5, <1>6, Zenon DEF State
  <2>2. /\ SameTransports(done, answered) /\ answered.stale = stale
        /\ answered.pending = pending /\ answered.made = s.made
        /\ answered.browser = s.browser /\ answered.current = s.current
        /\ answered.connected = s.connected
        /\ answered.doBuffer = s.doBuffer /\ answered.buffer = s.buffer
        /\ answered.posts = s.posts /\ answered.owner = s.owner
        /\ answered.messages = s.messages /\ answered.taken = s.taken
        /\ answered.deaf = s.deaf /\ answered.emitted = s.emitted
        /\ answered.got = s.got
    BY <1>6, <1>7 DEF State, SameTransports, SamePlace
  <2> HIDE DEF answered
  <2>3. Sent(answered) = Sent(s)
    BY <2>2 DEF Sent
  <2>4. Steady(answered) => Steady(s) /\ ~Foreign(p)
    BY <2>2 DEF Steady, stale
  <2>5. Connection(answered)
    BY <1>6, <1>7, <1>8, <2>1, <2>2, SoundStays, SameIsCalmer, PolledStays
    DEF Connection
  <2>6. Placed(answered)
    <3>1. Requests(answered)
      BY <1>1, <2>2, <2>3 DEF Messages, Placed, Requests
    <3>2. Ordered(answered)
      BY <1>1, <2>2, <2>3 DEF Messages, Placed, Ordered
    <3>3. OneAtATime(answered)
      BY <1>1, <2>2, <2>3, <2>4 DEF Messages, Placed, OneAtATime
    <3>4. Got(answered)
      BY <1>1, <2>2, <2>3, <2>4 DEF Messages, Placed, Got
    <3> QED
      BY <3>1, <3>2, <3>3, <3>4 DEF Placed
  <2>7. Free(answered)
    <3> SUFFICES ASSUME Steady(answered), NEW o \in Sent(s) \cap s.pending, o # p,
                        s.owner[o] = s.current, s.messages[o] # <<>>
                 PROVE  FALSE
      BY <2>2, <2>3 DEF Free
    <3>1. Steady(s) /\ ~Foreign(p)
      BY <2>4
    <3>2. s.messages[p] # <<>> /\ s.owner[p] = s.current
      BY <3>1 DEF Foreign
    <3>3. o <= p /\ p <= o
      BY <1>1, <1>2, <1>3, <3>1, <3>2 DEF Messages, Placed, OneAtATime
    <3>4. o \in Nat /\ p \in Nat
      BY <1>3 DEF Sent, Post
    <3> QED
      BY <3>3, <3>4
  <2>8. answered.current <= answered.made
    BY <2>5 DEF Connection, Sound, Fresh
  <2>9. /\ r \in State /\ SameTransports(answered, r) /\ Messages(r)
        /\ r.connected = answered.connected
    BY <2>1, <2>6, <2>7, <2>8, SetBufferStep
  <2>10. Becomes(r)
    BY <1>12
  <2> HIDE DEF r
  <2>11. Connection(r)
    BY <2>1, <2>5, <2>9, SoundStays, SameIsCalmer, PolledStays DEF Connection
  <2> QED
    BY <2>9, <2>10, <2>11, AtTheEnd
<1>13. CASE Becomes(OnClose(done, t, FALSE))
  BY <1>1, <1>4, <1>6, <1>7, <1>8, <1>10, <1>13, Closing DEF Connection
<1> QED
  BY <1>2, <1>11, <1>12, <1>13

(* Every event keeps the invariant.                                        *)
LEMMA StepIInv == IInv /\ [Next]_vars => IInv'
<1> SUFFICES ASSUME IInv, [Next]_vars
             PROVE  IInv'
  OBVIOUS
<1>1. CASE Connect \/ RedoTransports \/ ReconnectionFails
  BY <1>1, ConnectStep, RedoTransportsStep, ReconnectionFailsStep
<1>2. CASE HandshakeDone \/ HandshakeRefused \/ HandshakeFails
  BY <1>2, HandshakeDoneStep, HandshakeRefusedStep, HandshakeFailsStep
<1>3. CASE DeferredOpen
  BY <1>3, DeferredOpenStep
<1>4. CASE ConnectTimeout \/ HeartbeatTimeout
  BY <1>4, ConnectTimeoutStep, HeartbeatTimeoutStep
<1>5. CASE UserEmits \/ UserDisconnects
  BY <1>5, UserEmitsStep, UserDisconnectsStep
<1>6. ASSUME NEW t \in Transport, NEW d \in Data, NEW throws \in BOOLEAN,
             Answer(t, d, throws) \/ OrphanAnswer(t, d, throws)
      PROVE  IInv'
  BY <1>6, AnswerStep, OrphanAnswerStep
<1>7. ASSUME NEW t \in Transport, GetFails(t) \/ CloseTimeout(t)
      PROVE  IInv'
  BY <1>7, GetFailsStep, CloseTimeoutStep
<1>8. ASSUME NEW p \in Post, ServerTakes(p) \/ PostAnswered(p)
      PROVE  IInv'
  BY <1>8, ServerTakesStep, PostAnsweredStep
<1>9. CASE UNCHANGED vars
  BY <1>9 DEF vars, IInv, TypeOK
<1> QED
  BY <1>1, <1>2, <1>3, <1>4, <1>5, <1>6, <1>7, <1>8, <1>9 DEF Next

(***************************************************************************)
(* The theorems.                                                           *)
(***************************************************************************)

(* The inductive invariant holds of every behaviour.                       *)
THEOREM IInvHolds == Spec => []IInv
  BY InitIInv, StepIInv, PTL DEF Spec

(* State, requests and history keep their types: a transport has one GET   *)
(* at a time besides those it forgot, and what is pending, deaf or taken   *)
(* was posted.                                                             *)
THEOREM TypeCorrect == Spec => []TypeOK
<1>1. IInv => TypeOK
  BY DEF IInv
<1> QED
  BY <1>1, IInvHolds, PTL

(* emit and flushBuffer put a message in one request, whatever is answered *)
(* late, fails, or comes in from a transport that was closed.              *)
THEOREM OneRequestEach == Spec => []NoDuplicates
<1>1. ASSUME IInv
      PROVE  NoDuplicates
  <2> SUFFICES ASSUME NEW p \in 1 .. s.posts, NEW q \in 1 .. s.posts,
                      NEW i \in DOMAIN s.messages[p],
                      NEW j \in DOMAIN s.messages[q],
                      s.messages[p][i] = s.messages[q][j]
               PROVE  p = q /\ i = j
    BY DEF NoDuplicates
  <2>1. s \in State /\ s.posts \in 0 .. MaxPosts /\ Ordered(s)
    BY <1>1, InState DEF IInv, TypeOK, Messages, Placed
  <2>2. p \in Sent(s) /\ q \in Sent(s) /\ p \in Nat /\ q \in Nat
    BY <2>1, BoundsAssumption DEF Sent, Post, MaxPosts
  <2>3. /\ s.messages[p] \in Seq(1 .. MaxEmits)
        /\ s.messages[q] \in Seq(1 .. MaxEmits)
    BY <2>1, <2>2 DEF State, Sent
  <2>4. /\ i \in Nat /\ j \in Nat
        /\ s.messages[p][i] \in 1 .. MaxEmits /\ s.messages[q][j] \in 1 .. MaxEmits
    <3>1. \A list \in Seq(1 .. MaxEmits) : \A k \in DOMAIN list :
            k \in Nat /\ list[k] \in 1 .. MaxEmits
      <4> SUFFICES ASSUME NEW list \in Seq(1 .. MaxEmits), NEW k \in DOMAIN list
                   PROVE  k \in Nat /\ list[k] \in 1 .. MaxEmits
        OBVIOUS
      <4>1. Len(list) \in Nat /\ k \in 1 .. Len(list)
        BY LenProperties
      <4>2. list[k] \in 1 .. MaxEmits
        <5> DEFINE M == 1 .. MaxEmits
        <5>1. list \in Seq(M)
          OBVIOUS
        <5> HIDE DEF M
        <5>2. list[k] \in M
          BY <4>1, <5>1, ElementOfSeq
        <5> QED
          BY <5>2 DEF M
      <4>3. k \in Nat
        BY <4>1
      <4> QED
        BY <4>2, <4>3
    <3> QED
      BY <2>3, <3>1
  <2>5. /\ s.messages[p][i] \in Int
        /\ ~(s.messages[p][i] < s.messages[q][j])
        /\ ~(s.messages[q][j] < s.messages[p][i])
    BY <2>4
  <2>6. ~(p < q) /\ ~(q < p)
    BY <2>1, <2>2, <2>5 DEF Ordered
  <2>7. p = q
    BY <2>2, <2>6
  <2>8. ~(i < j) /\ ~(j < i)
    BY <2>1, <2>2, <2>5, <2>7 DEF Ordered, Rises
  <2> QED
    BY <2>4, <2>7, <2>8
<1> QED
  BY <1>1, IInvHolds, PTL

(* What the server takes from a transport is in the order of emit, as long *)
(* as no answer of a heartbeat or of another transport's POST ends the     *)
(* buffering of messages under way, and no open is deferred; transports    *)
(* that are replaced while they are open, or given up, included.           *)
THEOREM TakenInOrder == Spec => []InOrder
<1>1. IInv => InOrder
  BY DEF IInv, Messages, Placed, Got, Steady, Rises, InOrder
<1> QED
  BY <1>1, IInvHolds, PTL

(* The current transport is polled while it is open, or its close timeout  *)
(* runs, though a listener may throw out of the answer, unless one did so  *)
(* after a connect timeout.                                                *)
THEOREM OpenIsPolled == Spec => []PolledOrTimed
<1>1. IInv => PolledOrTimed
  BY DEF IInv, Connection, Polled, PolledOrTimed
<1> QED
  BY <1>1, IInvHolds, PTL

(* XHR polling has no request when it is closed, be it the current         *)
(* transport or one that was replaced.                                     *)
THEOREM QuietWhenClosed == Spec => []ClosedIsQuiet
<1>1. IInv => ClosedIsQuiet
  <2> SUFFICES ASSUME IInv, XhrPolling(s), ~s.browser.defers, ~s.usedUp,
                      NEW t \in Transport, s.gets[t] = 1 \/ s.orphans[t] > 0
               PROVE  s.isOpen[t]
    BY DEF ClosedIsQuiet
  <2>1. s.orphans[t] = 0
    BY DEF IInv, Connection, Sound, NoneForgotten
  <2> QED
    BY <2>1 DEF IInv, Connection, Sound, Quiet
<1> QED
  BY <1>1, IInvHolds, PTL

================================================================================
