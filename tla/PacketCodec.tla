------------------------------ MODULE PacketCodec ------------------------------
(***************************************************************************)
(* The parser of socket.io.js: packets to text and back, and payloads,     *)
(* which frame several packets in one text.                                *)
(*                                                                         *)
(* A text is a sequence of characters, a character a number: the digits    *)
(* are 0 .. 9, and the four characters that the format uses have names.    *)
(* JSON is opaque: the text of a value is the value between two marks, so  *)
(* that it may hold any of the other characters.  JSON.stringify leaves    *)
(* two of the characters that end a line, as they are, within strings.     *)
(***************************************************************************)
EXTENDS Integers, Sequences, SequencesExt

Digit == 0 .. 9
Colon == 10
Plus == 11
Separator == 12   \* \ufffd
Mark == 13
LineEnd == 14     \* \u2028 or \u2029
Other == 15       \* any other character
Character == 0 .. 15

Types == <<"disconnect", "connect", "heartbeat", "message", "json",
           "event", "ack", "error", "noop">>

(* An error's reason is an index of reasons, or there is none; its advice  *)
(* can only be the one there is, "reconnect".                              *)
NoReason == 3
Reconnect == <<0>>

(* A packet.  id is 0 if it has none.  Of the fields of its type, text is  *)
(* data, qs, args or advice, and num the name of an event, ackId or reason.*)
Packet(type, endpoint, id, ack, num, text) ==
  [type |-> type, endpoint |-> endpoint, id |-> id, ack |-> ack,
   num |-> num, text |-> text]

Undefined == Packet("undefined", <<>>, 0, "none", 0, <<>>)

(***************************************************************************)
(* Text.                                                                   *)
(***************************************************************************)

Decimal(n) ==
  LET digits[m \in Nat] ==
        IF m < 10 THEN <<m>> ELSE Append(digits[m \div 10], m % 10)
  IN  digits[n]

AllDigits(s) == \A i \in DOMAIN s : s[i] \in Digit

Number(s) ==
  LET value[n \in 0 .. Len(s)] ==
        IF n = 0 THEN 0 ELSE 10 * value[n - 1] + s[n]
  IN  value[Len(s)]

Stringify(v) == <<Mark>> \o v \o <<Mark>>

IsJson(s) == Len(s) > 1 /\ s[1] = Mark /\ s[Len(s)] = Mark

Parse(s) == SubSeq(s, 2, Len(s) - 1)

IndexOf(seq, x) ==
  IF \E i \in DOMAIN seq : seq[i] = x
  THEN (CHOOSE i \in DOMAIN seq : seq[i] = x /\ x \notin Range(SubSeq(seq, 1, i - 1))) - 1
  ELSE -1

(* The first place from i on, if there is one, where c is.                 *)
NextOf(s, c, i) ==
  CHOOSE j \in i .. Len(s) + 1 :
    /\ j <= Len(s) => s[j] = c
    /\ \A k \in i .. j - 1 : s[k] # c

(***************************************************************************)
(* Encoding.                                                               *)
(***************************************************************************)

(* The data fragment, with its colon, or nothing.                          *)
Data(p) ==
  LET fragment(s) == <<Colon>> \o s IN
  CASE p.type = "error" ->
         LET reason == IF p.num = NoReason THEN <<>> ELSE <<p.num>>
         IN  IF p.text = Reconnect THEN fragment(reason \o <<Plus, 0>>)
             ELSE IF reason # <<>> THEN fragment(reason)
             ELSE <<>>
    [] p.type \in {"message", "connect"} ->
         IF p.text = <<>> THEN <<>> ELSE fragment(p.text)
    [] p.type = "event" -> fragment(Stringify(<<p.num>> \o p.text))
    [] p.type = "json"  -> fragment(Stringify(p.text))
    [] p.type = "ack"   ->
         fragment(Decimal(p.num) \o
           (IF p.text = <<>> THEN <<>> ELSE <<Plus>> \o Stringify(p.text)))
    [] OTHER -> <<>>

EncodePacket(p) ==
  <<IndexOf(Types, p.type), Colon>>
    \o (IF p.id = 0 THEN <<>> ELSE Decimal(p.id))
    \o (IF p.ack = "data" THEN <<Plus>> ELSE <<>>)
    \o <<Colon>> \o p.endpoint \o Data(p)

EncodePayload(messages) ==
  IF Len(messages) = 1 THEN messages[1]
  ELSE FlattenSeq([i \in DOMAIN messages |->
         <<Separator>> \o Decimal(Len(messages[i])) \o <<Separator>>
           \o messages[i]])

(***************************************************************************)
(* Decoding.                                                               *)
(***************************************************************************)

(* A packet is matched by: characters other than a colon, a colon, digits, *)
(* an optional plus, a colon, characters other than a colon, an optional   *)
(* colon, anything.  Where the first two colons are, in any match.         *)
PacketMatches(s) ==
  {jk \in (DOMAIN s) \X (DOMAIN s) :
     LET j == jk[1]
         k == jk[2]
         id == SubSeq(s, j + 1, k - 1)
     IN
     /\ 1 < j /\ j < k
     /\ s[j] = Colon /\ s[j - 1] # Colon /\ s[k] = Colon
     /\ \/ AllDigits(id)
        \/ id[Len(id)] = Plus /\ AllDigits(SubSeq(id, 1, Len(id) - 1))}

(* The fields that the data fragment holds, by type.  The arguments of an  *)
(* acknowledgment are what its expression matches to the end of the line,  *)
(* and a part of a JSON text is none.                                      *)
WithData(p, data) ==
  CASE p.type = "error" ->
         LET plus == NextOf(data, Plus, 1)
             reason == SubSeq(data, 1, plus - 1)
         IN  [p EXCEPT
                !.num = IF reason \in {<<0>>, <<1>>, <<2>>} THEN reason[1]
                        ELSE NoReason,
                !.text = IF SubSeq(data, plus + 1, Len(data)) = Reconnect
                         THEN Reconnect ELSE <<>>]
    [] p.type \in {"message", "connect"} -> [p EXCEPT !.text = data]
    [] p.type = "event" ->
         IF IsJson(data) /\ Len(data) > 2
         THEN [p EXCEPT !.num = data[2], !.text = Tail(Parse(data))]
         ELSE p
    [] p.type = "json" ->
         IF IsJson(data) THEN [p EXCEPT !.text = Parse(data)] ELSE p
    [] p.type = "ack" ->
         LET digits == CHOOSE n \in 0 .. Len(data) :
                         /\ AllDigits(SubSeq(data, 1, n))
                         /\ n < Len(data) => data[n + 1] \notin Digit
             rest == SubSeq(data, digits + 1, Len(data))
             args == IF rest # <<>> /\ rest[1] = Plus THEN Tail(rest) ELSE rest
         IN  IF digits = 0 THEN p
             ELSE [p EXCEPT !.num = Number(SubSeq(data, 1, digits)),
                            !.text = IF IsJson(args) /\ LineEnd \notin Range(args)
                                     THEN Parse(args) ELSE <<>>]
    [] OTHER -> p

(* The match is the leftmost one: of several, that with the first colon.   *)
DecodePacket(s) ==
  LET jk == CHOOSE m \in PacketMatches(s) : \A n \in PacketMatches(s) : m[1] <= n[1]
      j == jk[1]
      k == jk[2]
      before == CHOOSE i \in 0 .. j - 1 :
                  /\ i > 0 => s[i] = Colon
                  /\ \A h \in i + 1 .. j - 1 : s[h] # Colon
      type == SubSeq(s, before + 1, j - 1)
      plus == s[k - 1] = Plus
      id == SubSeq(s, j + 1, IF plus THEN k - 2 ELSE k - 1)
      colon == NextOf(s, Colon, k + 1)
      packet ==
        Packet(IF Len(type) = 1 /\ type[1] + 1 \in DOMAIN Types
               THEN Types[type[1] + 1] ELSE "undefined",
               SubSeq(s, k + 1, colon - 1),
               Number(id),
               IF id = <<>> THEN "none" ELSE IF plus THEN "data" ELSE "true",
               IF type = <<7>> THEN NoReason ELSE 0,
               <<>>)
  IN
  IF PacketMatches(s) = {} THEN Undefined
  ELSE WithData(packet, SubSeq(s, colon + 1, Len(s)))

(* Mutated: the packet ends with the next separator, not with its length.  *)
DecodePayloadBySeparator(s) ==
  LET from[i \in 1 .. Len(s) + 2] ==
        IF i > Len(s) \/ NextOf(s, Separator, i) > Len(s) THEN <<>>
        ELSE LET j == NextOf(s, Separator, i)
                 end == NextOf(s, Separator, j + 1)
             IN  <<DecodePacket(SubSeq(s, j + 1, end - 1))>>
                   \o from[IF end <= Len(s) THEN end + 1 ELSE Len(s) + 1]
  IN
  IF s # <<>> /\ s[1] = Separator THEN from[2] ELSE <<DecodePacket(s)>>

(* The length is what stands between two separators.  What is not a number *)
(* there ends the loop, with an empty packet.                              *)
DecodePayload(s) ==
  LET from[i \in 1 .. Len(s) + 2] ==
        LET j == NextOf(s, Separator, i)
            length == Number(SubSeq(s, i, j - 1))
            end == IF j + length > Len(s) THEN Len(s) ELSE j + length
        IN
        IF i > Len(s) \/ j > Len(s) THEN <<>>
        ELSE IF ~AllDigits(SubSeq(s, i, j - 1)) THEN <<Undefined>>
        ELSE <<DecodePacket(SubSeq(s, j + 1, end))>> \o from[end + 2]
  IN
  IF s # <<>> /\ s[1] = Separator THEN from[2] ELSE <<DecodePacket(s)>>

==============================================================================
