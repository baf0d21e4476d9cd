----------------------------- MODULE SocketIOFrame -----------------------------
(***************************************************************************)
(* The server's side of the wire format: SocketIOFrame.parse and encode.   *)
(* Texts are those of PacketCodec; here their characters are counted from  *)
(* 0, as in Java.  A result has the field threw: NumberFormatException and *)
(* StringIndexOutOfBoundsException leave parse, and nothing is returned.   *)
(***************************************************************************)
EXTENDS PacketCodec

At(s, i) == s[i + 1]

(* data.substring(from, to), and where it throws.                          *)
Substring(s, from, to) == SubSeq(s, from + 1, to)
OutOfBounds(s, from, to) == from > to \/ to > Len(s)

(* data.indexOf(c, from)                                                   *)
IndexFrom(s, c, from) ==
  LET at == NextOf(s, c, from + 1) IN IF at > Len(s) THEN -1 ELSE at - 1

(* Integer.parseInt takes a sign, but no sign alone.                       *)
Unsigned(s) == IF s # <<>> /\ s[1] = Plus THEN Tail(s) ELSE s

NotANumber(s) == Unsigned(s) = <<>> \/ ~AllDigits(Unsigned(s))

ParseInt(s) == Number(Unsigned(s))

(* A frame keeps its type and its data: message id and endpoint are parsed *)
(* and dropped.                                                            *)
Frame(type, data) == [type |-> type, data |-> data]

Exception == [frames |-> <<>>, threw |-> TRUE]

(* Mutated: a frame ends where the payload ends.                           *)
FrameAtGreedy(s, start, messageEnd) ==
  LET idEnd == IndexFrom(s, Colon, start + 2)
      id == Substring(s, start + 3, idEnd)
      endpointEnd == IndexFrom(s, Colon, idEnd + 1)
      dataStart == endpointEnd + 1
  IN
  IF \/ OutOfBounds(s, start, start + 1) \/ NotANumber(<<At(s, start)>>)
     \/ idEnd - (start + 2) > 1 /\ NotANumber(id)
     \/ OutOfBounds(s, dataStart, messageEnd)
  THEN Exception
  ELSE IF At(s, start) > 8 THEN [frames |-> <<>>, threw |-> FALSE]
  ELSE [frames |-> <<Frame(At(s, start), Substring(s, dataStart, Len(s)))>>,
        threw |-> FALSE]

(* One frame, which starts at start.  A missing colon is found at -1, which *)
(* makes the data start at 0; ids of one digit are not looked at, of the   *)
(* others all but the first character are.  isHexDigit is always true.     *)
FrameAt(s, start, messageEnd) ==
  LET idEnd == IndexFrom(s, Colon, start + 2)
      id == Substring(s, start + 3, idEnd)
      endpointEnd == IndexFrom(s, Colon, idEnd + 1)
      dataStart == endpointEnd + 1
  IN
  IF \/ OutOfBounds(s, start, start + 1) \/ NotANumber(<<At(s, start)>>)
     \/ idEnd - (start + 2) > 1 /\ NotANumber(id)
     \/ OutOfBounds(s, dataStart, messageEnd)
  THEN Exception
  ELSE IF At(s, start) > 8 THEN [frames |-> <<>>, threw |-> FALSE]
  ELSE [frames |-> <<Frame(At(s, start), Substring(s, dataStart, messageEnd))>>,
        threw |-> FALSE]

(* parse: the frames of a payload, until one is of an unknown type.        *)
ParseFrames(s) ==
  LET from[start \in 0 .. Len(s)] ==
        LET framed == At(s, start) = Separator
            lengthEnd == IndexFrom(s, Separator, start + 1)
            length == Substring(s, start + 1, lengthEnd)
            first == IF framed THEN lengthEnd + 1 ELSE start
            messageEnd == IF framed THEN first + ParseInt(length) ELSE Len(s)
            head == FrameAt(s, first, messageEnd)
            rest == from[messageEnd]
        IN
        IF start = Len(s) THEN [frames |-> <<>>, threw |-> FALSE]
        ELSE IF framed /\ (lengthEnd = -1 \/ NotANumber(length)) THEN Exception
        ELSE IF head.threw \/ head.frames = <<>> THEN head
        ELSE IF rest.threw THEN rest
        ELSE [rest EXCEPT !.frames = head.frames \o @]
  IN  from[0]

(* Mutated: two colons, as the client writes packets without data.         *)
EncodeFrameShort(f) == <<f.type, Colon, Colon>> \o f.data

(* encode: never an id or an endpoint, always a data fragment.             *)
EncodeFrame(f) == <<f.type, Colon, Colon, Colon>> \o f.data

==============================================================================
