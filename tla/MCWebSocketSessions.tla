------------------------- MODULE MCWebSocketSessions -------------------------
(* Instances of WebSocketSessions for TLC: who shares a session id.        *)
EXTENDS WebSocketSessions, TLC

CONSTANTS c1, c2, s1, r1, r2

(* A client that reconnects: its HTTP session, and so its id, is the same. *)
SidSame == (c1 :> s1) @@ (c2 :> s1)

(* One connection.                                                         *)
SidOne == (c1 :> s1)

TargetOne == (r1 :> s1)
TargetTwice == (r1 :> s1) @@ (r2 :> s1)
=============================================================================
