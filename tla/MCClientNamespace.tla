-------------------------- MODULE MCClientNamespace --------------------------
(* Instances of ClientNamespace for TLC.                                   *)
EXTENDS ClientNamespace

(* An application that sends messages of all kinds over a transport that   *)
(* takes them; one that emits events over a transport that may refuse; and *)
(* one that sends over a polling transport.                                *)
MCWorlds ==
  {[kinds |-> {"message", "json", "event"}, throws |-> FALSE, polls |-> FALSE],
   [kinds |-> {"event"}, throws |-> TRUE, polls |-> FALSE],
   [kinds |-> {"message"}, throws |-> FALSE, polls |-> TRUE]}
=============================================================================
