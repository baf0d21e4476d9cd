--------------------------- MODULE MCClientLibrary ---------------------------
(***************************************************************************)
(* The two parts of socket.io.js that work on their own, EventEmitter and  *)
(* the parser, for TLC.  They share no state, so that a behaviour is one   *)
(* of the emitter or one of the codec.  Events and functions are model     *)
(* values, and can be exchanged with one another.                          *)
(***************************************************************************)
EXTENDS EventEmitter, FrameCodec, TLC

VARIABLE part  \* "emitter" or "codec"

libraryVars == <<part, emitterVars, codecVars>>

LibraryInit ==
  /\ part \in {"emitter", "codec"}
  /\ Init
  /\ CodecInit

EmitterStep ==
  /\ part = "emitter"
  /\ Next
  /\ UNCHANGED <<part, codecVars>>

CodecStep ==
  /\ part = "codec"
  /\ CodecNext
  /\ UNCHANGED <<part, emitterVars>>

LibraryNext == EmitterStep \/ CodecStep

LibrarySpec == LibraryInit /\ [][LibraryNext]_libraryVars

Symmetry == Permutations(Event) \cup Permutations(Function)

==============================================================================
