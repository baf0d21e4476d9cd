----------------------------- MODULE EventEmitter -----------------------------
(***************************************************************************)
(* EventEmitter of socket.io.js, the base of Socket, SocketNamespace and   *)
(* the transports.  $events holds for a name nothing, one function, or an  *)
(* array of functions that on and removeListener change in place.          *)
(*                                                                         *)
(* A listener runs between the step that calls it and its return, and may  *)
(* call the emitter meanwhile, emit included: stack holds the calls of     *)
(* emit that have not returned.  An exception of a listener leaves the     *)
(* inner ones, up to the listener that catches it.                         *)
(***************************************************************************)
EXTENDS Naturals, Sequences

CONSTANTS
  Event,       \* names of events
  Function,    \* functions of the application
  MaxOnce,     \* bound: the calls of once
  MaxList,     \* bound: the listeners of an event
  MaxDepth     \* bound: emissions nested in one another

ASSUME BoundsAssumption == {MaxOnce, MaxList, MaxDepth} \subseteq Nat

VARIABLES
  events,  \* $events: what is kept for each name
  stack,   \* emissions under way, the innermost first
  once     \* calls of once so far

emitterVars == <<events, stack, once>>

(* The functions that are listeners: Plain(f), and the functions "on" that *)
(* once makes, of which each call makes a new one.                         *)
Listener == [fn : Function, wrap : 0 .. MaxOnce]
Plain(f) == [fn |-> f, wrap |-> 0]

Nothing == [kind |-> "nothing", list |-> <<>>]
One(l) == [kind |-> "function", list |-> <<l>>]
Array(list) == [kind |-> "array", list |-> list]

TypeOK ==
  /\ events \in [Event -> [kind : {"nothing", "function", "array"},
                          list : Seq(Listener)]]
  /\ \A e \in Event :
       /\ events[e].kind = "nothing" => events[e].list = <<>>
       /\ events[e].kind = "function" => Len(events[e].list) = 1
  /\ stack \in Seq([event : Event, rest : Seq(Listener)])
  /\ once \in 0 .. MaxOnce

Init ==
  /\ events = [e \in Event |-> Nothing]
  /\ stack = <<>>
  /\ once = 0

(***************************************************************************)
(* The methods, as operators on what is kept for a name.                   *)
(***************************************************************************)

(* Mutated: what is kept is taken for an array if there is anything.       *)
OnPushes(kept, l) ==
  IF kept.kind = "nothing" THEN One(l)
  ELSE [kept EXCEPT !.list = Append(@, l)]

On(kept, l) ==
  CASE kept.kind = "nothing"  -> One(l)
    [] kept.kind = "array"    -> Array(Append(kept.list, l))
    [] kept.kind = "function" -> Array(<<kept.list[1], l>>)

(* Is l the function fn, or a wrapper whose .listener is fn?               *)
Matches(l, fn) == l = fn \/ (l.wrap # 0 /\ Plain(l.fn) = fn)

RemoveListener(kept, fn) ==
  LET list == kept.list
      found == {i \in DOMAIN list : Matches(list[i], fn)}
      pos == CHOOSE i \in found : \A j \in found : i <= j
      rest == SubSeq(list, 1, pos - 1) \o SubSeq(list, pos + 1, Len(list))
  IN
  IF found = {} THEN kept
  ELSE IF rest = <<>> THEN Nothing
  ELSE Array(rest)

(* listeners(name) keeps an array from then on, which may be empty.        *)
Listeners(kept) == Array(kept.list)

(***************************************************************************)
(* The calls.                                                              *)
(***************************************************************************)

CallOn(e, f) ==
  /\ Len(events[e].list) < MaxList
  /\ events' = [events EXCEPT ![e] = On(@, Plain(f))]
  /\ UNCHANGED <<stack, once>>

CallOnce(e, f) ==
  /\ once < MaxOnce
  /\ Len(events[e].list) < MaxList
  /\ once' = once + 1
  /\ events' = [events EXCEPT ![e] = On(@, [fn |-> f, wrap |-> once + 1])]
  /\ UNCHANGED stack

CallRemoveListener(e, f) ==
  /\ events' = [events EXCEPT ![e] = RemoveListener(@, Plain(f))]
  /\ UNCHANGED <<stack, once>>

(* For one name, or, if the name is undefined, for all.                    *)
CallRemoveAllListeners(E) ==
  /\ E = Event \/ \E e \in Event : E = {e}
  /\ events' = [e \in Event |-> IF e \in E THEN Nothing ELSE events[e]]
  /\ UNCHANGED <<stack, once>>

CallListeners(e) ==
  /\ events' = [events EXCEPT ![e] = Listeners(@)]
  /\ UNCHANGED <<stack, once>>

(* emit takes a copy of the array before it calls the first listener.      *)
CallEmit(e) ==
  /\ Len(stack) < MaxDepth
  /\ events[e].list # <<>>
  /\ stack' = <<[event |-> e, rest |-> events[e].list]>> \o stack
  /\ UNCHANGED <<events, once>>

(* Mutated: emit goes through the array itself, which changes meanwhile.   *)
CallNextLive ==
  LET top == Head(stack)
      list == events[top.event].list
      at == Len(list) - Len(top.rest) + 1
      l == IF at \in DOMAIN list THEN list[at] ELSE Head(top.rest)
  IN
  /\ stack # <<>>
  /\ top.rest # <<>>
  /\ stack' = [stack EXCEPT ![1].rest = Tail(@)]
  /\ events' = IF l.wrap = 0 THEN events
               ELSE [events EXCEPT ![top.event] = RemoveListener(@, l)]
  /\ UNCHANGED once

(* The next listener is called.  A wrapper first removes itself.           *)
CallNext ==
  LET top == Head(stack)
      l == Head(top.rest)
  IN
  /\ stack # <<>>
  /\ top.rest # <<>>
  /\ stack' = [stack EXCEPT ![1].rest = Tail(@)]
  /\ events' = IF l.wrap = 0 THEN events
               ELSE [events EXCEPT ![top.event] = RemoveListener(@, l)]
  /\ UNCHANGED once

EmitReturns ==
  /\ stack # <<>>
  /\ Head(stack).rest = <<>>
  /\ stack' = Tail(stack)
  /\ UNCHANGED <<events, once>>

(* The innermost emissions are over, up to the one whose listener catches  *)
(* the exception, or all of them.                                          *)
ListenerThrows ==
  /\ \E k \in DOMAIN stack : stack' = SubSeq(stack, k + 1, Len(stack))
  /\ UNCHANGED <<events, once>>

Next ==
  \/ \E e \in Event, f \in Function :
       \/ CallOn(e, f)
       \/ CallOnce(e, f)
       \/ CallRemoveListener(e, f)
  \/ \E E \in SUBSET Event : CallRemoveAllListeners(E)
  \/ \E e \in Event : CallListeners(e) \/ CallEmit(e)
  \/ CallNext
  \/ EmitReturns
  \/ ListenerThrows

Spec == Init /\ [][Next]_emitterVars

(***************************************************************************)
(* Properties.                                                             *)
(***************************************************************************)

(* The list behind what is kept for each name.                             *)
BusListeners == [e \in Event |-> events[e].list]

(* The three representations, changed in place while emissions are under   *)
(* way, behave as a list of listeners of which each emission sees one      *)
(* state: nobody is skipped or called twice in an emission because another *)
(* was removed, and removeListener takes out the first match only.         *)
Bus == INSTANCE EventBus WITH listeners <- BusListeners
ImplementsEventBus == Bus!Spec

==============================================================================
