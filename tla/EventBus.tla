------------------------------ MODULE EventBus ------------------------------
(***************************************************************************)
(* What the client's EventEmitter promises: for each event a list of       *)
(* listeners in the order of their registration.  An emission delivers the *)
(* event to the listeners that were there when it began, in that order,    *)
(* whatever they do meanwhile, emit the event again included.              *)
(*                                                                         *)
(* A listener is a record: wrap = 0 for a function fn that was added with  *)
(* on, and the number of the call of once that wrapped fn otherwise.       *)
(***************************************************************************)
EXTENDS Naturals, Sequences

CONSTANTS
  Event,     \* names of events
  Function,  \* functions of the application
  MaxOnce    \* bound: the calls of once

VARIABLES
  listeners,  \* [Event -> Seq of listeners]
  stack       \* emissions under way, the innermost first

busVars == <<listeners, stack>>

Init ==
  /\ listeners = [e \in Event |-> <<>>]
  /\ stack = <<>>

(* list without its element i.                                             *)
Without(list, i) == SubSeq(list, 1, i - 1) \o SubSeq(list, i + 1, Len(list))

(* The place of the first listener for f, if there is one.                 *)
First(list, f) == {i \in DOMAIN list :
                     list[i].fn = f /\ \A j \in 1 .. i - 1 : list[j].fn # f}

Holds(list, l) == \E i \in DOMAIN list : list[i] = l

(* list without l, if it is there.                                         *)
Drop(list, l) ==
  IF Holds(list, l)
  THEN Without(list, CHOOSE i \in DOMAIN list : list[i] = l)
  ELSE list

Add(e) ==
  /\ \E f \in Function, n \in 0 .. MaxOnce :
       listeners' = [listeners EXCEPT
                       ![e] = Append(@, [fn |-> f, wrap |-> n])]
  /\ UNCHANGED stack

Remove(e, f) ==
  /\ \E i \in First(listeners[e], f) :
       listeners' = [listeners EXCEPT ![e] = Without(@, i)]
  /\ UNCHANGED stack

Clear(E) ==
  /\ E # {}
  /\ listeners' = [e \in Event |-> IF e \in E THEN <<>> ELSE listeners[e]]
  /\ UNCHANGED stack

Emit(e) ==
  /\ listeners[e] # <<>>
  /\ stack' = <<[event |-> e, rest |-> listeners[e]]>> \o stack
  /\ UNCHANGED listeners

(* The next listener is called; one that was added with once is gone by    *)
(* then.                                                                   *)
Deliver ==
  /\ stack # <<>>
  /\ LET top == Head(stack)
         l == Head(top.rest)
         e == top.event
     IN
     /\ top.rest # <<>>
     /\ stack' = [stack EXCEPT ![1].rest = Tail(@)]
     /\ listeners' =
          [listeners EXCEPT ![e] = IF l.wrap = 0 THEN @ ELSE Drop(@, l)]
     /\ l.wrap # 0 => ~Holds(listeners'[e], l)

(* All were called.                                                        *)
End ==
  /\ stack # <<>>
  /\ Head(stack).rest = <<>>
  /\ stack' = Tail(stack)
  /\ UNCHANGED listeners

(* A listener threw, which ends the emissions it is called from, up to the *)
(* one where it is caught.                                                 *)
Fail ==
  /\ \E k \in DOMAIN stack : stack' = SubSeq(stack, k + 1, Len(stack))
  /\ UNCHANGED listeners

Next ==
  \/ \E e \in Event :
       \/ Add(e)
       \/ \E f \in Function : Remove(e, f)
       \/ Emit(e)
  \/ \E E \in SUBSET Event : Clear(E)
  \/ Deliver
  \/ End
  \/ Fail

Spec == Init /\ [][Next]_busVars

==============================================================================
