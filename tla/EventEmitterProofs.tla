--------------------------- MODULE EventEmitterProofs ---------------------------
(***************************************************************************)
(* EventEmitter implements EventBus, for all events and functions, lists   *)
(* and emissions of any length and depth.                                  *)
(***************************************************************************)
EXTENDS EventEmitter, SequenceTheorems, WellFoundedInduction, TLAPS

(* A call of once makes a new wrapper, so that no list has it twice.       *)
Distinct(list, n) ==
  /\ \A i \in 1 .. Len(list) : list[i].wrap <= n
  /\ \A i, j \in 1 .. Len(list) :
       list[i].wrap = list[j].wrap /\ list[i].wrap # 0 => i = j

WrappersInv == \A e \in Event : Distinct(events[e].list, once)

IInv == TypeOK /\ WrappersInv

(***************************************************************************)
(* Lists without one of their elements.                                    *)
(***************************************************************************)

(* What is left is what was there, in the same order.                      *)
LEMMA WithoutOne ==
  ASSUME NEW S, NEW list \in Seq(S), NEW i \in 1 .. Len(list)
  PROVE  LET rest == SubSeq(list, 1, i - 1) \o SubSeq(list, i + 1, Len(list))
         IN  /\ rest \in Seq(S)
             /\ Len(rest) = Len(list) - 1
             /\ \A j \in 1 .. Len(rest) :
                  rest[j] = IF j < i THEN list[j] ELSE list[j + 1]
<1> DEFINE front == SubSeq(list, 1, i - 1)
           back == SubSeq(list, i + 1, Len(list))
<1>1. Len(list) \in Nat
  BY LenProperties
<1>2. /\ front \in Seq(S)
      /\ Len(front) = i - 1
      /\ \A j \in 1 .. i - 1 : front[j] = list[j]
  BY <1>1
<1>3. /\ back \in Seq(S)
      /\ Len(back) = Len(list) - i
      /\ \A j \in 1 .. Len(list) - i : back[j] = list[j + i]
  BY <1>1
<1>4. /\ front \o back \in Seq(S)
      /\ Len(front \o back) = Len(front) + Len(back)
      /\ \A j \in 1 .. Len(front) + Len(back) :
           (front \o back)[j] = IF j <= Len(front) THEN front[j]
                                ELSE back[j - Len(front)]
  BY <1>2, <1>3, ConcatProperties
<1> HIDE DEF front, back
<1>5. Len(front \o back) = Len(list) - 1
  BY <1>1, <1>2, <1>3, <1>4
<1>6. ASSUME NEW j \in 1 .. Len(front \o back)
      PROVE  (front \o back)[j] = IF j < i THEN list[j] ELSE list[j + 1]
  <2>1. CASE j < i
    BY <1>1, <1>2, <1>3, <1>4, <1>5, <2>1
  <2>2. CASE j >= i
    <3>1. (front \o back)[j] = back[j - (i - 1)]
      BY <1>1, <1>2, <1>3, <1>4, <1>5, <2>2
    <3>2. back[j - (i - 1)] = list[(j - (i - 1)) + i]
      BY <1>1, <1>3, <1>5, <2>2
    <3>3. (j - (i - 1)) + i = j + 1
      BY <1>1, <1>5
    <3> QED
      BY <2>2, <3>1, <3>2, <3>3
  <2> QED
    BY <1>1, <1>5, <2>1, <2>2
<1> QED
  BY <1>4, <1>5, <1>6 DEF front, back

(* There is a first of the places that match.                              *)
LEMMA FirstPlace ==
  ASSUME NEW T \in SUBSET Nat, T # {}
  PROVE  LET first == CHOOSE i \in T : \A j \in T : i <= j
         IN  first \in T /\ \A j \in T : first <= j
<1> DEFINE R == {ss \in Nat \X Nat : ss[1] < ss[2]}
<1>1. IsWellFoundedOn(R, Nat)
  BY NatLessThanWellFounded, Zenon DEF OpToRel
<1>2. \E i \in T : \A j \in T : ~(<<j, i>> \in R)
  BY <1>1, WFMin, Zenon
<1>3. PICK i \in T : \A j \in T : ~(<<j, i>> \in R)
  BY <1>2
<1>4. ASSUME NEW j \in T
      PROVE  i <= j
  <2>1. <<j, i>> \in Nat \X Nat /\ ~(<<j, i>> \in R)
    BY <1>3
  <2>2. ~(j < i)
    BY <2>1
  <2> QED
    BY <2>2
<1>5. \E k \in T : \A j \in T : k <= j
  BY <1>4
<1> QED
  BY <1>5

(***************************************************************************)
(* The methods on what is kept for a name, as changes of a list.           *)
(***************************************************************************)

Kept == [kind : {"nothing", "function", "array"}, list : Seq(Listener)]

(* The kinds and the lengths that go with them.                            *)
Fits(kept) ==
  /\ kept \in Kept
  /\ kept.kind = "nothing" => kept.list = <<>>
  /\ kept.kind = "function" => Len(kept.list) = 1

(* What is kept fits its kind: nothing, one listener, or a list.           *)
LEMMA TypeMeansFits == TypeOK => \A e \in Event : Fits(events[e])
  BY DEF TypeOK, Fits, Kept

(* on appends, whatever there was.                                         *)
LEMMA OnAppends ==
  ASSUME NEW kept, Fits(kept), NEW l \in Listener
  PROVE  Fits(On(kept, l)) /\ On(kept, l).list = Append(kept.list, l)
<1>1. kept.list \in Seq(Listener)
  BY DEF Fits, Kept
<1>2. Append(kept.list, l) \in Seq(Listener)
  BY <1>1, AppendProperties
<1>3. CASE kept.kind = "nothing"
  <2>1. <<l>> \in Seq(Listener) /\ Len(<<l>>) = 1
    OBVIOUS
  <2>2. kept.list = <<>>
    BY <1>3 DEF Fits
  <2>3. Append(<<>>, l) = <<l>>
    BY AppendProperties, EmptySeq, SeqEqual
  <2> QED
    BY <1>3, <2>1, <2>2, <2>3 DEF On, One, Fits, Kept
<1>4. CASE kept.kind = "function"
  <2>1. Len(kept.list) = 1 /\ kept.list[1] \in Listener
    BY <1>1, <1>4, ElementOfSeq DEF Fits
  <2>2. Append(kept.list, l) = <<kept.list[1], l>>
    <3>1. <<kept.list[1], l>> \in Seq(Listener)
      BY <2>1
    <3>2. /\ Len(Append(kept.list, l)) = Len(kept.list) + 1
          /\ \A i \in 1 .. Len(kept.list) :
               Append(kept.list, l)[i] = kept.list[i]
          /\ Append(kept.list, l)[Len(kept.list) + 1] = l
      BY <1>1, AppendProperties
    <3>3. /\ Len(Append(kept.list, l)) = 2
          /\ Append(kept.list, l)[1] = kept.list[1]
          /\ Append(kept.list, l)[2] = l
      BY <2>1, <3>2
    <3> DEFINE two == <<kept.list[1], l>>
    <3>4. /\ two \in Seq(Listener)
          /\ Len(two) = 2 /\ two[1] = kept.list[1] /\ two[2] = l
      BY <3>1
    <3> HIDE DEF two
    <3>5. /\ Len(Append(kept.list, l)) = Len(two)
          /\ \A i \in 1 .. Len(Append(kept.list, l)) :
               Append(kept.list, l)[i] = two[i]
      BY <3>3, <3>4
    <3>6. Append(kept.list, l) = two
      BY <1>2, <3>4, <3>5, SeqEqual
    <3> QED
      BY <3>6 DEF two
  <2> QED
    BY <1>2, <1>4, <2>2 DEF On, Array, Fits, Kept
<1>5. CASE kept.kind = "array"
  BY <1>2, <1>5 DEF On, Array, Fits, Kept
<1> QED
  BY <1>3, <1>4, <1>5 DEF Fits, Kept

(* removeListener takes out the first listener that matches, if there is   *)
(* one, and leaves what is kept alone, if not.                             *)
LEMMA RemoveTakesFirst ==
  ASSUME NEW kept, Fits(kept), NEW fn
  PROVE  /\ Fits(RemoveListener(kept, fn))
         /\ \/ /\ \A i \in 1 .. Len(kept.list) : ~Matches(kept.list[i], fn)
               /\ RemoveListener(kept, fn) = kept
            \/ \E i \in 1 .. Len(kept.list) :
                 /\ Matches(kept.list[i], fn)
                 /\ \A j \in 1 .. i - 1 : ~Matches(kept.list[j], fn)
                 /\ RemoveListener(kept, fn).list =
                      SubSeq(kept.list, 1, i - 1)
                        \o SubSeq(kept.list, i + 1, Len(kept.list))
<1> DEFINE found == {i \in DOMAIN kept.list : Matches(kept.list[i], fn)}
           pos == CHOOSE i \in found : \A j \in found : i <= j
           rest == SubSeq(kept.list, 1, pos - 1)
                     \o SubSeq(kept.list, pos + 1, Len(kept.list))
<1>1. kept.list \in Seq(Listener) /\ DOMAIN kept.list = 1 .. Len(kept.list)
  BY DEF Fits, Kept
<1>2. CASE found = {}
  <2>1. RemoveListener(kept, fn) = kept
    BY <1>2 DEF RemoveListener
  <2> QED
    BY <1>1, <1>2, <2>1
<1>3. CASE found # {}
  <2>1. found \in SUBSET Nat
    BY <1>1, LenProperties
  <2>2. pos \in found /\ \A j \in found : pos <= j
    BY <1>3, <2>1, FirstPlace
  <2> HIDE DEF pos
  <2>3. pos \in 1 .. Len(kept.list) /\ Matches(kept.list[pos], fn)
    BY <1>1, <2>2
  <2>4. \A j \in 1 .. pos - 1 : ~Matches(kept.list[j], fn)
    BY <1>1, <2>2, <2>3, LenProperties
  <2>5. rest \in Seq(Listener)
    BY <1>1, <2>3, WithoutOne
  <2>6. RemoveListener(kept, fn) = IF rest = <<>> THEN Nothing ELSE Array(rest)
    BY <1>3 DEF RemoveListener, pos
  <2> HIDE DEF rest
  <2>7. RemoveListener(kept, fn).list = rest /\ Fits(RemoveListener(kept, fn))
    BY <2>5, <2>6 DEF Nothing, Array, Fits, Kept
  <2> QED
    BY <2>3, <2>4, <2>7 DEF rest
<1> QED
  BY <1>2, <1>3

(***************************************************************************)
(* The invariant.                                                          *)
(***************************************************************************)

(* At first nothing is kept, and no wrapper is made.                       *)
LEMMA InitIInv == Init => IInv
<1> SUFFICES ASSUME Init
             PROVE  IInv
  OBVIOUS
<1>1. Nothing \in Kept /\ Nothing.kind = "nothing" /\ Nothing.list = <<>>
  BY EmptySeq DEF Nothing, Kept
<1>2. TypeOK
  <2>1. stack \in Seq([event : Event, rest : Seq(Listener)])
    BY EmptySeq DEF Init
  <2> QED
    BY <1>1, <2>1, BoundsAssumption DEF Init, TypeOK, Kept
<1>3. WrappersInv
  <2>1. Distinct(<<>>, once)
    BY EmptySeq DEF Distinct
  <2>2. \A e \in Event : events[e].list = <<>>
    BY <1>1 DEF Init
  <2> QED
    BY <2>1, <2>2 DEF WrappersInv
<1> QED
  BY <1>2, <1>3 DEF IInv

(* Wrappers have numbers.                                                  *)
LEMMA WrapsAreNumbers ==
  ASSUME NEW list \in Seq(Listener)
  PROVE  \A i \in 1 .. Len(list) : list[i].wrap \in Nat
<1> SUFFICES ASSUME NEW i \in 1 .. Len(list)
             PROVE  list[i].wrap \in Nat
  OBVIOUS
<1>1. list[i] \in Listener
  BY ElementOfSeq
<1> QED
  BY <1>1, BoundsAssumption DEF Listener

(* One listener more, of no wrapper or of a new one.                       *)
LEMMA AppendDistinct ==
  ASSUME NEW list \in Seq(Listener), NEW n \in Nat, Distinct(list, n),
         NEW l \in Listener, NEW m \in Nat,
         \/ l.wrap = 0 /\ m = n
         \/ l.wrap = n + 1 /\ m = n + 1
  PROVE  Distinct(Append(list, l), m)
<1>1. /\ Len(list) \in Nat
      /\ Len(Append(list, l)) = Len(list) + 1
      /\ \A i \in 1 .. Len(list) : Append(list, l)[i] = list[i]
      /\ Append(list, l)[Len(list) + 1] = l
  BY AppendProperties, LenProperties
<1>2. \A i \in 1 .. Len(list) : list[i].wrap \in Nat
  BY WrapsAreNumbers
<1>3. l.wrap \in Nat
  BY BoundsAssumption DEF Listener
<1>4. \A i \in 1 .. Len(Append(list, l)) :
        Append(list, l)[i] = IF i = Len(list) + 1 THEN l ELSE list[i]
  BY <1>1
<1>5. /\ \A i \in 1 .. Len(list) : list[i].wrap <= n
      /\ \A i, j \in 1 .. Len(list) :
           list[i].wrap = list[j].wrap /\ list[i].wrap # 0 => i = j
  BY DEF Distinct
<1> QED
  BY <1>1, <1>2, <1>3, <1>4, <1>5 DEF Distinct

(* One listener less.                                                      *)
LEMMA WithoutDistinct ==
  ASSUME NEW list \in Seq(Listener), NEW n, Distinct(list, n),
         NEW i \in 1 .. Len(list)
  PROVE  Distinct(SubSeq(list, 1, i - 1) \o SubSeq(list, i + 1, Len(list)), n)
<1> DEFINE rest == SubSeq(list, 1, i - 1) \o SubSeq(list, i + 1, Len(list))
<1>1. /\ Len(rest) = Len(list) - 1
      /\ \A j \in 1 .. Len(rest) :
           rest[j] = IF j < i THEN list[j] ELSE list[j + 1]
  BY WithoutOne
<1>2. Len(list) \in Nat
  BY LenProperties
<1> HIDE DEF rest
<1> DEFINE old(j) == IF j < i THEN j ELSE j + 1
<1>3. ASSUME NEW j \in 1 .. Len(rest)
      PROVE  old(j) \in 1 .. Len(list) /\ rest[j] = list[old(j)]
  BY <1>1, <1>2
<1>4. \A j, k \in 1 .. Len(rest) : old(j) = old(k) => j = k
  BY <1>1, <1>2
<1> HIDE DEF old
<1>5. /\ \A j \in 1 .. Len(list) : list[j].wrap <= n
      /\ \A j, k \in 1 .. Len(list) :
           list[j].wrap = list[k].wrap /\ list[j].wrap # 0 => j = k
  BY DEF Distinct
<1>6. \A j \in 1 .. Len(rest) : rest[j].wrap <= n
  BY <1>3, <1>5
<1>7. ASSUME NEW j \in 1 .. Len(rest), NEW k \in 1 .. Len(rest),
             rest[j].wrap = rest[k].wrap, rest[j].wrap # 0
      PROVE  j = k
  <2>1. old(j) = old(k)
    BY <1>3, <1>5, <1>7
  <2> QED
    BY <1>4, <2>1
<1>8. Distinct(rest, n)
  BY <1>6, <1>7 DEF Distinct
<1> QED
  BY <1>8 DEF rest

(* A call that changes what is kept for one name.                          *)
LEMMA Keeps ==
  ASSUME IInv, NEW e \in Event, NEW kept, Fits(kept),
         events' = [events EXCEPT ![e] = kept],
         stack' \in Seq([event : Event, rest : Seq(Listener)]),
         once' \in once .. MaxOnce,
         Distinct(kept.list, once')
  PROVE  IInv'
<1>1. \A d \in Event : events'[d] = IF d = e THEN kept ELSE events[d]
  BY DEF IInv, TypeOK
<1>2. TypeOK'
  <2>1. \A d \in Event : Fits(events'[d])
    BY <1>1, TypeMeansFits DEF IInv
  <2>2. events' \in [Event -> Kept]
    BY <2>1 DEF IInv, TypeOK, Fits, Kept
  <2>3. once' \in 0 .. MaxOnce
    BY BoundsAssumption DEF IInv, TypeOK
  <2> QED
    BY <2>1, <2>2, <2>3 DEF TypeOK, Fits, Kept
<1>3. ASSUME NEW d \in Event, d # e
      PROVE  Distinct(events[d].list, once')
  <2>1. events'[d] = events[d]
    BY <1>1, <1>3
  <2>2. events[d].list \in Seq(Listener)
    BY DEF IInv, TypeOK
  <2>3. \A i \in 1 .. Len(events[d].list) : events[d].list[i].wrap \in Nat
    BY <2>2, WrapsAreNumbers
  <2> QED
    BY <2>1, <2>3, BoundsAssumption DEF IInv, TypeOK, WrappersInv, Distinct
<1>4. WrappersInv'
  BY <1>1, <1>3 DEF WrappersInv
<1> QED
  BY <1>2, <1>4 DEF IInv

(* The call of the next listener, on the stack.                            *)
LEMMA NextOnStack ==
  ASSUME stack \in Seq([event : Event, rest : Seq(Listener)]), stack # <<>>,
         Head(stack).rest # <<>>,
         stack' = [stack EXCEPT ![1].rest = Tail(@)]
  PROVE  /\ stack' \in Seq([event : Event, rest : Seq(Listener)])
         /\ Head(stack) = stack[1]
         /\ Head(stack).event \in Event
         /\ Head(stack).rest \in Seq(Listener)
         /\ Head(Head(stack).rest) \in Listener
<1> DEFINE frame == [event : Event, rest : Seq(Listener)]
<1>1. /\ Len(stack) \in Nat \ {0}
      /\ Head(stack) = stack[1]
      /\ stack[1] \in frame
  <2>1. Len(stack) \in Nat \ {0}
    BY EmptySeq
  <2>2. stack[1] \in frame
    <3>1. stack \in Seq(frame) /\ 1 \in 1 .. Len(stack)
      BY <2>1
    <3> HIDE DEF frame
    <3> QED
      BY <3>1, ElementOfSeq
  <2>3. Head(stack) = stack[1]
    BY <2>1
  <2> QED
    BY <2>1, <2>2, <2>3
<1>2. Tail(stack[1].rest) \in Seq(Listener) /\ Head(stack[1].rest) \in Listener
  BY <1>1, HeadTailProperties
<1>3. [stack[1] EXCEPT !.rest = Tail(@)] \in frame
  BY <1>1, <1>2
<1>4. stack' = [stack EXCEPT ![1] = [stack[1] EXCEPT !.rest = Tail(@)]]
  OBVIOUS
<1>5. stack' \in Seq(frame)
  BY <1>1, <1>3, <1>4, ExceptSeq
<1> QED
  BY <1>1, <1>2, <1>5

(* Every method and every step of an emission keeps the invariant.         *)
LEMMA StepIInv == IInv /\ [Next]_emitterVars => IInv'
<1> SUFFICES ASSUME IInv, [Next]_emitterVars
             PROVE  IInv'
  OBVIOUS
<1> DEFINE Stacks == Seq([event : Event, rest : Seq(Listener)])
<1> USE BoundsAssumption
<1>1. /\ stack \in Stacks
      /\ once \in 0 .. MaxOnce
      /\ \A e \in Event : /\ Fits(events[e])
                          /\ events[e].list \in Seq(Listener)
                          /\ Distinct(events[e].list, once)
  BY TypeMeansFits DEF IInv, TypeOK, WrappersInv
<1>2. ASSUME NEW e \in Event, NEW f \in Function, CallOn(e, f)
      PROVE  IInv'
  <2> DEFINE kept == On(events[e], Plain(f))
  <2>1. Plain(f) \in Listener /\ Plain(f).wrap = 0
    BY DEF Plain, Listener
  <2>2. events' = [events EXCEPT ![e] = kept] /\ UNCHANGED <<stack, once>>
    BY <1>2 DEF CallOn
  <2>3. Fits(kept) /\ kept.list = Append(events[e].list, Plain(f))
    BY <1>1, <2>1, OnAppends
  <2>4. Distinct(kept.list, once')
    BY <1>1, <2>1, <2>2, <2>3, AppendDistinct
  <2>5. stack' \in Stacks /\ once' \in once .. MaxOnce
    BY <1>1, <2>2
  <2> HIDE DEF kept
  <2> QED
    BY <1>1, <2>2, <2>3, <2>4, <2>5, Keeps
<1>3. ASSUME NEW e \in Event, NEW f \in Function, CallOnce(e, f)
      PROVE  IInv'
  <2> DEFINE l == [fn |-> f, wrap |-> once + 1]
             kept == On(events[e], l)
  <2>1. /\ events' = [events EXCEPT ![e] = kept]
        /\ once' = once + 1 /\ once < MaxOnce
        /\ UNCHANGED stack
    BY <1>3 DEF CallOnce
  <2>2. l \in Listener /\ l.wrap = once + 1
    BY <1>1, <2>1 DEF Listener
  <2> HIDE DEF l
  <2>3. Fits(kept) /\ kept.list = Append(events[e].list, l)
    BY <1>1, <2>2, OnAppends
  <2>4. Distinct(kept.list, once')
    <3>1. once' \in Nat
      BY <1>1, <2>1
    <3> QED
      BY <1>1, <2>1, <2>2, <2>3, <3>1, AppendDistinct
  <2>5. stack' \in Stacks /\ once' \in once .. MaxOnce
    BY <1>1, <2>1
  <2> HIDE DEF kept
  <2> QED
    BY <1>1, <2>1, <2>3, <2>4, <2>5, Keeps
<1>4. ASSUME NEW e \in Event, NEW fn,
             events' = [events EXCEPT ![e] = RemoveListener(@, fn)],
             stack' \in Stacks, UNCHANGED once
      PROVE  IInv'
  <2> DEFINE kept == RemoveListener(events[e], fn)
  <2>1. Fits(kept)
    BY <1>1, RemoveTakesFirst
  <2>2. Distinct(kept.list, once)
    <3>1. \/ kept = events[e]
          \/ \E i \in 1 .. Len(events[e].list) :
               kept.list = SubSeq(events[e].list, 1, i - 1)
                 \o SubSeq(events[e].list, i + 1, Len(events[e].list))
      BY <1>1, RemoveTakesFirst
    <3> QED
      BY <1>1, <3>1, WithoutDistinct
  <2>3. events' = [events EXCEPT ![e] = kept]
    BY <1>4
  <2>5. /\ stack' \in Stacks
        /\ once' \in once .. MaxOnce
        /\ Distinct(kept.list, once')
    BY <1>1, <1>4, <2>2
  <2> HIDE DEF kept
  <2> QED
    BY <1>1, <2>1, <2>2, <2>3, <2>5, Keeps
<1>5. ASSUME NEW e \in Event, NEW f \in Function, CallRemoveListener(e, f)
      PROVE  IInv'
  BY <1>1, <1>4, <1>5 DEF CallRemoveListener
<1>6. ASSUME NEW E \in SUBSET Event, CallRemoveAllListeners(E)
      PROVE  IInv'
  <2>1. /\ events' = [e \in Event |-> IF e \in E THEN Nothing ELSE events[e]]
        /\ UNCHANGED <<stack, once>>
    BY <1>6 DEF CallRemoveAllListeners
  <2>2. /\ Fits(Nothing)
        /\ Distinct(Nothing.list, once)
    BY EmptySeq DEF Nothing, Fits, Kept, Distinct
  <2>3. \A e \in Event : Fits(events'[e]) /\ Distinct(events'[e].list, once)
    BY <1>1, <2>1, <2>2
  <2>4. TypeOK'
    BY <1>1, <2>1, <2>3 DEF TypeOK, Fits, Kept
  <2> QED
    BY <2>1, <2>3, <2>4 DEF IInv, WrappersInv
<1>7. ASSUME NEW e \in Event, CallListeners(e)
      PROVE  IInv'
  <2> DEFINE kept == Listeners(events[e])
  <2>1. kept.list = events[e].list /\ Fits(kept)
    BY <1>1 DEF Listeners, Array, Fits, Kept
  <2>2. events' = [events EXCEPT ![e] = kept] /\ UNCHANGED <<stack, once>>
    BY <1>7 DEF CallListeners
  <2>5. /\ stack' \in Stacks
        /\ once' \in once .. MaxOnce
        /\ Distinct(kept.list, once')
    BY <1>1, <2>1, <2>2
  <2> HIDE DEF kept
  <2> QED
    BY <1>1, <2>1, <2>2, <2>5, Keeps
<1>8. ASSUME stack' \in Stacks, UNCHANGED <<events, once>>
      PROVE  IInv'
  BY <1>8 DEF IInv, TypeOK, WrappersInv
<1>9. ASSUME NEW e \in Event, CallEmit(e)
      PROVE  IInv'
  <2>1. <<[event |-> e, rest |-> events[e].list]>> \in Stacks
    BY <1>1
  <2>2. stack' \in Stacks
    BY <1>1, <1>9, <2>1, ConcatProperties DEF CallEmit
  <2> QED
    BY <1>8, <1>9, <2>2 DEF CallEmit
<1>10. CASE CallNext
  <2>1. PICK l :
          /\ stack # <<>> /\ Head(stack).rest # <<>>
          /\ stack' = [stack EXCEPT ![1].rest = Tail(@)]
          /\ UNCHANGED once
          /\ events' = IF l.wrap = 0 THEN events
                       ELSE [events EXCEPT
                         ![Head(stack).event] = RemoveListener(@, l)]
    BY <1>10 DEF CallNext
  <2>2. stack' \in Stacks /\ Head(stack).event \in Event
    BY <1>1, <2>1, NextOnStack
  <2> QED
    BY <1>4, <1>8, <2>1, <2>2
<1>11. CASE EmitReturns
  BY <1>1, <1>8, <1>11, HeadTailProperties DEF EmitReturns
<1>12. CASE ListenerThrows
  <2>1. PICK k \in DOMAIN stack : stack' = SubSeq(stack, k + 1, Len(stack))
    BY <1>12 DEF ListenerThrows
  <2>2. stack' \in Stacks
    <3> DEFINE S == [event : Event, rest : Seq(Listener)]
    <3>1. /\ stack \in Seq(S) /\ Len(stack) \in Nat /\ k \in 1 .. Len(stack)
          /\ k + 1 \in Int
      BY <1>1, LenProperties
    <3> HIDE DEF S
    <3>2. \A i \in k + 1 .. Len(stack) : stack[i] \in S
      BY <3>1, ElementOfSeq
    <3>3. SubSeq(stack, k + 1, Len(stack)) \in Seq(S)
      BY <3>1, <3>2, SubSeqProperties
    <3> QED
      BY <2>1, <3>3 DEF S
  <2> QED
    BY <1>8, <1>12, <2>2 DEF ListenerThrows
<1>13. CASE UNCHANGED emitterVars
  BY <1>1, <1>8, <1>13 DEF emitterVars
<1> QED
  BY <1>2, <1>3, <1>5, <1>6, <1>7, <1>9, <1>10, <1>11, <1>12, <1>13 DEF Next

(* The inductive invariant holds of every behaviour.                       *)
THEOREM IInvHolds == Spec => []IInv
  BY InitIInv, StepIInv, PTL DEF Spec

(* What is kept for a name has one of three shapes, in step with its       *)
(* length.                                                                 *)
THEOREM TypeCorrect == Spec => []TypeOK
<1>1. IInv => TypeOK
  BY DEF IInv
<1> QED
  BY <1>1, IInvHolds, PTL

(***************************************************************************)
(* The refinement.                                                         *)
(***************************************************************************)

(* A change of what is kept for one name changes its list.                 *)
LEMMA ListOfOne ==
  ASSUME IInv, NEW e \in Event, NEW kept,
         events' = [events EXCEPT ![e] = kept]
  PROVE  BusListeners' = [BusListeners EXCEPT ![e] = kept.list]
<1>1. \A d \in Event : events'[d] = IF d = e THEN kept ELSE events[d]
  BY DEF IInv, TypeOK
<1>2. \A d \in Event :
        events'[d].list = IF d = e THEN kept.list ELSE events[d].list
  BY <1>1
<1> QED
  BY <1>2 DEF BusListeners

(* The function behind a listener decides whether removeListener takes it. *)
LEMMA MatchesFunction ==
  ASSUME NEW l \in Listener, NEW f \in Function
  PROVE  Matches(l, Plain(f)) <=> l.fn = f
<1>1. l = Plain(l.fn) <=> l.wrap = 0
  BY DEF Plain, Listener
<1>2. Plain(l.fn) = Plain(f) <=> l.fn = f
  BY DEF Plain
<1>3. l = Plain(f) => l.fn = f
  BY DEF Plain
<1> QED
  BY <1>1, <1>2, <1>3 DEF Matches

(* A wrapper takes out itself.                                             *)
LEMMA MatchesWrapper ==
  ASSUME NEW k \in Listener, NEW l \in Listener, l.wrap # 0
  PROVE  Matches(k, l) <=> k = l
  BY DEF Matches, Plain

(* A list without one element has lost it, if it was there once.           *)
LEMMA WrapperIsGone ==
  ASSUME NEW list \in Seq(Listener), NEW n, Distinct(list, n),
         NEW i \in 1 .. Len(list), list[i].wrap # 0
  PROVE  /\ Bus!Drop(list, list[i]) = Bus!Without(list, i)
         /\ ~Bus!Holds(Bus!Without(list, i), list[i])
<1>1. DOMAIN list = 1 .. Len(list) /\ Len(list) \in Nat
  BY LenProperties
<1>2. \A j \in 1 .. Len(list) : list[j] = list[i] => j = i
  BY DEF Distinct
<1>3. (CHOOSE j \in DOMAIN list : list[j] = list[i]) = i
  BY <1>1, <1>2
<1>4. Bus!Drop(list, list[i]) = Bus!Without(list, i)
  BY <1>1, <1>3 DEF Bus!Drop, Bus!Holds
<1>5. /\ Bus!Without(list, i) \in Seq(Listener)
      /\ Len(Bus!Without(list, i)) = Len(list) - 1
      /\ \A j \in 1 .. Len(Bus!Without(list, i)) :
           Bus!Without(list, i)[j] = IF j < i THEN list[j] ELSE list[j + 1]
  BY WithoutOne DEF Bus!Without
<1>6. DOMAIN Bus!Without(list, i) = 1 .. Len(Bus!Without(list, i))
  BY <1>5, LenProperties
<1>7. ASSUME NEW j \in 1 .. Len(Bus!Without(list, i))
      PROVE  Bus!Without(list, i)[j] # list[i]
  BY <1>1, <1>2, <1>5
<1>8. ~Bus!Holds(Bus!Without(list, i), list[i])
  BY <1>6, <1>7 DEF Bus!Holds
<1> QED
  BY <1>4, <1>8

(* What the wrapper of the top of the stack does to its list.              *)
LEMMA WrapperRemoved ==
  ASSUME IInv, NEW e \in Event, NEW l \in Listener, l.wrap # 0
  PROVE  /\ RemoveListener(events[e], l).list = Bus!Drop(events[e].list, l)
         /\ ~Bus!Holds(RemoveListener(events[e], l).list, l)
<1> DEFINE list == events[e].list
           kept == RemoveListener(events[e], l)
<1>1. /\ Fits(events[e])
      /\ list \in Seq(Listener)
      /\ DOMAIN list = 1 .. Len(list)
      /\ Distinct(list, once)
  BY TypeMeansFits, LenProperties DEF IInv, TypeOK, WrappersInv
<1>2. \A i \in 1 .. Len(list) : Matches(list[i], l) <=> list[i] = l
  BY <1>1, ElementOfSeq, MatchesWrapper
<1>3. \/ /\ \A i \in 1 .. Len(list) : ~Matches(list[i], l)
         /\ kept = events[e]
      \/ \E i \in 1 .. Len(list) :
           /\ Matches(list[i], l)
           /\ kept.list = Bus!Without(list, i)
  BY <1>1, RemoveTakesFirst DEF Bus!Without
<1> HIDE DEF kept, list
<1>4. CASE kept.list = list /\ \A i \in 1 .. Len(list) : list[i] # l
  BY <1>1, <1>4 DEF Bus!Drop, Bus!Holds, kept, list
<1>5. ASSUME NEW i \in 1 .. Len(list), list[i] = l,
             kept.list = Bus!Without(list, i)
      PROVE  kept.list = Bus!Drop(list, l) /\ ~Bus!Holds(kept.list, l)
  BY <1>1, <1>5, WrapperIsGone
<1> QED
  BY <1>2, <1>3, <1>4, <1>5 DEF kept, list

(* A step of the emitter is a step of the bus, or none: which kind of      *)
(* thing is kept for a name makes no difference to it.                     *)
LEMMA StepImplements == IInv /\ [Next]_emitterVars => [Bus!Next]_(Bus!busVars)
<1> SUFFICES ASSUME IInv, [Next]_emitterVars
             PROVE  [Bus!Next]_(Bus!busVars)
  OBVIOUS
<1>1. \A e \in Event : /\ Fits(events[e])
                       /\ events[e].list \in Seq(Listener)
                       /\ BusListeners[e] = events[e].list
  BY TypeMeansFits DEF IInv, TypeOK, BusListeners
<1>2. ASSUME NEW e \in Event, NEW l \in Listener,
             events' = [events EXCEPT ![e] = On(events[e], l)],
             UNCHANGED stack
      PROVE  Bus!Next
  <2>1. On(events[e], l).list = Append(BusListeners[e], l)
    BY <1>1, OnAppends
  <2>2. BusListeners' = [BusListeners EXCEPT ![e] = On(events[e], l).list]
    BY <1>2, ListOfOne
  <2>3. PICK f \in Function, n \in 0 .. MaxOnce : l = [fn |-> f, wrap |-> n]
    BY DEF Listener
  <2>4. Bus!Add(e)
    BY <1>2, <2>1, <2>2, <2>3 DEF Bus!Add
  <2> QED
    BY <2>4 DEF Bus!Next
<1>3. ASSUME NEW e \in Event, NEW f \in Function, CallOn(e, f)
      PROVE  Bus!Next
  <2>1. Plain(f) \in Listener
    BY BoundsAssumption DEF Plain, Listener
  <2>2. events' = [events EXCEPT ![e] = On(events[e], Plain(f))] /\ UNCHANGED stack
    BY <1>3 DEF CallOn
  <2> QED
    BY <1>2, <2>1, <2>2
<1>4. ASSUME NEW e \in Event, NEW f \in Function, CallOnce(e, f)
      PROVE  Bus!Next
  <2>1. [fn |-> f, wrap |-> once + 1] \in Listener
    BY <1>4, BoundsAssumption DEF CallOnce, Listener, IInv, TypeOK
  <2> QED
    BY <1>2, <1>4, <2>1 DEF CallOnce
<1>5. ASSUME NEW e \in Event, NEW f \in Function, CallRemoveListener(e, f)
      PROVE  [Bus!Next]_(Bus!busVars)
  <2> DEFINE list == events[e].list
             kept == RemoveListener(events[e], Plain(f))
  <2>1. events' = [events EXCEPT ![e] = kept] /\ UNCHANGED stack
    BY <1>5 DEF CallRemoveListener
  <2>2. BusListeners' = [BusListeners EXCEPT ![e] = kept.list]
    BY <2>1, ListOfOne
  <2>3. /\ list \in Seq(Listener)
        /\ DOMAIN list = 1 .. Len(list) /\ Len(list) \in Nat
    BY <1>1, LenProperties
  <2>4. \A i \in 1 .. Len(list) : Matches(list[i], Plain(f)) <=> list[i].fn = f
    BY <2>3, ElementOfSeq, MatchesFunction
  <2>5. \/ kept = events[e]
        \/ \E i \in 1 .. Len(list) :
             /\ Matches(list[i], Plain(f))
             /\ \A j \in 1 .. i - 1 : ~Matches(list[j], Plain(f))
             /\ kept.list = Bus!Without(list, i)
    BY <1>1, RemoveTakesFirst DEF Bus!Without
  <2>6. CASE kept = events[e]
    <3>1. BusListeners' = BusListeners
      BY <1>1, <2>2, <2>6 DEF BusListeners
    <3> QED
      BY <2>1, <3>1 DEF Bus!busVars
  <2>7. ASSUME NEW i \in 1 .. Len(list), Matches(list[i], Plain(f)),
               \A j \in 1 .. i - 1 : ~Matches(list[j], Plain(f)),
               kept.list = Bus!Without(list, i)
        PROVE  Bus!Next
    <3>1. list[i].fn = f /\ \A j \in 1 .. i - 1 : list[j].fn # f
      BY <2>3, <2>4, <2>7
    <3>2. i \in Bus!First(BusListeners[e], f)
      BY <1>1, <2>3, <3>1 DEF Bus!First
    <3>3. Bus!Remove(e, f)
      BY <1>1, <2>1, <2>2, <2>7, <3>2 DEF Bus!Remove
    <3> QED
      BY <3>3 DEF Bus!Next
  <2> QED
    BY <2>5, <2>6, <2>7
<1>6. ASSUME NEW E \in SUBSET Event, CallRemoveAllListeners(E)
      PROVE  [Bus!Next]_(Bus!busVars)
  <2>1. /\ events' = [e \in Event |-> IF e \in E THEN Nothing ELSE events[e]]
        /\ UNCHANGED stack
    BY <1>6 DEF CallRemoveAllListeners
  <2>2. BusListeners' =
          [e \in Event |-> IF e \in E THEN <<>> ELSE BusListeners[e]]
    BY <1>1, <2>1 DEF BusListeners, Nothing
  <2>3. CASE E = {}
    BY <1>1, <2>1, <2>2, <2>3 DEF BusListeners, Bus!busVars
  <2>4. CASE E # {}
    BY <2>1, <2>2, <2>4 DEF Bus!Clear, Bus!Next
  <2> QED
    BY <2>3, <2>4
<1>7. ASSUME NEW e \in Event, CallListeners(e)
      PROVE  UNCHANGED Bus!busVars
  <2>1. events' = [events EXCEPT ![e] = Listeners(events[e])] /\ UNCHANGED stack
    BY <1>7 DEF CallListeners
  <2>2. Listeners(events[e]).list = events[e].list
    BY DEF Listeners, Array
  <2>3. BusListeners' = BusListeners
    BY <1>1, <2>1, <2>2, ListOfOne DEF BusListeners
  <2> QED
    BY <2>1, <2>3 DEF Bus!busVars
<1>8. ASSUME NEW e \in Event, CallEmit(e)
      PROVE  Bus!Next
  <2>1. BusListeners' = BusListeners
    BY <1>8 DEF CallEmit, BusListeners
  <2>2. Bus!Emit(e)
    BY <1>1, <1>8, <2>1 DEF CallEmit, Bus!Emit
  <2> QED
    BY <2>2 DEF Bus!Next
<1>9. CASE CallNext
  <2> DEFINE l == Head(Head(stack).rest)
             e == Head(stack).event
  <2>1. /\ stack # <<>> /\ Head(stack).rest # <<>>
        /\ stack' = [stack EXCEPT ![1].rest = Tail(@)]
        /\ events' = IF l.wrap = 0 THEN events
                     ELSE [events EXCEPT ![e] = RemoveListener(@, l)]
    BY <1>9 DEF CallNext
  <2>2. e \in Event /\ l \in Listener
    BY <2>1, NextOnStack DEF IInv, TypeOK
  <2> HIDE DEF l, e
  <2>3. CASE l.wrap = 0
    <3>1. BusListeners' = BusListeners
      BY <2>1, <2>3 DEF BusListeners
    <3>2. BusListeners = [BusListeners EXCEPT ![e] = BusListeners[e]]
      BY DEF BusListeners
    <3>3. Bus!Deliver
      BY <2>1, <2>3, <3>1, <3>2 DEF Bus!Deliver, l, e
    <3> QED
      BY <3>3 DEF Bus!Next
  <2>4. CASE l.wrap # 0
    <3>1. events' = [events EXCEPT ![e] = RemoveListener(events[e], l)]
      BY <2>1, <2>4
    <3>2. BusListeners' =
            [BusListeners EXCEPT ![e] = RemoveListener(events[e], l).list]
      BY <2>2, <3>1, ListOfOne
    <3>3. /\ RemoveListener(events[e], l).list = Bus!Drop(BusListeners[e], l)
          /\ ~Bus!Holds(RemoveListener(events[e], l).list, l)
      BY <1>1, <2>2, <2>4, WrapperRemoved
    <3>4. BusListeners'[e] = RemoveListener(events[e], l).list
      BY <2>2, <3>2 DEF BusListeners
    <3>5. Bus!Deliver
      BY <2>1, <2>4, <3>2, <3>3, <3>4 DEF Bus!Deliver, l, e
    <3> QED
      BY <3>5 DEF Bus!Next
  <2> QED
    BY <2>3, <2>4
<1>10. CASE EmitReturns \/ ListenerThrows
  <2>1. BusListeners' = BusListeners
    BY <1>10 DEF EmitReturns, ListenerThrows, BusListeners
  <2>2. CASE EmitReturns
    BY <2>1, <2>2 DEF EmitReturns, Bus!End, Bus!Next
  <2>3. CASE ListenerThrows
    BY <2>1, <2>3 DEF ListenerThrows, Bus!Fail, Bus!Next
  <2> QED
    BY <1>10, <2>2, <2>3
<1>11. CASE UNCHANGED emitterVars
  BY <1>11 DEF emitterVars, Bus!busVars, BusListeners
<1> QED
  BY <1>3, <1>4, <1>5, <1>6, <1>7, <1>8, <1>9, <1>10, <1>11 DEF Next

(* The EventEmitter keeps what the bus promises: an emission calls the     *)
(* listeners that were there when it began, in order, each once; and       *)
(* removeListener and the wrappers of once take out one listener each.     *)
THEOREM Refinement == Spec => ImplementsEventBus
<1>1. Init => Bus!Init
  BY DEF Init, Bus!Init, BusListeners, Nothing
<1> QED
  BY <1>1, StepImplements, IInvHolds, PTL
  DEF Spec, ImplementsEventBus, Bus!Spec

==============================================================================
