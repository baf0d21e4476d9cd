----------------------------- MODULE DispatchProofs -----------------------------
(***************************************************************************)
(* Theorems about Dispatch, for all applications, patterns and classes,    *)
(* any number of tries to start the servlet and messages of any length.    *)
(***************************************************************************)
EXTENDS Dispatch, FiniteSetTheorems, SequenceTheorems, TLAPS

Patterns == {app.pattern[c] : c \in Class}

(* Each init registers each pattern once, and looks for the executor       *)
(* behind the last one.                                                    *)
ServletInv ==
  /\ servlet.at # "registering" => servlet.left = {}
  /\ servlet.at # "idle" => servlet.inits > 0
  /\ servlet.executor => servlet.at = "ready"
  /\ servlet.left \subseteq Patterns
  /\ \A p \in Patterns :
       servlet.registered[p] = IF p \in servlet.left THEN servlet.inits - 1
                               ELSE servlet.inits
  /\ \A p \in servlet.left : servlet.inits > 0

(* There is a loop in open, which comes first, and behind a frame.         *)
ConnInv ==
  /\ conn.at \in {"live", "message"} => servlet.executor
  /\ loop.running => conn.at \in {"opening", "message"}
  /\ loop.running /\ conn.at = "message" => conn.frames # <<>>
  /\ conn.at \in {"none", "opening", "announced"} => loop.annot = "WhenConnect"
  /\ conn.at = "none" => loop.todo = {} /\ \A c \in Class : loop.heard[c] = 0
  /\ conn.at \in {"opening", "announced"} /\ ~conn.early =>
       servlet.at = "ready"
  /\ loop.annot # "WhenConnect" => servlet.executor

(* The calls that are left for a class.                                    *)
LeftOf(todo, c) == {n \in 1 .. MaxInits : <<c, n>> \in todo}
Left(c) == LeftOf(loop.todo, c)

(* A class is called as often as it is registered, at most.                *)
CalledInv ==
  \A c \in Class :
    loop.heard[c] + Cardinality(Left(c))
      <= IF loop.annot \in Lifecycle /\ servlet.registered[app.pattern[c]] > 0
         THEN 1 ELSE servlet.registered[app.pattern[c]]

(* The map does not change under the loop.                                 *)
Steady == loop.annot # "WhenConnect" \/ (conn.at # "none" /\ ~conn.early)

Times == IF loop.annot \in Lifecycle THEN 1 ELSE servlet.inits

(* What a class has heard and what is left for it make up what is due.     *)
HeardInv ==
  Steady =>
    /\ servlet.at = "ready"
    /\ ~loop.changed
    /\ ~loop.running => loop.todo = {}
    /\ \A x \in loop.todo : x[1] \in loop.due
    /\ ~loop.cut =>
         \A c \in Class :
           IF c \in loop.due /\ loop.annot \in app.methods[c]
           THEN loop.heard[c] + Cardinality(Left(c)) = Times
           ELSE loop.heard[c] = 0

IInv == TypeOK /\ ServletInv /\ ConnInv /\ CalledInv /\ HeardInv

(***************************************************************************)
(* The calls that are left.                                                *)
(***************************************************************************)

(* What is left for a class is counted.                                    *)
LEMMA LeftFinite ==
  ASSUME NEW todo, NEW c
  PROVE  /\ IsFiniteSet(LeftOf(todo, c))
         /\ Cardinality(LeftOf(todo, c)) \in Nat
<1>1. LeftOf(todo, c) \subseteq 1 .. MaxInits
  BY DEF LeftOf
<1>2. IsFiniteSet(1 .. MaxInits)
  BY FS_Interval, BoundsAssumption
<1> QED
  BY <1>1, <1>2, FS_Subset, FS_CardinalityType

(* A call takes one away from its class, and nothing from the others.      *)
LEMMA LeftRemoved ==
  ASSUME NEW todo \in SUBSET (Class \X (1 .. MaxInits)), NEW x \in todo,
         NEW c \in Class
  PROVE  Cardinality(LeftOf(todo \ {x}, c)) =
           IF c = x[1] THEN Cardinality(LeftOf(todo, c)) - 1
           ELSE Cardinality(LeftOf(todo, c))
<1>1. CASE c = x[1]
  <2>1. x[2] \in LeftOf(todo, c)
    BY <1>1 DEF LeftOf
  <2>2. LeftOf(todo \ {x}, c) = LeftOf(todo, c) \ {x[2]}
    BY <1>1 DEF LeftOf
  <2>3. IsFiniteSet(LeftOf(todo, c))
    BY LeftFinite
  <2>4. Cardinality(LeftOf(todo, c) \ {x[2]}) = Cardinality(LeftOf(todo, c)) - 1
    BY <2>1, <2>3, FS_RemoveElement
  <2> QED
    BY <1>1, <2>2, <2>4
<1>2. CASE c # x[1]
  <2>1. LeftOf(todo \ {x}, c) = LeftOf(todo, c)
    BY <1>2 DEF LeftOf
  <2> QED
    BY <1>2, <2>1
<1> QED
  BY <1>1, <1>2

(* Nothing is left of a loop that was cut.                                 *)
LEMMA LeftNone == ASSUME NEW c PROVE Cardinality(LeftOf({}, c)) = 0
  BY FS_EmptySet DEF LeftOf

(* Before a loop of open or cleanup: one call for each class it has found. *)
LEMMA LeftOnce ==
  ASSUME NEW C \in SUBSET Class, NEW c, C # {} => MaxInits > 0
  PROVE  Cardinality(LeftOf(C \X {1}, c)) = IF c \in C THEN 1 ELSE 0
<1>1. CASE c \in C
  <2>1. LeftOf(C \X {1}, c) = {1}
    BY <1>1, BoundsAssumption DEF LeftOf
  <2> QED
    BY <1>1, <2>1, FS_Singleton
<1>2. CASE c \notin C
  <2>1. LeftOf(C \X {1}, c) = {}
    BY <1>2 DEF LeftOf
  <2> QED
    BY <1>2, <2>1, FS_EmptySet
<1> QED
  BY <1>1, <1>2

(* Before the loop of a frame: one for each registration.                  *)
LEMMA LeftEach ==
  ASSUME NEW todo, NEW c, NEW k \in 0 .. MaxInits,
         \A n \in 1 .. MaxInits : <<c, n>> \in todo <=> n <= k
  PROVE  Cardinality(LeftOf(todo, c)) = k
<1>1. LeftOf(todo, c) = 1 .. k
  BY BoundsAssumption DEF LeftOf
<1> QED
  BY <1>1, FS_Interval, BoundsAssumption

(***************************************************************************)
(* The invariant holds initially and every step keeps it.                  *)
(***************************************************************************)

(* Every class has its pattern.                                            *)
LEMMA AppType ==
  TypeOK => /\ app \in App
            /\ app.pattern \in [Class -> Pattern]
            /\ \A c \in Class : app.pattern[c] \in Patterns
            /\ Patterns \subseteq Pattern
  BY AppsAssumption DEF TypeOK, App, Patterns

(* Nothing is registered, connected or called at first.                    *)
LEMMA InitIInv == Init => IInv
<1> SUFFICES ASSUME Init
             PROVE  IInv
  OBVIOUS
<1>1. TypeOK
  <2>1. app \in Apps
    BY DEF Init
  <2>2. <<>> \in Seq(Frames)
    BY EmptySeq
  <2>3. loop = [annot |-> "WhenConnect", running |-> FALSE, todo |-> {},
                changed |-> FALSE, cut |-> FALSE, due |-> {},
                heard |-> [c \in Class |-> 0]]
    BY DEF Init, Loop
  <2>4. loop \in [annot : Annotation, running : BOOLEAN,
                  todo : SUBSET (Class \X (1 .. MaxInits)), changed : BOOLEAN,
                  cut : BOOLEAN, due : SUBSET Class,
                  heard : [Class -> 0 .. MaxInits]]
    BY <2>3, BoundsAssumption DEF Annotation, Lifecycle
  <2>5. conn \in [at : {"none", "opening", "announced", "live", "message", "failed"},
                  early : BOOLEAN, closed : BOOLEAN, frames : Seq(Frames)]
    BY <2>2 DEF Init
  <2>6. servlet \in [at : {"idle", "registering", "ready"},
                     inits : 0 .. MaxInits, left : SUBSET Pattern,
                     registered : [Pattern -> 0 .. MaxInits],
                     executor : BOOLEAN]
    BY BoundsAssumption DEF Init
  <2> QED
    BY <2>1, <2>4, <2>5, <2>6 DEF TypeOK
<1>2. ServletInv
  BY <1>1, AppType DEF Init, ServletInv
<1>3. ConnInv
  BY DEF Init, ConnInv, Loop
<1>4. CalledInv
  BY <1>1, AppType, LeftNone DEF Init, CalledInv, Loop, Left, Lifecycle
<1>5. HeardInv
  BY DEF Init, HeardInv, Steady, Loop
<1> QED
  BY <1>1, <1>2, <1>3, <1>4, <1>5 DEF IInv

(* A loop over a set of classes that the map holds.                        *)
LEMMA NewLoopType ==
  ASSUME IInv, NEW annot \in Lifecycle
  PROVE  Loop(annot, AllClasses \X {1}, Class) \in
           [annot : Annotation, running : BOOLEAN,
            todo : SUBSET (Class \X (1 .. MaxInits)), changed : BOOLEAN,
            cut : BOOLEAN, due : SUBSET Class, heard : [Class -> 0 .. MaxInits]]
<1>1. AllClasses \X {1} \in SUBSET (Class \X (1 .. MaxInits))
  BY BoundsAssumption DEF IInv, TypeOK, AllClasses, ClassesOf
<1> QED
  BY <1>1, BoundsAssumption DEF Loop, Annotation

(* A class that is still to be called has not been called too often.       *)
LEMMA CallFits ==
  ASSUME IInv, NEW x \in Class \X (1 .. MaxInits), x \in loop.todo
  PROVE  loop.heard[x[1]] + 1 \in 0 .. MaxInits
<1>1. x[2] \in Left(x[1])
  BY DEF Left, LeftOf
<1>2. Cardinality(Left(x[1])) \in Nat /\ Cardinality(Left(x[1])) # 0
  BY <1>1, LeftFinite, FS_EmptySet DEF Left
<1>3. servlet.registered[app.pattern[x[1]]] \in 0 .. MaxInits
  BY AppType DEF IInv, TypeOK
<1>4. loop.heard[x[1]] + Cardinality(Left(x[1]))
        <= IF /\ loop.annot \in Lifecycle
              /\ servlet.registered[app.pattern[x[1]]] > 0
           THEN 1 ELSE servlet.registered[app.pattern[x[1]]]
  BY DEF IInv, CalledInv
<1> QED
  BY <1>2, <1>3, <1>4, BoundsAssumption DEF IInv, TypeOK

(* A call, and what is left of the loop, for one class: one is heard if it *)
(* has the method; an end that a missing bean or a parameter makes leaves  *)
(* nothing.                                                                *)
LEMMA NextHandlerLeft ==
  ASSUME IInv, NEW x \in Class \X (1 .. MaxInits), NextHandler(x),
         NEW c \in Class
  PROVE  /\ loop'.annot = loop.annot
         /\ loop'.heard[c] + Cardinality(Left(c)') \in Int
         /\ loop'.heard[c] + Cardinality(Left(c)')
              <= loop.heard[c] + Cardinality(Left(c))
         /\ loop'.cut \/ 
              IF loop.annot \in app.methods[c]
              THEN loop'.heard[c] + Cardinality(Left(c)')
                     = loop.heard[c] + Cardinality(Left(c))
              ELSE loop'.heard[c] = loop.heard[c]
         /\ x[1] # c => loop'.heard[c] = loop.heard[c]
<1>1. /\ loop.heard \in [Class -> Nat]
      /\ Cardinality(Left(c)) \in Nat
      /\ loop.todo \in SUBSET (Class \X (1 .. MaxInits))
      /\ x \in loop.todo
  BY BoundsAssumption, LeftFinite DEF IInv, TypeOK, Left, NextHandler
<1>2. Cardinality(LeftOf(loop.todo \ {x}, c)) =
        IF c = x[1] THEN Cardinality(Left(c)) - 1 ELSE Cardinality(Left(c))
  BY <1>1, LeftRemoved DEF Left
<1>3. Cardinality(LeftOf({}, c)) = 0
  BY LeftNone
<1>4. CASE /\ loop' = [loop EXCEPT !.todo = @ \ {x}]
           /\ loop.annot \notin app.methods[x[1]]
  <2>1. /\ loop'.annot = loop.annot
        /\ loop'.todo = loop.todo \ {x}
        /\ loop'.heard = loop.heard
    BY <1>4 DEF IInv, TypeOK
  <2> QED
    BY <1>1, <1>2, <1>4, <2>1 DEF Left
<1>5. CASE /\ loop' = [loop EXCEPT !.todo = @ \ {x}, !.heard[x[1]] = @ + 1]
           /\ loop.annot \in app.methods[x[1]]
  <2>1. /\ loop'.annot = loop.annot
        /\ loop'.todo = loop.todo \ {x}
        /\ loop'.heard = [loop.heard EXCEPT ![x[1]] = loop.heard[x[1]] + 1]
    BY <1>5 DEF IInv, TypeOK
  <2> QED
    BY <1>1, <1>2, <1>5, <2>1 DEF Left
<1>6. CASE loop' = [loop EXCEPT !.todo = {}, !.cut = TRUE]
  <2>1. /\ loop'.annot = loop.annot
        /\ loop'.todo = {}
        /\ loop'.heard = loop.heard
        /\ loop'.cut
    BY <1>6 DEF IInv, TypeOK
  <2> QED
    BY <1>1, <1>3, <2>1 DEF Left
<1> QED
  BY <1>4, <1>5, <1>6 DEF NextHandler

(* Only the servlet's thread changes the map.                              *)
LEMMA ServletSteps ==
  ASSUME [Next]_vars
  PROVE  \/ InitBegins
         \/ \E p \in Pattern : Register(p)
         \/ LookUpExecutor
         \/ UNCHANGED <<app, servlet>>
  BY DEF Next, vars, NextHandler, LoopEnds, LoopThrows, OpenBegins, StartClock,
         MessageArrives, QuietFrame, CloseFrame, EventFrame, JsonFrame,
         TextFrame, DispatchTo, MalformedFrame, MessageReturns

(* What the map holds follows the number of inits.                         *)
LEMMA StepServletInv == IInv /\ [Next]_vars => ServletInv'
<1> SUFFICES ASSUME IInv, [Next]_vars
             PROVE  ServletInv'
  OBVIOUS
<1> USE AppType, BoundsAssumption DEF IInv, TypeOK, ServletInv
<1>1. CASE InitBegins
  <2>1. /\ servlet'.at = "registering"
        /\ servlet'.inits = servlet.inits + 1
        /\ servlet'.left = Patterns
        /\ servlet'.registered = servlet.registered
        /\ servlet'.executor = servlet.executor
    BY <1>1 DEF InitBegins, Patterns
  <2>2. Patterns' = Patterns
    BY <1>1 DEF InitBegins, Patterns
  <2>3. ~servlet.executor /\ servlet.left = {}
    BY <1>1 DEF InitBegins
  <2> QED
    BY <2>1, <2>2, <2>3
<1>2. ASSUME NEW p \in Pattern, Register(p)
      PROVE  ServletInv'
  <2>1. /\ servlet'.at = servlet.at
        /\ servlet'.inits = servlet.inits
        /\ servlet'.left = servlet.left \ {p}
        /\ servlet'.registered =
             [servlet.registered EXCEPT ![p] = servlet.registered[p] + 1]
        /\ servlet'.executor = servlet.executor
    BY <1>2 DEF Register
  <2>2. Patterns' = Patterns
    BY <1>2 DEF Register, Patterns
  <2>3. servlet.at = "registering" /\ p \in servlet.left
    BY <1>2 DEF Register
  <2> QED
    BY <2>1, <2>2, <2>3
<1>3. CASE LookUpExecutor
  <2>1. /\ servlet'.inits = servlet.inits
        /\ servlet'.left = servlet.left
        /\ servlet'.registered = servlet.registered
        /\ \/ servlet'.at = "ready"
           \/ servlet'.at = "idle" /\ servlet'.executor = servlet.executor
    BY <1>3 DEF LookUpExecutor
  <2>2. Patterns' = Patterns
    BY <1>3 DEF LookUpExecutor, Patterns
  <2>3. servlet.at = "registering" /\ servlet.left = {}
    BY <1>3 DEF LookUpExecutor
  <2> QED
    BY <2>1, <2>2, <2>3
<1>4. CASE UNCHANGED <<app, servlet>>
  BY <1>4 DEF Patterns
<1> QED
  BY <1>1, <1>2, <1>3, <1>4, ServletSteps

(* There is one loop at a time, and it belongs to open or to a frame.      *)
LEMMA StepConnInv == IInv /\ [Next]_vars => ConnInv'
<1> SUFFICES ASSUME IInv, [Next]_vars
             PROVE  ConnInv'
  OBVIOUS
<1> USE AppType, BoundsAssumption
    DEF IInv, TypeOK, ServletInv, ConnInv, Lifecycle, Annotation
<1>1. CASE InitBegins
  BY <1>1 DEF InitBegins
<1>2. ASSUME NEW p \in Pattern, Register(p)
      PROVE  ConnInv'
  BY <1>2 DEF Register
<1>3. CASE LookUpExecutor
  BY <1>3 DEF LookUpExecutor
<1>4. ASSUME NEW x \in Class \X (1 .. MaxInits), NextHandler(x)
      PROVE  ConnInv'
  BY <1>4 DEF NextHandler
<1>5. CASE LoopEnds
  BY <1>5 DEF LoopEnds, AfterLoop
<1>6. CASE LoopThrows
  BY <1>6 DEF LoopThrows
<1>7. CASE OpenBegins
  BY <1>7 DEF OpenBegins, Loop
<1>8. CASE StartClock
  BY <1>8 DEF StartClock
<1>9. ASSUME NEW n \in 1 .. MaxFrames, NEW frames \in [1 .. n -> Frames], MessageArrives(frames)
      PROVE  ConnInv'
  BY <1>9 DEF MessageArrives
<1>10. CASE QuietFrame
  BY <1>10 DEF QuietFrame, Frame
<1>11. CASE CloseFrame
  BY <1>11 DEF CloseFrame, Frame, Loop
<1>12. CASE EventFrame
  BY <1>12 DEF EventFrame, Frame, DispatchTo, Loop
<1>13. CASE JsonFrame
  BY <1>13 DEF JsonFrame, Frame, DispatchTo, Loop
<1>14. CASE TextFrame
  BY <1>14 DEF TextFrame, Frame, DispatchTo, Loop
<1>15. CASE MalformedFrame
  BY <1>15 DEF MalformedFrame, Frame
<1>16. CASE MessageReturns
  BY <1>16 DEF MessageReturns
<1>17. CASE UNCHANGED vars
  BY <1>17 DEF vars
<1> QED
  BY <1>1, <1>2, <1>3, <1>4, <1>5, <1>6, <1>7, <1>8, <1>9, <1>10, <1>11, <1>12, <1>13, <1>14, <1>15, <1>16, <1>17 DEF Next

(* Types are kept: a class is called as often as it is registered.         *)
LEMMA StepTypeOK == IInv /\ [Next]_vars => TypeOK'
<1> SUFFICES ASSUME IInv, [Next]_vars
             PROVE  TypeOK'
  OBVIOUS
<1> USE AppType, BoundsAssumption DEF IInv, TypeOK
<1>1. CASE InitBegins
  <2>1. {app.pattern[c] : c \in Class} \in SUBSET Pattern
    BY DEF Patterns
  <2>2. servlet.inits + 1 \in 0 .. MaxInits
    BY <1>1 DEF InitBegins
  <2> QED
    BY <1>1, <2>1, <2>2 DEF InitBegins
<1>2. ASSUME NEW p \in Pattern, Register(p)
      PROVE  TypeOK'
  <2>1. servlet.registered[p] + 1 \in 0 .. MaxInits
    BY <1>2 DEF Register, ServletInv
  <2>2. ClassesOf({p}) \X {1} \in SUBSET (Class \X (1 .. MaxInits))
    BY <2>1 DEF ClassesOf
  <2>3. servlet' \in [at : {"idle", "registering", "ready"},
                     inits : 0 .. MaxInits, left : SUBSET Pattern,
                     registered : [Pattern -> 0 .. MaxInits],
                     executor : BOOLEAN]
    BY <1>2, <2>1 DEF Register
  <2> QED
    BY <1>2, <2>2, <2>3 DEF Register
<1>3. CASE LookUpExecutor
  BY <1>3 DEF LookUpExecutor
<1>4. ASSUME NEW x \in Class \X (1 .. MaxInits), NextHandler(x)
      PROVE  TypeOK'
  <2>1. loop.heard[x[1]] + 1 \in 0 .. MaxInits
    BY <1>4, CallFits DEF NextHandler
  <2>2. [loop.heard EXCEPT ![x[1]] = @ + 1] \in [Class -> 0 .. MaxInits]
    BY <2>1
  <2>3. \/ loop' = [loop EXCEPT !.todo = @ \ {x}]
        \/ loop' = [loop EXCEPT !.todo = @ \ {x},
                               !.heard = [loop.heard EXCEPT ![x[1]] = @ + 1]]
        \/ loop' = [loop EXCEPT !.todo = {}, !.cut = TRUE]
    BY <1>4 DEF NextHandler
  <2>4. loop' \in [annot : Annotation, running : BOOLEAN,
                   todo : SUBSET (Class \X (1 .. MaxInits)), changed : BOOLEAN,
                   cut : BOOLEAN, due : SUBSET Class,
                   heard : [Class -> 0 .. MaxInits]]
    <3>1. loop.todo \ {x} \in SUBSET (Class \X (1 .. MaxInits))
      OBVIOUS
    <3> QED
      BY <2>2, <2>3, <3>1, Zenon
  <2> QED
    BY <1>4, <2>4 DEF NextHandler
<1>5. CASE LoopEnds
  <2>1. conn.frames # <<>> => Tail(conn.frames) \in Seq(Frames)
    BY HeadTailProperties
  <2>2. conn.at = "opening" \/ conn.frames # <<>>
    BY <1>5 DEF LoopEnds, ConnInv
  <2> QED
    BY <1>5, <2>1, <2>2 DEF LoopEnds, AfterLoop
<1>6. CASE LoopThrows
  BY <1>6 DEF LoopThrows
<1>7. CASE OpenBegins
  BY <1>7, NewLoopType DEF OpenBegins, Lifecycle
<1>8. CASE StartClock
  BY <1>8 DEF StartClock
<1>9. ASSUME NEW n \in 1 .. MaxFrames, NEW frames \in [1 .. n -> Frames],
             MessageArrives(frames)
      PROVE  TypeOK'
  <2>1. frames \in Seq(Frames)
    BY BoundsAssumption
  <2> QED
    BY <1>9, <2>1 DEF MessageArrives
<1>10. CASE QuietFrame
  BY <1>10, HeadTailProperties DEF QuietFrame, Frame
<1>11. CASE CloseFrame
  <2>1. Tail(conn.frames) \in Seq(Frames)
    BY <1>11, HeadTailProperties DEF CloseFrame, Frame
  <2>2. Loop("WhenDisconnect", AllClasses \X {1}, Class) \in
          [annot : Annotation, running : BOOLEAN,
           todo : SUBSET (Class \X (1 .. MaxInits)), changed : BOOLEAN,
           cut : BOOLEAN, due : SUBSET Class, heard : [Class -> 0 .. MaxInits]]
    BY NewLoopType DEF Lifecycle
  <2> QED
    BY <1>11, <2>1, <2>2 DEF CloseFrame
<1>12. ASSUME NEW annot \in Annotation, NEW P \in SUBSET Pattern,
              DispatchTo(annot, P)
       PROVE  TypeOK'
  BY <1>12 DEF DispatchTo, Loop, ClassesOf
<1>13. CASE EventFrame
  BY <1>12, <1>13 DEF EventFrame, Annotation
<1>14. CASE JsonFrame
  BY <1>12, <1>14 DEF JsonFrame, Annotation, App
<1>15. CASE TextFrame
  BY <1>12, <1>15 DEF TextFrame, Annotation, App
<1>16. CASE MalformedFrame
  BY <1>16, EmptySeq DEF MalformedFrame
<1>17. CASE MessageReturns
  BY <1>17 DEF MessageReturns
<1>18. CASE UNCHANGED vars
  BY <1>18 DEF vars
<1> QED
  BY <1>1, <1>2, <1>3, <1>4, <1>5, <1>6, <1>7, <1>8, <1>9, <1>10, <1>11,
     <1>13, <1>14, <1>15, <1>16, <1>17, <1>18 DEF Next

(* Steps that begin no loop and leave the last one alone.                  *)
LEMMA LoopSteps ==
  ASSUME [Next]_vars
  PROVE  \/ \E p \in Pattern : Register(p)
         \/ \E x \in Class \X (1 .. MaxInits) : NextHandler(x)
         \/ LoopEnds \/ LoopThrows
         \/ OpenBegins
         \/ CloseFrame /\ ~conn.closed
         \/ EventFrame \/ JsonFrame \/ TextFrame
         \/ UNCHANGED <<app, loop>>
  BY DEF Next, vars, InitBegins, LookUpExecutor, StartClock, MessageArrives,
         QuietFrame, CloseFrame, MalformedFrame, MessageReturns

(* What EVENT, JSON and text frames have in common.                        *)
LEMMA DispatchSteps ==
  ASSUME TypeOK, EventFrame \/ JsonFrame \/ TextFrame
  PROVE  /\ conn.at = "message"
         /\ \E annot \in Annotation \ Lifecycle, P \in SUBSET Pattern :
              DispatchTo(annot, P)
  BY AppType DEF EventFrame, JsonFrame, TextFrame, Frame, Annotation, Lifecycle,
     App, TypeOK

(* A loop over the classes of the map, before its first call.              *)
LEMMA NewLoopLeft ==
  ASSUME IInv, NEW annot \in Lifecycle,
         loop' = Loop(annot, AllClasses \X {1}, Class), UNCHANGED app,
         NEW c \in Class
  PROVE  /\ loop'.heard[c] = 0
         /\ Left(c)' \in SUBSET Nat
         /\ Cardinality(Left(c)') =
              IF servlet.registered[app.pattern[c]] > 0 THEN 1 ELSE 0
<1>1. loop'.heard[c] = 0 /\ loop'.todo = AllClasses \X {1}
  BY DEF Loop
<1>2. c \in AllClasses <=> servlet.registered[app.pattern[c]] > 0
  BY AppType DEF IInv, AllClasses, ClassesOf
<1>3. AllClasses # {} => MaxInits > 0
  BY AppType, BoundsAssumption DEF IInv, TypeOK, AllClasses, ClassesOf
<1>4. AllClasses \in SUBSET Class
  BY DEF AllClasses, ClassesOf
<1>5. Left(c)' = LeftOf(AllClasses \X {1}, c)
  BY <1>1 DEF Left, LeftOf
<1> QED
  BY <1>1, <1>2, <1>3, <1>4, <1>5, LeftOnce DEF LeftOf

(* The loop of a frame, before its first call.                             *)
LEMMA DispatchLeft ==
  ASSUME IInv, NEW annot, NEW P, DispatchTo(annot, P), NEW c \in Class
  PROVE  /\ loop'.heard[c] = 0
         /\ Cardinality(Left(c)') =
              IF app.pattern[c] \in P
              THEN servlet.registered[app.pattern[c]] ELSE 0
<1>1. loop'.heard[c] = 0
  BY DEF DispatchTo, Loop
<1>2. loop'.todo = {x \in Class \X (1 .. MaxInits) :
                      /\ app.pattern[x[1]] \in P
                      /\ x[2] <= servlet.registered[app.pattern[x[1]]]}
  BY DEF DispatchTo, Loop
<1>3. servlet.registered[app.pattern[c]] \in 0 .. MaxInits
  BY AppType DEF IInv, TypeOK
<1>4. CASE app.pattern[c] \in P
  <2>1. \A n \in 1 .. MaxInits :
          <<c, n>> \in loop'.todo <=> n <= servlet.registered[app.pattern[c]]
    BY <1>2, <1>4
  <2> QED
    BY <1>1, <1>3, <1>4, <2>1, LeftEach DEF Left
<1>5. CASE app.pattern[c] \notin P
  <2>1. \A n \in 1 .. MaxInits : <<c, n>> \in loop'.todo <=> n <= 0
    BY <1>2, <1>5
  <2> QED
    BY <1>1, <1>5, <2>1, LeftEach, BoundsAssumption DEF Left
<1> QED
  BY <1>4, <1>5

(* A new registration brings one call more, unless there was one.          *)
LEMMA StepCalledInv == IInv /\ [Next]_vars => CalledInv'
<1> SUFFICES ASSUME IInv, [Next]_vars
             PROVE  CalledInv'
  OBVIOUS
<1>0. UNCHANGED app
  BY ServletSteps DEF InitBegins, Register, LookUpExecutor
<1> SUFFICES ASSUME NEW c \in Class
             PROVE  loop'.heard[c] + Cardinality(Left(c)')
                      <= IF /\ loop'.annot \in Lifecycle
                            /\ servlet'.registered[app.pattern[c]] > 0
                         THEN 1 ELSE servlet'.registered[app.pattern[c]]
  BY <1>0 DEF CalledInv
<1>1. /\ app.pattern[c] \in Pattern
      /\ servlet.registered[app.pattern[c]] \in Nat
      /\ loop.heard[c] \in Nat
      /\ Cardinality(Left(c)) \in Nat
      /\ loop.todo \in SUBSET (Class \X (1 .. MaxInits))
  BY AppType, BoundsAssumption, LeftFinite DEF IInv, TypeOK, Left
<1>2. loop.heard[c] + Cardinality(Left(c))
        <= IF loop.annot \in Lifecycle /\ servlet.registered[app.pattern[c]] > 0
           THEN 1 ELSE servlet.registered[app.pattern[c]]
  BY DEF IInv, CalledInv
<1>3. ASSUME NEW p \in Pattern, Register(p)
      PROVE  /\ servlet'.registered[app.pattern[c]] =
                  servlet.registered[app.pattern[c]]
                    + (IF app.pattern[c] = p THEN 1 ELSE 0)
             /\ loop'.annot = loop.annot
             /\ loop'.heard[c] = loop.heard[c]
             /\ Cardinality(Left(c)') = Cardinality(Left(c))
                  \/ /\ servlet.registered[app.pattern[c]] = 0
                     /\ app.pattern[c] = p
                     /\ Cardinality(Left(c)') = 1
  <2>1. /\ servlet'.registered =
             [servlet.registered EXCEPT ![p] = servlet.registered[p] + 1]
        /\ loop'.annot = loop.annot
        /\ loop'.heard = loop.heard
    BY <1>3 DEF Register, IInv, TypeOK
  <2>2. CASE /\ servlet.registered[p] = 0
             /\ app.pattern[c] = p
             /\ loop'.todo = loop.todo \cup (ClassesOf({p}) \X {1})
    <3>1. Cardinality(Left(c)) = 0
      BY <1>1, <1>2, <2>2
    <3>2. Left(c) = {}
      BY <3>1, LeftFinite, FS_EmptySet DEF Left
    <3>3. c \in ClassesOf({p}) /\ 1 \in 1 .. MaxInits
      BY <1>3, <2>2, BoundsAssumption
      DEF ClassesOf, Register, ServletInv, IInv, TypeOK
    <3>4. Left(c)' = {1}
      BY <2>2, <3>2, <3>3 DEF Left, LeftOf
    <3>5. Cardinality(Left(c)') = 1
      BY <3>4, FS_Singleton
    <3>6. servlet'.registered[app.pattern[c]] = servlet.registered[app.pattern[c]] + 1
      BY <1>1, <2>1, <2>2 DEF IInv, TypeOK
    <3> QED
      BY <2>1, <2>2, <3>5, <3>6
  <2>3. CASE loop'.todo = loop.todo \/ app.pattern[c] # p
    <3>1. Left(c)' = Left(c)
      <4>1. loop'.todo = loop.todo
              \/ loop'.todo = loop.todo \cup (ClassesOf({p}) \X {1})
        BY <1>3 DEF Register, IInv, TypeOK
      <4> QED
        BY <2>3, <4>1 DEF Left, LeftOf, ClassesOf
    <3> QED
      BY <1>1, <2>1, <3>1 DEF IInv, TypeOK
  <2> QED
    BY <1>3, <2>2, <2>3 DEF Register, IInv, TypeOK
<1>4. CASE \E p \in Pattern : Register(p)
  BY <1>1, <1>2, <1>3, <1>4
<1>5. CASE ~\E p \in Pattern : Register(p)
  <2>1. servlet'.registered = servlet.registered
    BY <1>5, ServletSteps DEF InitBegins, LookUpExecutor, IInv, TypeOK
  <2>2. ASSUME NEW x \in Class \X (1 .. MaxInits), NextHandler(x)
        PROVE  /\ loop'.annot = loop.annot
               /\ loop'.heard[c] + Cardinality(Left(c)') \in Int
               /\ loop'.heard[c] + Cardinality(Left(c)')
                    <= loop.heard[c] + Cardinality(Left(c))
    BY <2>2, NextHandlerLeft
  <2>3. CASE LoopEnds \/ UNCHANGED <<app, loop>>
    <3>1. /\ loop'.annot = loop.annot
          /\ loop'.heard = loop.heard
          /\ loop'.todo = loop.todo
      BY <2>3 DEF LoopEnds, IInv, TypeOK
    <3> QED
      BY <1>2, <2>1, <3>1 DEF Left
  <2>6. CASE LoopThrows
    <3>1. /\ loop'.annot = loop.annot
          /\ loop'.heard = loop.heard
          /\ loop'.todo = {}
      BY <2>6 DEF LoopThrows, IInv, TypeOK
    <3>2. Left(c)' = {}
      BY <3>1 DEF Left, LeftOf
    <3>3. Cardinality(Left(c)') = 0
      BY <3>2, FS_EmptySet
    <3> QED
      BY <1>1, <1>2, <2>1, <3>1, <3>3
  <2>4. CASE OpenBegins \/ (CloseFrame /\ ~conn.closed)
    <3>1. PICK annot \in Lifecycle :
            loop' = Loop(annot, AllClasses \X {1}, Class) /\ UNCHANGED app
      BY <2>4 DEF OpenBegins, CloseFrame, Lifecycle
    <3>2. loop'.annot \in Lifecycle
      BY <3>1 DEF Loop
    <3>3. /\ loop'.heard[c] = 0
          /\ Cardinality(Left(c)') =
               IF servlet.registered[app.pattern[c]] > 0 THEN 1 ELSE 0
      BY <3>1, NewLoopLeft
    <3> QED
      BY <1>1, <2>1, <3>2, <3>3
  <2>5. CASE EventFrame \/ JsonFrame \/ TextFrame
    <3>1. PICK annot \in Annotation \ Lifecycle, P \in SUBSET Pattern :
            DispatchTo(annot, P)
      BY <2>5, DispatchSteps DEF IInv
    <3>2. loop'.annot \notin Lifecycle
      BY <3>1 DEF DispatchTo, Loop
    <3>3. /\ loop'.heard[c] = 0
          /\ Cardinality(Left(c)') =
               IF app.pattern[c] \in P
               THEN servlet.registered[app.pattern[c]] ELSE 0
      BY <3>1, DispatchLeft
    <3> QED
      BY <1>1, <2>1, <3>2, <3>3
  <2>7. CASE \E x \in Class \X (1 .. MaxInits) : NextHandler(x)
    BY <1>1, <1>2, <2>1, <2>2, <2>7
  <2> QED
    BY <1>5, <2>3, <2>4, <2>5, <2>6, <2>7, LoopSteps
<1> QED
  BY <1>4, <1>5

(* Before the first call everything is due, and all of it is left.         *)
LEMMA NewLoopHeard ==
  ASSUME IInv, NEW annot \in Lifecycle, servlet.at = "ready",
         loop' = Loop(annot, AllClasses \X {1}, Class),
         UNCHANGED <<app, servlet>>
  PROVE  HeardInv'
<1>1. /\ loop'.annot = annot
      /\ loop'.todo = AllClasses \X {1}
      /\ loop'.due = Class
      /\ loop'.running /\ ~loop'.changed
  BY DEF Loop
<1>2. Times' = 1
  BY <1>1 DEF Times
<1>3. ASSUME NEW c \in Class
      PROVE  loop'.heard[c] = 0 /\ Cardinality(Left(c)') = 1
  <2>1. servlet.registered[app.pattern[c]] > 0
    BY AppType DEF IInv, TypeOK, ServletInv
  <2> QED
    BY <2>1, NewLoopLeft
<1>4. \A x \in loop'.todo : x[1] \in loop'.due
  BY <1>1 DEF AllClasses, ClassesOf
<1>5. servlet'.at = "ready"
  OBVIOUS
<1>6. \A c \in Class : loop'.heard[c] + Cardinality(Left(c)') = Times'
                         /\ loop'.heard[c] = 0
  BY <1>2, <1>3
<1> QED
  BY <1>1, <1>4, <1>5, <1>6 DEF HeardInv

(* The same for the loop of a frame.                                       *)
LEMMA DispatchHeard ==
  ASSUME IInv, NEW annot \in Annotation \ Lifecycle, NEW P \in SUBSET Pattern,
         servlet.at = "ready", DispatchTo(annot, P)
  PROVE  HeardInv'
<1>1. /\ loop'.annot = annot
      /\ loop'.todo = {x \in Class \X (1 .. MaxInits) :
                         /\ app.pattern[x[1]] \in P
                         /\ x[2] <= servlet.registered[app.pattern[x[1]]]}
      /\ loop'.due = ClassesOf(P)
      /\ loop'.running /\ ~loop'.changed
      /\ UNCHANGED <<app, servlet>>
  BY DEF DispatchTo, Loop
<1>2. Times' = servlet.inits
  BY <1>1 DEF Times
<1>3. ASSUME NEW c \in Class
      PROVE  /\ loop'.heard[c] = 0
             /\ c \in loop'.due => Cardinality(Left(c)') = servlet.inits
  <2>1. servlet.registered[app.pattern[c]] = servlet.inits
    BY AppType DEF IInv, ServletInv
  <2>2. loop'.heard[c] = 0
        /\ Cardinality(Left(c)') =
             IF app.pattern[c] \in P
             THEN servlet.registered[app.pattern[c]] ELSE 0
    BY DispatchLeft
  <2> QED
    BY <1>1, <2>1, <2>2 DEF ClassesOf
<1>4. \A x \in loop'.todo : x[1] \in loop'.due
  BY <1>1 DEF ClassesOf
<1>5. servlet.inits \in Nat
  BY DEF IInv, TypeOK
<1> QED
  BY <1>1, <1>2, <1>3, <1>4, <1>5 DEF HeardInv

(* A loop over a map that does not change calls everybody whom it is about. *)
LEMMA StepHeardInv == IInv /\ [Next]_vars => HeardInv'
<1> SUFFICES ASSUME IInv, [Next]_vars
             PROVE  HeardInv'
  OBVIOUS
<1>1. UNCHANGED app
  BY ServletSteps DEF InitBegins, Register, LookUpExecutor
<1>2. CASE OpenBegins
  <2>1. CASE servlet.at = "ready"
    BY <1>2, <2>1, NewLoopHeard DEF OpenBegins, Lifecycle
  <2>2. CASE servlet.at # "ready"
    BY <1>2, <2>2 DEF OpenBegins, HeardInv, Steady, Loop, IInv, TypeOK
  <2> QED
    BY <2>1, <2>2
<1>3. CASE CloseFrame /\ ~conn.closed
  <2>1. servlet.at = "ready"
    BY <1>3 DEF CloseFrame, Frame, IInv, ConnInv, ServletInv
  <2> QED
    BY <1>3, <2>1, NewLoopHeard DEF CloseFrame, Lifecycle
<1>4. CASE EventFrame \/ JsonFrame \/ TextFrame
  <2>1. conn.at = "message" /\ servlet.at = "ready"
    BY <1>4, DispatchSteps DEF IInv, ConnInv, ServletInv
  <2> QED
    BY <1>4, <2>1, DispatchSteps, DispatchHeard DEF IInv
<1>5. ASSUME ~OpenBegins, ~(CloseFrame /\ ~conn.closed),
             ~(EventFrame \/ JsonFrame \/ TextFrame),
             ~Steady
      PROVE  ~Steady'
  <2>1. loop'.annot = loop.annot
    BY <1>5, LoopSteps
    DEF Register, NextHandler, LoopEnds, LoopThrows, IInv, TypeOK
  <2>2. conn'.early = conn.early /\ (conn.at = "none" => conn'.at = "none")
    <3>1. conn.at = "none" => ~loop.running
      BY DEF IInv, ConnInv
    <3> QED
      BY <1>5, <3>1
      DEF Next, vars, InitBegins, Register, LookUpExecutor, NextHandler,
          LoopEnds, AfterLoop, LoopThrows, StartClock, MessageArrives,
          QuietFrame, CloseFrame, MalformedFrame, MessageReturns, Frame,
          IInv, TypeOK
  <2> QED
    BY <1>5, <2>1, <2>2 DEF Steady
<1>6. CASE Steady /\ ~OpenBegins /\ ~(CloseFrame /\ ~conn.closed)
           /\ ~(EventFrame \/ JsonFrame \/ TextFrame)
  <2>1. /\ servlet.at = "ready"
        /\ ~loop.changed
        /\ ~loop.running => loop.todo = {}
        /\ \A x \in loop.todo : x[1] \in loop.due
        /\ ~loop.cut =>
             \A c \in Class :
               IF c \in loop.due /\ loop.annot \in app.methods[c]
               THEN loop.heard[c] + Cardinality(Left(c)) = Times
               ELSE loop.heard[c] = 0
    BY <1>6 DEF IInv, HeardInv
  <2>2. UNCHANGED servlet
    BY <2>1, ServletSteps DEF InitBegins, Register, LookUpExecutor
  <2>3. ASSUME NEW x \in Class \X (1 .. MaxInits), NextHandler(x)
        PROVE  HeardInv'
    <3>1. /\ loop'.annot = loop.annot
          /\ loop'.due = loop.due
          /\ loop'.changed = loop.changed
          /\ loop'.running = loop.running
          /\ loop'.todo \subseteq loop.todo
          /\ loop.running /\ ~loop.cut
      <4>1. /\ loop.running /\ ~loop.cut
            /\ \/ loop' = [loop EXCEPT !.todo = @ \ {x}]
               \/ loop' = [loop EXCEPT !.todo = @ \ {x}, !.heard[x[1]] = @ + 1]
               \/ loop' = [loop EXCEPT !.todo = {}, !.cut = TRUE]
        BY <2>3 DEF NextHandler
      <4>2. CASE loop' = [loop EXCEPT !.todo = @ \ {x}]
        BY <4>1, <4>2 DEF IInv, TypeOK
      <4>3. CASE loop' = [loop EXCEPT !.todo = @ \ {x}, !.heard[x[1]] = @ + 1]
        BY <4>1, <4>3 DEF IInv, TypeOK
      <4>4. CASE loop' = [loop EXCEPT !.todo = {}, !.cut = TRUE]
        BY <4>1, <4>4 DEF IInv, TypeOK
      <4> QED
        BY <4>1, <4>2, <4>3, <4>4
    <3>2. Times' = Times
      BY <2>2, <3>1 DEF Times
    <3>3. ASSUME NEW c \in Class, ~loop'.cut
          PROVE  IF c \in loop.due /\ loop.annot \in app.methods[c]
                 THEN loop'.heard[c] + Cardinality(Left(c)') = Times
                 ELSE loop'.heard[c] = 0
      <4>1. x[1] \in loop.due
        BY <2>1, <2>3 DEF NextHandler
      <4> QED
        BY <2>1, <2>3, <3>1, <3>3, <4>1, NextHandlerLeft
    <3> QED
      BY <1>1, <2>1, <2>2, <3>1, <3>2, <3>3 DEF HeardInv
  <2>4. CASE LoopEnds \/ UNCHANGED <<app, loop>>
    <3>1. /\ loop'.annot = loop.annot
          /\ loop'.heard = loop.heard
          /\ loop'.todo = loop.todo
          /\ loop'.due = loop.due
          /\ loop'.changed = loop.changed
          /\ loop'.cut = loop.cut
      BY <2>4 DEF LoopEnds, IInv, TypeOK
    <3>3. ~loop'.running => loop.todo = {}
      BY <2>1, <2>4 DEF LoopEnds
    <3>2. Times' = Times /\ \A c \in Class : Left(c)' = Left(c)
      BY <2>2, <3>1 DEF Times, Left
    <3> QED
      BY <1>1, <2>1, <2>2, <3>1, <3>2, <3>3 DEF HeardInv
  <2>5. CASE LoopThrows
    <3>1. /\ loop'.annot = loop.annot
          /\ loop'.changed = loop.changed
          /\ loop'.todo = {}
          /\ loop'.cut
      BY <2>5 DEF LoopThrows, IInv, TypeOK
    <3> QED
      BY <2>1, <2>2, <3>1 DEF HeardInv
  <2>6. ~\E p \in Pattern : Register(p)
    BY <2>1 DEF Register
  <2> QED
    BY <1>6, <2>3, <2>4, <2>5, <2>6, LoopSteps
<1> QED
  BY <1>2, <1>3, <1>4, <1>5, <1>6 DEF HeardInv

(* The inductive invariant holds of every behaviour.                       *)
THEOREM IInvHolds == Spec => []IInv
<1>1. IInv /\ [Next]_vars => IInv'
  BY StepTypeOK, StepServletInv, StepConnInv, StepCalledInv, StepHeardInv
  DEF IInv
<1> QED
  BY InitIInv, <1>1, PTL DEF Spec

(* Counts stay within the number of inits: no class is called more often   *)
(* than it is registered, whatever comes into the map meanwhile.           *)
THEOREM TypeCorrect == Spec => []TypeOK
<1>1. IInv => TypeOK
  BY DEF IInv
<1> QED
  BY <1>1, IInvHolds, PTL

(* A connection that has a clock meets a server that has started.          *)
THEOREM LiveIsReady == Spec => []LiveMeansReady
<1>1. IInv => LiveMeansReady
  BY AppType DEF IInv, ConnInv, ServletInv, LiveMeansReady
<1> QED
  BY <1>1, IInvHolds, PTL

(* Connection and end of connection are announced to every class, once.    *)
THEOREM Announced == Spec => []AnnouncedOnce
<1>1. IInv => AnnouncedOnce
  <2> SUFFICES ASSUME IInv, ~loop.cut, NEW c \in Class,
                      Ended({"WhenDisconnect"})
                        \/ (conn.at = "announced" /\ ~conn.early)
               PROVE  loop.heard[c] =
                        IF c \in loop.due /\ loop.annot \in app.methods[c]
                        THEN 1 ELSE 0
    BY DEF AnnouncedOnce, HeardBy
  <2>1. Steady /\ ~loop.running /\ loop.annot \in Lifecycle
    BY DEF Ended, Steady, Lifecycle, IInv, ConnInv
  <2>2. loop.todo = {} /\ Times = 1
    BY <2>1 DEF IInv, HeardInv, Times
  <2>3. Cardinality(Left(c)) = 0
    BY <2>2, LeftNone DEF Left
  <2>4. loop.heard[c] \in Nat
    BY BoundsAssumption DEF IInv, TypeOK
  <2> QED
    BY <2>1, <2>2, <2>3, <2>4 DEF IInv, HeardInv
<1> QED
  BY <1>1, IInvHolds, PTL

(* A frame that no bean and no parameter cuts short reaches each class of  *)
(* a matching pattern once for each init.                                  *)
THEOREM Heard == Spec => []EachHearsOnce
<1>1. IInv => EachHearsOnce
  <2> SUFFICES ASSUME IInv, ~loop.cut, NEW c \in Class,
                      Ended(Annotation \ Lifecycle)
               PROVE  loop.heard[c] =
                        IF c \in loop.due /\ loop.annot \in app.methods[c]
                        THEN servlet.inits ELSE 0
    BY DEF EachHearsOnce, HeardBy
  <2>1. Steady /\ ~loop.running /\ loop.annot \notin Lifecycle
    BY DEF Ended, Steady, Lifecycle
  <2>2. loop.todo = {} /\ Times = servlet.inits
    BY <2>1 DEF IInv, HeardInv, Times
  <2>3. Cardinality(Left(c)) = 0
    BY <2>2, LeftNone DEF Left
  <2>4. loop.heard[c] \in Nat
    BY BoundsAssumption DEF IInv, TypeOK
  <2> QED
    BY <2>1, <2>2, <2>3, <2>4 DEF IInv, HeardInv
<1> QED
  BY <1>1, IInvHolds, PTL

==============================================================================
