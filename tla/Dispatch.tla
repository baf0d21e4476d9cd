------------------------------- MODULE Dispatch -------------------------------
(***************************************************************************)
(* The start of the server and the dispatch to handler classes.  The       *)
(* container initialises SocketIOServlet with the first request: init      *)
(* fills the HandlerMap and looks the executor up.  A WebSocket of its own *)
(* thread goes through the map meanwhile: it calls the @WhenConnect        *)
(* methods, starts the clock, and dispatches the frames of its messages.   *)
(*                                                                         *)
(* A class of handlers has one pattern, the value of its @SocketIO, and at *)
(* most one method of each annotation.  The name of an event matches any   *)
(* set of patterns; JSON and text go to those that match "message".        *)
(***************************************************************************)
EXTENDS Naturals, Sequences, FiniteSets

CONSTANTS
  Class,      \* classes of handlers
  Pattern,    \* values of @SocketIO
  Apps,       \* the applications that are deployed
  MaxInits,   \* bound: how often the container initialises the servlet
  MaxFrames   \* bound: the frames of the message

(* What a loop over handler classes looks for.                             *)
Lifecycle == {"WhenConnect", "WhenDisconnect"}
Annotation == Lifecycle \cup {"WhenEvent", "WhenJsonObject", "WhenMessage"}

(* Whose parameters are converted from text, which may fail.               *)
Converts == {"WhenEvent", "WhenMessage"}

(* An application: the pattern and the methods of each class, the classes  *)
(* of which no bean can be had, the patterns that match "message".         *)
App == [pattern : [Class -> Pattern], methods : [Class -> SUBSET Annotation],
        beanless : SUBSET Class, message : SUBSET Pattern]

ASSUME AppsAssumption == Apps \subseteq App
ASSUME BoundsAssumption == {MaxInits, MaxFrames} \subseteq Nat

VARIABLES
  app,      \* the application; it does not change
  servlet,  \* the servlet, the HandlerMap and the configuration
  conn,     \* the connection
  loop      \* the last loop over handler classes

vars == <<app, servlet, conn, loop>>

Frames == {"quiet", "malformed", "CLOSE", "EVENT", "JSON_MESSAGE", "MESSAGE"}

TypeOK ==
  /\ app \in Apps
  /\ servlet \in [at : {"idle", "registering", "ready"},
                  inits : 0 .. MaxInits,
                  left : SUBSET Pattern,               \* not yet registered
                  registered : [Pattern -> 0 .. MaxInits],
                  executor : BOOLEAN]
  /\ conn \in [at : {"none", "opening", "announced", "live", "message", "failed"},
               early : BOOLEAN,  \* opened before the servlet was ready?
               closed : BOOLEAN,
               frames : Seq(Frames)]
  /\ loop \in [annot : Annotation,
               running : BOOLEAN,
               todo : SUBSET (Class \X (1 .. MaxInits)),
               changed : BOOLEAN,  \* classes came in since it began
               cut : BOOLEAN,      \* did an exception end it?
               due : SUBSET Class,
               heard : [Class -> 0 .. MaxInits]]

Loop(annot, todo, due) ==
  [annot |-> annot, running |-> TRUE, todo |-> todo, changed |-> FALSE,
   cut |-> FALSE, due |-> due, heard |-> [c \in Class |-> 0]]

Init ==
  /\ app \in Apps
  /\ servlet = [at |-> "idle", inits |-> 0, left |-> {},
                registered |-> [p \in Pattern |-> 0], executor |-> FALSE]
  /\ conn = [at |-> "none", early |-> FALSE, closed |-> FALSE, frames |-> <<>>]
  /\ loop = [Loop("WhenConnect", {}, {}) EXCEPT !.running = FALSE]

(***************************************************************************)
(* The servlet's thread.                                                   *)
(***************************************************************************)

ClassesOf(P) == {c \in Class : app.pattern[c] \in P}

(* HandlerMap.get(): the classes of all patterns, a live view.             *)
AllClasses == ClassesOf({p \in Pattern : servlet.registered[p] > 0})

(* Mutated: the executor is looked up before the handlers are registered.  *)
InitBeginsWithExecutor ==
  /\ servlet.at = "idle"
  /\ servlet.inits < MaxInits
  /\ servlet' = [servlet EXCEPT !.at = "registering", !.inits = @ + 1,
                                !.left = {app.pattern[c] : c \in Class},
                                !.executor = TRUE]
  /\ UNCHANGED <<app, conn, loop>>

(* A failed init is not the last: the next request finds a new servlet.    *)
InitBegins ==
  /\ servlet.at = "idle"
  /\ servlet.inits < MaxInits
  /\ servlet' = [servlet EXCEPT !.at = "registering", !.inits = @ + 1,
                                !.left = {app.pattern[c] : c \in Class}]
  /\ UNCHANGED <<app, conn, loop>>

(* HandlerMap.register: patterns have no equals, so that one that is there *)
(* comes in again.  Of the set of classes the new ones change the view.    *)
Register(p) ==
  /\ servlet.at = "registering"
  /\ p \in servlet.left
  /\ servlet' = [servlet EXCEPT !.left = @ \ {p}, !.registered[p] = @ + 1]
  /\ loop' = IF loop.running /\ servlet.registered[p] = 0
             THEN [loop EXCEPT !.changed = TRUE,
                               !.todo = @ \cup (ClassesOf({p}) \X {1})]
             ELSE loop
  /\ UNCHANGED <<app, conn>>

LookUpExecutor ==
  /\ servlet.at = "registering"
  /\ servlet.left = {}
  /\ servlet' \in {[servlet EXCEPT !.at = "ready", !.executor = TRUE],
                   [servlet EXCEPT !.at = "idle"]}
  /\ UNCHANGED <<app, conn, loop>>

(***************************************************************************)
(* Loops over handler classes.                                             *)
(***************************************************************************)

(* Mutated: a class that lacks the method ends the loop.                   *)
NextHandlerReturns(x) ==
  LET c == x[1] IN
  /\ loop.running /\ ~loop.cut
  /\ x \in loop.todo
  /\ IF loop.annot \notin app.methods[c]
     THEN loop' = [loop EXCEPT !.running = FALSE, !.todo = {}]
     ELSE \/ /\ c \notin app.beanless
             /\ loop' = [loop EXCEPT !.todo = @ \ {x}, !.heard[c] = @ + 1]
          \/ /\ loop.annot \in Converts \/ c \in app.beanless
             /\ loop' = [loop EXCEPT !.todo = {}, !.cut = TRUE]
  /\ UNCHANGED <<app, servlet, conn>>

(* Mutated: the exception of a handler method is not caught.               *)
NextHandlerThrows(x) ==
  LET c == x[1] IN
  /\ loop.running /\ ~loop.cut
  /\ x \in loop.todo
  /\ IF loop.annot \notin app.methods[c]
     THEN loop' = [loop EXCEPT !.todo = @ \ {x}]
     ELSE \/ /\ c \notin app.beanless
             /\ loop' = [loop EXCEPT !.todo = @ \ {x}, !.heard[c] = @ + 1]
          \/ /\ c \notin app.beanless
             /\ loop' = [loop EXCEPT !.todo = {}, !.heard[c] = @ + 1]
          \/ /\ loop.annot \in Converts \/ c \in app.beanless
             /\ loop' = [loop EXCEPT !.todo = {}, !.cut = TRUE]
  /\ UNCHANGED <<app, servlet, conn>>

(* The next class, in any order.  Its method may throw, which is caught.   *)
(* Where there is no bean, @WhenConnect and @WhenDisconnect return, and    *)
(* the others call the method of null; they also fail if a parameter       *)
(* cannot be made: a @Group of the last number, a text that is no number.  *)
(* An exception of the lookup of the bean has the same effect, but in open *)
(* (LoopThrows).                                                           *)
NextHandler(x) ==
  LET c == x[1] IN
  /\ loop.running /\ ~loop.cut
  /\ x \in loop.todo
  /\ IF loop.annot \notin app.methods[c]
     THEN loop' = [loop EXCEPT !.todo = @ \ {x}]
     ELSE \/ /\ c \notin app.beanless
             /\ loop' = [loop EXCEPT !.todo = @ \ {x}, !.heard[c] = @ + 1]
          \/ /\ loop.annot \in Converts \/ c \in app.beanless
             /\ loop' = [loop EXCEPT !.todo = {}, !.cut = TRUE]
  /\ UNCHANGED <<app, servlet, conn>>

(* What follows a loop: of open the CONNECT frame, of message the next     *)
(* frame.                                                                  *)
AfterLoop ==
  conn' = IF conn.at = "opening" THEN [conn EXCEPT !.at = "announced"]
          ELSE [conn EXCEPT !.frames = Tail(@)]

(* All are done; or the view has changed, and the iterator, which reads it *)
(* without a lock, ends anywhere.                                          *)
LoopEnds ==
  /\ loop.running
  /\ loop.todo = {} \/ loop.changed
  /\ loop' = [loop EXCEPT !.running = FALSE]
  /\ AfterLoop
  /\ UNCHANGED <<app, servlet>>

(* A ConcurrentModificationException leaves open, and so does what the     *)
(* lookup of a bean throws, unless it is an IllegalArgumentException (for  *)
(* that, see ConnectFails of WebSocketSessions).                           *)
LoopThrows ==
  /\ loop.running /\ conn.at = "opening"
  /\ \/ loop.changed
     \/ \E x \in loop.todo :
          x[1] \in app.beanless /\ loop.annot \in app.methods[x[1]]
  /\ ~loop.cut
  /\ loop' = [loop EXCEPT !.running = FALSE, !.todo = {}, !.cut = TRUE]
  /\ conn' = [conn EXCEPT !.at = "failed"]
  /\ UNCHANGED <<app, servlet>>

(***************************************************************************)
(* The connection's thread.                                                *)
(***************************************************************************)

(* A handshake is answered by a servlet that is ready; but a client may    *)
(* come with the id it had from the server before its restart.             *)
OpenBegins ==
  /\ conn.at = "none"
  /\ conn' = [conn EXCEPT !.at = "opening", !.early = servlet.at # "ready"]
  /\ loop' = Loop("WhenConnect", AllClasses \X {1}, Class)
  /\ UNCHANGED <<app, servlet>>

(* Without configuration or executor, a NullPointerException leaves open.  *)
StartClock ==
  /\ conn.at = "announced"
  /\ conn' = [conn EXCEPT !.at = IF servlet.inits > 0 /\ servlet.executor
                                 THEN "live" ELSE "failed"]
  /\ UNCHANGED <<app, servlet, loop>>

MessageArrives(frames) ==
  /\ conn.at = "live" /\ ~conn.closed
  /\ conn' = [conn EXCEPT !.at = "message", !.frames = frames]
  /\ UNCHANGED <<app, servlet, loop>>

Frame(type) == conn.at = "message" /\ ~loop.running /\ conn.frames # <<>>
               /\ Head(conn.frames) = type

(* CONNECT, HEARTBEAT, ACK and unknown frames.                             *)
QuietFrame ==
  /\ Frame("quiet")
  /\ conn' = [conn EXCEPT !.frames = Tail(@)]
  /\ UNCHANGED <<app, servlet, loop>>

(* cleanup closes the session, whose @OnClose is called at once; the       *)
(* frames behind this one are dispatched all the same.                     *)
CloseFrame ==
  /\ Frame("CLOSE")
  /\ IF conn.closed
     THEN conn' = [conn EXCEPT !.frames = Tail(@)] /\ UNCHANGED loop
     ELSE /\ conn' = [conn EXCEPT !.closed = TRUE]
          /\ loop' = Loop("WhenDisconnect", AllClasses \X {1}, Class)
  /\ UNCHANGED <<app, servlet>>

(* get(event): of each registration of a pattern that matches, the classes. *)
DispatchTo(annot, P) ==
  /\ loop' = Loop(annot, {x \in Class \X (1 .. MaxInits) :
                      /\ app.pattern[x[1]] \in P
                      /\ x[2] <= servlet.registered[app.pattern[x[1]]]},
                  ClassesOf(P))
  /\ UNCHANGED <<app, servlet, conn>>

EventFrame ==
  /\ Frame("EVENT")
  /\ \E P \in SUBSET Pattern : DispatchTo("WhenEvent", P)

JsonFrame ==
  /\ Frame("JSON_MESSAGE")
  /\ DispatchTo("WhenJsonObject", app.message)

TextFrame ==
  /\ Frame("MESSAGE")
  /\ DispatchTo("WhenMessage", app.message)

(* An EVENT or JSON frame whose data do not parse leaves message.          *)
MalformedFrame ==
  /\ Frame("malformed")
  /\ conn' = [conn EXCEPT !.at = "live", !.frames = <<>>]
  /\ UNCHANGED <<app, servlet, loop>>

MessageReturns ==
  /\ conn.at = "message" /\ ~loop.running
  /\ conn.frames = <<>>
  /\ conn' = [conn EXCEPT !.at = "live"]
  /\ UNCHANGED <<app, servlet, loop>>

Next ==
  \/ InitBegins
  \/ \E p \in Pattern : Register(p)
  \/ LookUpExecutor
  \/ \E x \in Class \X (1 .. MaxInits) : NextHandler(x)
  \/ LoopEnds
  \/ LoopThrows
  \/ OpenBegins
  \/ StartClock
  \/ \E n \in 1 .. MaxFrames : \E frames \in [1 .. n -> Frames] :
       MessageArrives(frames)
  \/ QuietFrame
  \/ CloseFrame
  \/ EventFrame
  \/ JsonFrame
  \/ TextFrame
  \/ MalformedFrame
  \/ MessageReturns

Spec == Init /\ [][Next]_vars

(***************************************************************************)
(* Properties.                                                             *)
(***************************************************************************)

Ended(annots) == ~loop.running /\ loop.annot \in annots

(* Everybody who is to be called is called, and nobody else.               *)
HeardBy(times) ==
  \A c \in Class :
    loop.heard[c] = IF c \in loop.due /\ loop.annot \in app.methods[c]
                    THEN times ELSE 0

(* A connection of a client that shook hands is announced to every class   *)
(* with @WhenConnect, once, before its clock starts, and so is its end     *)
(* with @WhenDisconnect, though init may have failed and registered the    *)
(* classes again, methods may throw and others lack the method; unless a   *)
(* bean is missing.  A client that came before may find some of them.      *)
AnnouncedOnce ==
  /\ ~loop.cut
  /\ \/ Ended({"WhenDisconnect"})
     \/ conn.at = "announced" /\ ~conn.early
  => HeardBy(1)

(* A connection has a clock only if the start of the server was complete,  *)
(* however early it was opened: all handlers are registered, and no init   *)
(* is under way that changes the map under a dispatch.                     *)
LiveMeansReady ==
  conn.at \in {"live", "message"} =>
    /\ servlet.at = "ready"
    /\ \A c \in Class : servlet.registered[app.pattern[c]] = servlet.inits

(* Each class of a matching pattern gets each frame, behind a CLOSE frame  *)
(* as well, though other handlers throw: once, if init succeeded at once,  *)
(* and as often as it was tried, if not.  The exception is a frame whose   *)
(* dispatch a missing bean or a parameter ended.                           *)
EachHearsOnce ==
  Ended(Annotation \ Lifecycle) /\ ~loop.cut => HeardBy(servlet.inits)

==============================================================================
