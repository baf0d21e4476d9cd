-------------------------- MODULE WebSocketSessions --------------------------
(***************************************************************************)
(* The life of the WebSocket connections of one server: WebSocketHandler   *)
(* (@OnOpen, @OnMessage, @OnClose, cleanup), the SessionMap they share,    *)
(* WebSocketCloseHandler, and the forced disconnect that SocketIOServlet   *)
(* serves over HTTP.                                                       *)
(*                                                                         *)
(* The threads of a connection c are the container's (cb[c], one callback  *)
(* at a time), the executor's (tm[c], TimeoutTask reduced to the choice it *)
(* makes in each period) and whichever thread runs @OnClose (oc[c]): the   *)
(* container calls it in the thread that called session.close(), before    *)
(* close() returns, or in its own when the other side closed.  A request   *)
(* thread (http[r]) keeps the map's lock over such a nested @OnClose.      *)
(***************************************************************************)
EXTENDS Naturals, FiniteSets

CONSTANTS
  Conn,       \* the connections
  SessionId,  \* the HTTP session ids that name them
  Request,    \* the forced disconnects, each served once
  None,
  Sid,        \* the session id in the URL of each connection
  Target,     \* the session id of each forced disconnect
  Faults      \* what may go wrong, see below

ASSUME SidAssumption == Sid \in [Conn -> SessionId]
ASSUME TargetAssumption == Target \in [Request -> SessionId]
ASSUME NoneAssumption == None \notin Conn \cup Request

(* "connect":    a bean is not found for @WhenConnect, the CONNECT frame   *)
(*               is not sent, or no executor takes the task.               *)
(* "disconnect": the lookup of a bean for @WhenDisconnect throws.          *)
(* "early":      the session is closed before open has returned: by the    *)
(*               application, or by a task whose four periods are over.    *)
ASSUME FaultsAssumption == Faults \subseteq {"connect", "disconnect", "early"}

VARIABLES
  ws,        \* the state of each WebSocket session
  cb,        \* where the container's thread is in open or message
  oc,        \* where @OnClose is
  task,      \* the ScheduledFuture of each connection
  tm,        \* where the executor's thread is in run
  sessions,  \* SessionMap.sessions: the connection whose handler an id maps to
  mapLock,   \* the request inside SessionMap.close, which holds mapLock
  http,      \* where each request is
  subject    \* the connection whose handler a request took out of the map

httpVars == <<mapLock, http, subject>>
vars == <<ws, cb, oc, task, tm, sessions, mapLock, http, subject>>

InOpen == {"connect", "abort", "aborting", "schedule", "register"}
InMessage == {"frames", "cancel", "close", "closing"}
Returned == {"done", "threw", "npe"}

TypeOK ==
  /\ ws \in [Conn -> {"new", "open", "closed"}]
  /\ cb \in [Conn -> {"none", "idle", "failed"} \cup InOpen \cup InMessage]
  /\ oc \in [Conn -> {"none", "due", "dispatch", "remove", "cancel"}
                     \cup Returned]
  /\ task \in [Conn -> {"none", "live", "cancelled", "failed"}]
  /\ tm \in [Conn -> {"idle", "heartbeat", "timeout", "close", "closing",
                      "cancel"}]
  /\ sessions \in [SessionId -> Conn \cup {None}]
  /\ mapLock \in Request \cup {None}
  /\ http \in [Request -> {"new", "lock", "cancel", "close", "closing", "done"}]
  /\ subject \in [Request -> Conn \cup {None}]

Init ==
  /\ ws = [c \in Conn |-> "new"]
  /\ cb = [c \in Conn |-> "none"]
  /\ oc = [c \in Conn |-> "none"]
  /\ task = [c \in Conn |-> "none"]
  /\ tm = [c \in Conn |-> "idle"]
  /\ sessions = [s \in SessionId |-> None]
  /\ mapLock = None
  /\ http = [r \in Request |-> "new"]
  /\ subject = [r \in Request |-> None]

(***************************************************************************)
(* The session, the task and the lock.  (Here and below, the definitions   *)
(* that say "Mutated" are not part of the specification: each stands for a *)
(* mistake in the definition of the same stem, and shows that a property   *)
(* would notice it.)                                                       *)
(***************************************************************************)

(* Mutated: isCancelled() tested the wrong way round.                      *)
CancelInverted(c) == UNCHANGED task

(* Mutated: the entry is left in the map.                                  *)
RemoveEntryNone(c) == UNCHANGED sessions

(* session.close() by one of the server's threads.  On an open session     *)
(* @OnClose runs before close() returns; a closed session is left alone.   *)
(* So much is the container's doing.                                       *)
Close(c) ==
  /\ ws' = [ws EXCEPT ![c] = "closed"]
  /\ oc' = [oc EXCEPT ![c] = IF ws[c] = "open" THEN "dispatch" ELSE @]

(* Where the caller of close() goes on: behind a nested @OnClose or not.   *)
After(c, waiting, next) == IF ws[c] = "open" THEN waiting ELSE next

(* if (!future.isCancelled()) future.cancel(true): no effect on a task     *)
(* that has ended.                                                         *)
Cancel(c) ==
  task' = [task EXCEPT ![c] = IF @ = "live" THEN "cancelled" ELSE @]

(* SessionMap.remove(Sid[c]): whatever connection the id maps to.          *)
RemoveEntry(c) == sessions' = [sessions EXCEPT ![Sid[c]] = None]

MapFree == mapLock = None

(* Mutated: add without the lock; the id stored in place of the handler.   *)
RegisterUnlocked(c) ==
  /\ cb[c] = "register"
  /\ sessions' = [sessions EXCEPT ![Sid[c]] = c]
  /\ cb' = [cb EXCEPT ![c] = "idle"]
  /\ UNCHANGED <<ws, oc, task, tm, httpVars>>
RegisterId(c) ==
  /\ cb[c] = "register"
  /\ MapFree
  /\ sessions' = [sessions EXCEPT ![Sid[c]] = Sid[c]]
  /\ cb' = [cb EXCEPT ![c] = "idle"]
  /\ UNCHANGED <<ws, oc, task, tm, httpVars>>

(* Mutated: a lock that its holder cannot take again.                      *)
OnCloseRemoveNotReentrant(c) ==
  /\ oc[c] = "remove"
  /\ MapFree
  /\ RemoveEntry(c)
  /\ oc' = [oc EXCEPT ![c] = "cancel"]
  /\ UNCHANGED <<ws, cb, task, tm, httpVars>>

(* Mutated: timeout() takes the handler of a session it leaves open out of *)
(* the map; the task lives on after its timeout.                           *)
CancelSelfRemoves(c) ==
  /\ tm[c] = "cancel"
  /\ MapFree
  /\ RemoveEntry(c)
  /\ Cancel(c)
  /\ tm' = [tm EXCEPT ![c] = "idle"]
  /\ UNCHANGED <<ws, cb, oc, httpVars>>
CancelSelfForgotten(c) ==
  /\ tm[c] = "cancel"
  /\ tm' = [tm EXCEPT ![c] = "idle"]
  /\ UNCHANGED <<ws, cb, oc, task, sessions, httpVars>>

(* Mutated: no unlock (no finally) when the session is closed already.     *)
RequestClosesLocked(r) ==
  /\ http[r] = "close"
  /\ Close(subject[r])
  /\ http' = [http EXCEPT ![r] = After(subject[r], "closing", "done")]
  /\ UNCHANGED <<cb, task, tm, sessions, mapLock, subject>>

(***************************************************************************)
(* The container's thread: open.                                           *)
(***************************************************************************)

OpenBegins(c) ==
  /\ ws[c] = "new"
  /\ ws' = [ws EXCEPT ![c] = "open"]
  /\ cb' = [cb EXCEPT ![c] = "connect"]
  /\ UNCHANGED <<oc, task, tm, sessions, httpVars>>

(* @WhenConnect methods returned and the CONNECT frame is sent.            *)
SendConnect(c) ==
  /\ cb[c] = "connect"
  /\ ws[c] = "open"
  /\ cb' = [cb EXCEPT ![c] = "schedule"]
  /\ UNCHANGED <<ws, oc, task, tm, sessions, httpVars>>

(* An exception that open catches (IOException, EncodeException,           *)
(* IllegalArgumentException) leads to session.close(), any other leaves    *)
(* open.  The send fails by itself on a session that is closed already.    *)
ConnectFails(c) ==
  /\ cb[c] = "connect"
  /\ ws[c] = "closed" \/ "connect" \in Faults
  /\ cb' \in {[cb EXCEPT ![c] = "abort"], [cb EXCEPT ![c] = "failed"]}
  /\ UNCHANGED <<ws, oc, task, tm, sessions, httpVars>>

AbortClose(c) ==
  /\ cb[c] = "abort"
  /\ Close(c)
  /\ cb' = [cb EXCEPT ![c] = After(c, "aborting", "schedule")]
  /\ UNCHANGED <<task, tm, sessions, httpVars>>

(* open does not return after the session.close() of its catch clause: it  *)
(* goes on to schedule a task for the session it has closed.               *)
AbortReturns(c) ==
  /\ cb[c] = "aborting"
  /\ oc[c] \in Returned
  /\ cb' = [cb EXCEPT ![c] = "schedule"]
  /\ UNCHANGED <<ws, oc, task, tm, sessions, httpVars>>

Schedule(c) ==
  /\ cb[c] = "schedule"
  /\ task' = [task EXCEPT ![c] = "live"]
  /\ cb' = [cb EXCEPT ![c] = "register"]
  /\ UNCHANGED <<ws, oc, tm, sessions, httpVars>>

(* An exception of the executor, or of a configuration that no servlet has *)
(* initialised, leaves open.                                               *)
ScheduleFails(c) ==
  /\ cb[c] = "schedule"
  /\ "connect" \in Faults
  /\ cb' = [cb EXCEPT ![c] = "failed"]
  /\ UNCHANGED <<ws, oc, task, tm, sessions, httpVars>>

(* SessionMap.add, a put: the id now maps to this connection only.         *)
Register(c) ==
  /\ cb[c] = "register"
  /\ MapFree
  /\ sessions' = [sessions EXCEPT ![Sid[c]] = c]
  /\ cb' = [cb EXCEPT ![c] = "idle"]
  /\ UNCHANGED <<ws, oc, task, tm, httpVars>>

(***************************************************************************)
(* The container's thread: message.  Frames other than CLOSE touch nothing *)
(* of the state modelled here.                                             *)
(***************************************************************************)

MessageArrives(c) ==
  /\ cb[c] = "idle"
  /\ ws[c] = "open"
  /\ cb' = [cb EXCEPT ![c] = "frames"]
  /\ UNCHANGED <<ws, oc, task, tm, sessions, httpVars>>

(* A CLOSE frame: cleanup.  The loop goes on with the frames behind it.    *)
CloseFrame(c) ==
  /\ cb[c] = "frames"
  /\ MapFree
  /\ RemoveEntry(c)
  /\ cb' = [cb EXCEPT ![c] = "cancel"]
  /\ UNCHANGED <<ws, oc, task, tm, httpVars>>

CloseFrameCancels(c) ==
  /\ cb[c] = "cancel"
  /\ Cancel(c)
  /\ cb' = [cb EXCEPT ![c] = "close"]
  /\ UNCHANGED <<ws, oc, tm, sessions, httpVars>>

CloseFrameCloses(c) ==
  /\ cb[c] = "close"
  /\ Close(c)
  /\ cb' = [cb EXCEPT ![c] = After(c, "closing", "frames")]
  /\ UNCHANGED <<task, tm, sessions, httpVars>>

CloseFrameReturns(c) ==
  /\ cb[c] = "closing"
  /\ oc[c] \in Returned
  /\ cb' = [cb EXCEPT ![c] = "frames"]
  /\ UNCHANGED <<ws, oc, task, tm, sessions, httpVars>>

MessageReturns(c) ==
  /\ cb[c] = "frames"
  /\ cb' = [cb EXCEPT ![c] = "idle"]
  /\ UNCHANGED <<ws, oc, task, tm, sessions, httpVars>>

(***************************************************************************)
(* Closing from outside, and @OnClose.                                     *)
(***************************************************************************)

(* The client or the network closes the connection.                        *)
PeerCloses(c) ==
  /\ ws[c] = "open"
  /\ ws' = [ws EXCEPT ![c] = "closed"]
  /\ oc' = [oc EXCEPT ![c] = "due"]
  /\ UNCHANGED <<cb, task, tm, sessions, httpVars>>

(* The container calls @OnClose when no callback of the connection runs.   *)
OnCloseBegins(c) ==
  /\ oc[c] = "due"
  /\ cb[c] \in {"idle", "failed"}
  /\ oc' = [oc EXCEPT ![c] = "dispatch"]
  /\ UNCHANGED <<ws, cb, task, tm, sessions, httpVars>>

(* The application closes the session, in a handler or a thread of its own.*)
AppCloses(c) ==
  /\ ws[c] = "open"
  /\ cb[c] \in InOpen => "early" \in Faults
  /\ Close(c)
  /\ UNCHANGED <<cb, task, tm, sessions, httpVars>>

(* @WhenDisconnect.  What its methods throw is caught there; what the      *)
(* lookup of a bean throws leaves @OnClose, which catches an IOException   *)
(* only, and skips cleanup.  The session.close() that follows finds the    *)
(* session closed.                                                         *)
OnCloseDispatch(c) ==
  /\ oc[c] = "dispatch"
  /\ \/ oc' = [oc EXCEPT ![c] = "remove"]
     \/ "disconnect" \in Faults /\ oc' = [oc EXCEPT ![c] = "threw"]
  /\ UNCHANGED <<ws, cb, task, tm, sessions, httpVars>>

(* cleanup.  A request that waits for this very @OnClose holds the lock,   *)
(* and the lock is reentrant.                                              *)
OnCloseRemove(c) ==
  /\ oc[c] = "remove"
  /\ \/ MapFree
     \/ mapLock # None /\ http[mapLock] = "closing" /\ subject[mapLock] = c
  /\ RemoveEntry(c)
  /\ oc' = [oc EXCEPT ![c] = "cancel"]
  /\ UNCHANGED <<ws, cb, task, tm, httpVars>>

(* The handle is null when open has not scheduled the task: cleanup ends   *)
(* with a NullPointerException.                                            *)
OnCloseCancel(c) ==
  /\ oc[c] = "cancel"
  /\ Cancel(c)
  /\ oc' = [oc EXCEPT ![c] = IF task[c] = "none" THEN "npe" ELSE "done"]
  /\ UNCHANGED <<ws, cb, tm, sessions, httpVars>>

(***************************************************************************)
(* The executor's thread: TimeoutTask.run, by the branch it takes.         *)
(***************************************************************************)

RunHeartbeat(c) ==
  /\ task[c] = "live"
  /\ tm[c] = "idle"
  /\ tm' = [tm EXCEPT ![c] = "heartbeat"]
  /\ UNCHANGED <<ws, cb, oc, task, sessions, httpVars>>

(* The send may fail with an exception that ends the task.                 *)
SendHeartbeat(c) ==
  /\ tm[c] = "heartbeat"
  /\ tm' = [tm EXCEPT ![c] = "idle"]
  /\ \/ UNCHANGED task
     \/ task[c] = "live" /\ task' = [task EXCEPT ![c] = "failed"]
  /\ UNCHANGED <<ws, cb, oc, sessions, httpVars>>

RunTimeout(c) ==
  /\ task[c] = "live"
  /\ tm[c] = "idle"
  /\ cb[c] \in InOpen => "early" \in Faults
  /\ tm' = [tm EXCEPT ![c] = "timeout"]
  /\ UNCHANGED <<ws, cb, oc, task, sessions, httpVars>>

(* timeout() closes the session only when the lookup of a handler's bean   *)
(* throws; it leaves the map alone.                                        *)
InvokeOnTimeout(c) ==
  /\ tm[c] = "timeout"
  /\ tm' \in {[tm EXCEPT ![c] = "cancel"], [tm EXCEPT ![c] = "close"]}
  /\ UNCHANGED <<ws, cb, oc, task, sessions, httpVars>>

TimeoutCloses(c) ==
  /\ tm[c] = "close"
  /\ Close(c)
  /\ tm' = [tm EXCEPT ![c] = After(c, "closing", "cancel")]
  /\ UNCHANGED <<cb, task, sessions, httpVars>>

(* CloseReason or close() throws: the session stays as it is, the cancel   *)
(* is skipped, and the task ends with the exception.                       *)
TimeoutThrows(c) ==
  /\ tm[c] = "close"
  /\ tm' = [tm EXCEPT ![c] = "idle"]
  /\ task' = [task EXCEPT ![c] = IF @ = "live" THEN "failed" ELSE @]
  /\ UNCHANGED <<ws, cb, oc, sessions, httpVars>>

TimeoutCloseReturns(c) ==
  /\ tm[c] = "closing"
  /\ oc[c] \in Returned
  /\ tm' = [tm EXCEPT ![c] = "cancel"]
  /\ UNCHANGED <<ws, cb, oc, task, sessions, httpVars>>

(* future.cancel(true), or a NullPointerException on a stale null: either  *)
(* way the task has ended.                                                 *)
CancelSelf(c) ==
  /\ tm[c] = "cancel"
  /\ tm' = [tm EXCEPT ![c] = "idle"]
  /\ IF task[c] = "live"
     THEN \E end \in {"cancelled", "failed"} :
            task' = [task EXCEPT ![c] = end]
     ELSE UNCHANGED task
  /\ UNCHANGED <<ws, cb, oc, sessions, httpVars>>

(***************************************************************************)
(* A request thread: SocketIOServlet.serve with "disconnect".              *)
(***************************************************************************)

RequestArrives(r) ==
  /\ http[r] = "new"
  /\ http' = [http EXCEPT ![r] = "lock"]
  /\ UNCHANGED <<ws, cb, oc, task, tm, sessions, mapLock, subject>>

(* SessionMap.close takes the lock and the handler out of the map; without *)
(* a handler it is done.                                                   *)
TakeHandler(r) ==
  LET c == sessions[Target[r]] IN
  /\ http[r] = "lock"
  /\ MapFree
  /\ IF c = None
     THEN /\ http' = [http EXCEPT ![r] = "done"]
          /\ UNCHANGED <<sessions, mapLock, subject>>
     ELSE /\ http' = [http EXCEPT ![r] = "cancel"]
          /\ sessions' = [sessions EXCEPT ![Target[r]] = None]
          /\ subject' = [subject EXCEPT ![r] = c]
          /\ mapLock' = r
  /\ UNCHANGED <<ws, cb, oc, task, tm>>

(* WebSocketCloseHandler.close, with the map locked.                       *)
RequestCancels(r) ==
  /\ http[r] = "cancel"
  /\ Cancel(subject[r])
  /\ http' = [http EXCEPT ![r] = "close"]
  /\ UNCHANGED <<ws, cb, oc, tm, sessions, mapLock, subject>>

RequestCloses(r) ==
  /\ http[r] = "close"
  /\ Close(subject[r])
  /\ http' = [http EXCEPT ![r] = After(subject[r], "closing", "done")]
  /\ mapLock' = After(subject[r], r, None)
  /\ UNCHANGED <<cb, task, tm, sessions, subject>>

RequestReturns(r) ==
  /\ http[r] = "closing"
  /\ oc[subject[r]] \in Returned
  /\ http' = [http EXCEPT ![r] = "done"]
  /\ mapLock' = None
  /\ UNCHANGED <<ws, cb, oc, task, tm, sessions, subject>>

(***************************************************************************)
(* The specification.                                                      *)
(***************************************************************************)

Open(c) ==
  SendConnect(c) \/ ConnectFails(c) \/ AbortClose(c) \/ AbortReturns(c)
    \/ Schedule(c) \/ ScheduleFails(c) \/ Register(c)

CloseFrames(c) ==
  CloseFrameCancels(c) \/ CloseFrameCloses(c) \/ CloseFrameReturns(c)

OnClose(c) ==
  OnCloseBegins(c) \/ OnCloseDispatch(c) \/ OnCloseRemove(c)
    \/ OnCloseCancel(c)

RunSteps(c) ==
  SendHeartbeat(c) \/ InvokeOnTimeout(c) \/ TimeoutCloses(c)
    \/ TimeoutThrows(c) \/ TimeoutCloseReturns(c) \/ CancelSelf(c)

Disconnect(r) ==
  TakeHandler(r) \/ RequestCancels(r) \/ RequestCloses(r) \/ RequestReturns(r)

Next ==
  \/ \E c \in Conn :
       \/ OpenBegins(c)
       \/ Open(c)
       \/ MessageArrives(c)
       \/ CloseFrame(c)
       \/ CloseFrames(c)
       \/ MessageReturns(c)
       \/ PeerCloses(c)
       \/ AppCloses(c)
       \/ OnClose(c)
       \/ RunHeartbeat(c)
       \/ RunTimeout(c)
       \/ RunSteps(c)
  \/ \E r \in Request :
       \/ RequestArrives(r)
       \/ Disconnect(r)

(* Threads go on until their call returns, and a message has finitely many *)
(* frames.  On a closed session no message resets the clock, so the task   *)
(* comes to its timeout (SilentClientEndsTask of TimeoutTask).             *)
Fairness ==
  /\ \A c \in Conn :
       /\ WF_vars(Open(c))
       /\ WF_vars(CloseFrames(c))
       /\ SF_vars(MessageReturns(c))
       /\ WF_vars(OnClose(c))
       /\ WF_vars(RunSteps(c))
       /\ SF_vars(ws[c] = "closed" /\ RunTimeout(c))
  /\ \A r \in Request : WF_vars(Disconnect(r))

Spec == Init /\ [][Next]_vars

FairSpec == Spec /\ Fairness

(***************************************************************************)
(* Properties.                                                             *)
(***************************************************************************)

(* No other connection has opened with this one's session id.              *)
Alone(c) == \A d \in Conn \ {c} : Sid[d] = Sid[c] => ws[d] = "new"

(* A thread has taken the connection out of the map and is about to close  *)
(* its session.                                                            *)
BeingClosed(c) ==
  \/ cb[c] \in {"cancel", "close"}
  \/ \E r \in Request : subject[r] = c /\ http[r] \in {"cancel", "close"}

(* A connection that open has brought to its end.                          *)
Established(c) == ws[c] = "open" /\ cb[c] \in {"idle"} \cup InMessage

(* A forced disconnect can reach every live connection: from the end of    *)
(* open until its session is closed it is in the map, unless a CLOSE frame *)
(* or a disconnect is closing it already.  (A second connection of its     *)
(* session may put it out.)                                                *)
LiveIsRegistered ==
  \A c \in Conn :
    Alone(c) /\ Established(c) => sessions[Sid[c]] = c \/ BeingClosed(c)

(* A closed session does not stay in the map, where it would be kept for   *)
(* ever: its entry outlives @OnClose only if @OnClose ended with an        *)
(* exception.                                                              *)
NoZombieEntry ==
  \A c \in Conn :
    sessions[Sid[c]] = c /\ ws[c] = "closed" =>
      oc[c] \in {"due", "dispatch", "remove", "threw", "npe"}

(* When the @OnClose of a connection has done its work, no heartbeat task  *)
(* of it is left, whatever the order of @OnClose, CLOSE frame, forced      *)
(* disconnect, timeout and open.                                           *)
NoTaskAfterClose ==
  \A c \in Conn : oc[c] = "done" => task[c] \in {"cancelled", "failed"}

(* SessionMap.close keeps its lock until the session is closed and its     *)
(* @OnClose has returned: as long as a forced disconnect is under way, no  *)
(* connection of the same session, a reconnecting one included, gets into  *)
(* the map, and no other request is in there.                              *)
DisconnectExcludesAdd ==
  \A r \in Request :
    http[r] \in {"cancel", "close", "closing"} =>
      mapLock = r /\ sessions[Target[r]] = None

(* A forced disconnect that has found nothing to close leaves no           *)
(* established connection of its session behind: what the client's         *)
(* disconnectSync counts on.                                               *)
DisconnectFindsSocket ==
  [][\A r \in Request :
       http[r] = "lock" /\ http'[r] = "done" =>
         ~ \E c \in Conn :
             Sid[c] = Target[r] /\ Established(c) /\ ~BeingClosed(c)]_vars

(* Every forced disconnect is answered: no thread waits for the map's lock *)
(* for ever, though it is held over application code.                      *)
DisconnectReturns ==
  \A r \in Request : http[r] = "lock" ~> http[r] = "done"

(* Every closed connection gets its @OnClose to the end, also when the     *)
(* lock it needs is held by a request that closes another connection.      *)
OnCloseReturns ==
  \A c \in Conn : ws[c] = "closed" ~> oc[c] \in Returned

(* A closed connection does not keep its heartbeat task, also when         *)
(* @OnClose failed to cancel it or ran before the task existed.            *)
ClosedStopsTask ==
  \A c \in Conn : (ws[c] = "closed" /\ task[c] = "live") ~> task[c] # "live"
=============================================================================
