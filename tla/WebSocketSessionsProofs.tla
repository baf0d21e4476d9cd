----------------------- MODULE WebSocketSessionsProofs -----------------------
(***************************************************************************)
(* Theorems about WebSocketSessions, for any number of connections,        *)
(* session ids and forced disconnects, and any sharing of session ids.     *)
(***************************************************************************)
EXTENDS WebSocketSessions, TLAPS

(* Everything but the functions a step does not touch stays in its type.   *)
LEMMA TypeStep == TypeOK /\ [Next]_vars => TypeOK'
<1> SUFFICES ASSUME TypeOK, [Next]_vars
             PROVE  TypeOK'
  OBVIOUS
<1> USE SidAssumption, TargetAssumption
    DEF TypeOK, InOpen, InMessage, Returned, httpVars, Close, Cancel, After,
        RemoveEntry
<1>1. ASSUME NEW c \in Conn, OpenBegins(c) \/ Open(c)
      PROVE  TypeOK'
  <2>1. CASE OpenBegins(c) \/ SendConnect(c) \/ ConnectFails(c)
    BY <2>1 DEF OpenBegins, SendConnect, ConnectFails
  <2>2. CASE AbortClose(c) \/ AbortReturns(c)
    BY <2>2 DEF AbortClose, AbortReturns
  <2>3. CASE Schedule(c) \/ ScheduleFails(c) \/ Register(c)
    BY <2>3 DEF Schedule, ScheduleFails, Register
  <2> QED
    BY <1>1, <2>1, <2>2, <2>3 DEF Open
<1>2. ASSUME NEW c \in Conn,
             MessageArrives(c) \/ CloseFrame(c) \/ CloseFrames(c)
               \/ MessageReturns(c)
      PROVE  TypeOK'
  <2>1. CASE MessageArrives(c) \/ CloseFrame(c) \/ MessageReturns(c)
    BY <2>1 DEF MessageArrives, CloseFrame, MessageReturns
  <2>2. CASE CloseFrames(c)
    BY <2>2 DEF CloseFrames, CloseFrameCancels, CloseFrameCloses,
       CloseFrameReturns
  <2> QED
    BY <1>2, <2>1, <2>2
<1>3. ASSUME NEW c \in Conn, PeerCloses(c) \/ AppCloses(c) \/ OnClose(c)
      PROVE  TypeOK'
  <2>1. CASE PeerCloses(c) \/ AppCloses(c)
    BY <2>1 DEF PeerCloses, AppCloses
  <2>2. CASE OnClose(c)
    BY <2>2 DEF OnClose, OnCloseBegins, OnCloseDispatch, OnCloseRemove,
       OnCloseCancel
  <2> QED
    BY <1>3, <2>1, <2>2
<1>4. ASSUME NEW c \in Conn, RunHeartbeat(c) \/ RunTimeout(c) \/ RunSteps(c)
      PROVE  TypeOK'
  <2>1. CASE RunHeartbeat(c) \/ RunTimeout(c)
    BY <2>1 DEF RunHeartbeat, RunTimeout
  <2>2. CASE SendHeartbeat(c) \/ InvokeOnTimeout(c)
    BY <2>2 DEF SendHeartbeat, InvokeOnTimeout
  <2>3. CASE TimeoutCloses(c) \/ TimeoutThrows(c) \/ TimeoutCloseReturns(c)
    BY <2>3 DEF TimeoutCloses, TimeoutThrows, TimeoutCloseReturns
  <2>4. CASE CancelSelf(c)
    BY <2>4 DEF CancelSelf
  <2> QED
    BY <1>4, <2>1, <2>2, <2>3, <2>4 DEF RunSteps
<1>5. ASSUME NEW r \in Request, RequestArrives(r) \/ Disconnect(r)
      PROVE  TypeOK'
  <2>1. CASE RequestArrives(r)
    BY <2>1 DEF RequestArrives
  <2>2. CASE TakeHandler(r)
    BY <2>2 DEF TakeHandler
  <2>3. CASE RequestCancels(r)
    BY <2>3 DEF RequestCancels
  <2>4. CASE RequestCloses(r)
    BY <2>4 DEF RequestCloses
  <2>5. CASE RequestReturns(r)
    BY <2>5 DEF RequestReturns
  <2> QED
    BY <1>5, <2>1, <2>2, <2>3, <2>4, <2>5 DEF Disconnect
<1>6. CASE UNCHANGED vars
  BY <1>6 DEF vars
<1> QED
  BY <1>1, <1>2, <1>3, <1>4, <1>5, <1>6 DEF Next

(* The initial values have their types.                                    *)
LEMMA TypeInit == Init => TypeOK
  BY DEF Init, TypeOK

(* Every variable keeps its type, however the threads interleave.          *)
THEOREM TypeCorrect == Spec => []TypeOK
  BY TypeInit, TypeStep, PTL DEF Spec

(***************************************************************************)
(* The lock and the task: what holds under every fault.                    *)
(***************************************************************************)

Held == {"cancel", "close", "closing"}

(* An id maps to a connection of that id, and the request that holds the   *)
(* lock has emptied the slot of its session.                               *)
LockInv ==
  /\ \A s \in SessionId : sessions[s] # None => Sid[sessions[s]] = s
  /\ \A r \in Request : http[r] \in Held <=> mapLock = r
  /\ \A r \in Request :
       http[r] \in Held =>
         subject[r] \in Conn /\ sessions[Target[r]] = None

(* Before the connection there is nothing; a handler is put into the map,  *)
(* where a request finds it, at the end of open.                           *)
OpenInv ==
  /\ \A c \in Conn : ws[c] = "new" <=> cb[c] = "none"
  /\ \A c \in Conn : cb[c] = "none" => tm[c] = "idle"
  /\ \A s \in SessionId :
       sessions[s] # None => cb[sessions[s]] \notin {"none"} \cup InOpen
  /\ \A r \in Request :
       subject[r] # None => cb[subject[r]] \notin {"none"} \cup InOpen

(* @OnClose runs on a closed session only.                                 *)
CloseInv == \A c \in Conn : oc[c] = "none" <=> ws[c] # "closed"

(* The task comes into being in open, and @OnClose has seen it when done.  *)
TaskInv ==
  /\ \A c \in Conn :
       cb[c] \in {"none", "connect", "abort", "aborting", "schedule"} =>
         task[c] = "none"
  /\ \A c \in Conn : oc[c] = "done" => task[c] \in {"cancelled", "failed"}

IInv == TypeOK /\ LockInv /\ OpenInv /\ CloseInv /\ TaskInv

(* At first there is no connection and nobody holds the lock.              *)
LEMMA InitIInv == Init => IInv
<1> SUFFICES ASSUME Init
             PROVE  IInv
  OBVIOUS
<1>1. LockInv /\ OpenInv /\ CloseInv /\ TaskInv
  BY NoneAssumption DEF Init, LockInv, OpenInv, CloseInv, TaskInv, Held
<1> QED
  BY <1>1, TypeInit DEF IInv

(* Every step keeps the lock with the request that holds it.               *)
LEMMA LockStep == TypeOK /\ LockInv /\ [Next]_vars => LockInv'
<1> SUFFICES ASSUME TypeOK, LockInv, [Next]_vars
             PROVE  LockInv'
  OBVIOUS
<1> USE SidAssumption, TargetAssumption, NoneAssumption
    DEF TypeOK, LockInv, Held, httpVars
<1>1. ASSUME NEW c \in Conn, Register(c)
      PROVE  LockInv'
  BY <1>1 DEF Register, MapFree
<1>2. ASSUME NEW c \in Conn, CloseFrame(c) \/ OnCloseRemove(c)
      PROVE  LockInv'
  BY <1>2 DEF CloseFrame, OnCloseRemove, RemoveEntry
<1>3. ASSUME NEW c \in Conn,
             \/ OpenBegins(c) \/ Open(c) \/ MessageArrives(c)
             \/ CloseFrames(c) \/ MessageReturns(c) \/ PeerCloses(c)
             \/ AppCloses(c) \/ OnClose(c) \/ RunHeartbeat(c)
             \/ RunTimeout(c) \/ RunSteps(c),
             ~ (Register(c) \/ OnCloseRemove(c))
      PROVE  LockInv'
  <2>1. UNCHANGED <<sessions, mapLock, http, subject>>
    BY <1>3
    DEF OpenBegins, Open, SendConnect, ConnectFails, AbortClose,
        AbortReturns, Schedule, ScheduleFails, MessageArrives, CloseFrames,
        CloseFrameCancels, CloseFrameCloses, CloseFrameReturns,
        MessageReturns, PeerCloses, AppCloses, OnClose, OnCloseBegins,
        OnCloseDispatch, OnCloseCancel, RunHeartbeat, RunTimeout, RunSteps,
        SendHeartbeat, InvokeOnTimeout, TimeoutCloses, TimeoutThrows,
        TimeoutCloseReturns,
        CancelSelf
  <2> QED
    BY <2>1
<1>4. ASSUME NEW r \in Request, RequestArrives(r)
      PROVE  LockInv'
  BY <1>4 DEF RequestArrives
<1>5. ASSUME NEW r \in Request, TakeHandler(r)
      PROVE  LockInv'
  BY <1>5 DEF TakeHandler, MapFree
<1>6. ASSUME NEW r \in Request, RequestCancels(r)
      PROVE  LockInv'
  BY <1>6 DEF RequestCancels
<1>7. ASSUME NEW r \in Request, RequestCloses(r)
      PROVE  LockInv'
  BY <1>7 DEF RequestCloses, After
<1>8. ASSUME NEW r \in Request, RequestReturns(r)
      PROVE  LockInv'
  BY <1>8 DEF RequestReturns
<1>9. CASE UNCHANGED vars
  BY <1>9 DEF vars
<1> QED
  BY <1>1, <1>2, <1>3, <1>4, <1>5, <1>6, <1>7, <1>8, <1>9
  DEF Next, Disconnect

(* Every step keeps the map to connections that came past add.             *)
LEMMA OpenStep == TypeOK /\ LockInv /\ OpenInv /\ TaskInv /\ [Next]_vars => OpenInv'
<1> SUFFICES ASSUME TypeOK, LockInv, OpenInv, TaskInv, [Next]_vars
             PROVE  OpenInv'
  OBVIOUS
<1> USE SidAssumption, TargetAssumption, NoneAssumption
    DEF TypeOK, LockInv, OpenInv, TaskInv, InOpen, InMessage, Held, httpVars, Close, Cancel, After, RemoveEntry
<1>1. ASSUME NEW c \in Conn, OpenBegins(c) \/ Open(c)
      PROVE  OpenInv'
  <2>1. CASE OpenBegins(c) \/ SendConnect(c) \/ ConnectFails(c)
    BY <2>1 DEF OpenBegins, SendConnect, ConnectFails
  <2>2. CASE AbortClose(c) \/ AbortReturns(c)
    BY <2>2 DEF AbortClose, AbortReturns
  <2>3. CASE Schedule(c) \/ ScheduleFails(c) \/ Register(c)
    BY <2>3 DEF Schedule, ScheduleFails, Register
  <2> QED
    BY <1>1, <2>1, <2>2, <2>3 DEF Open
<1>2. ASSUME NEW c \in Conn,
             MessageArrives(c) \/ CloseFrame(c) \/ CloseFrames(c)
               \/ MessageReturns(c)
      PROVE  OpenInv'
  <2>1. CASE MessageArrives(c) \/ CloseFrame(c) \/ MessageReturns(c)
    BY <2>1 DEF MessageArrives, CloseFrame, MessageReturns
  <2>2. CASE CloseFrames(c)
    BY <2>2 DEF CloseFrames, CloseFrameCancels, CloseFrameCloses,
       CloseFrameReturns
  <2> QED
    BY <1>2, <2>1, <2>2
<1>3. ASSUME NEW c \in Conn, PeerCloses(c) \/ AppCloses(c) \/ OnClose(c)
      PROVE  OpenInv'
  <2>1. CASE PeerCloses(c) \/ AppCloses(c)
    BY <2>1 DEF PeerCloses, AppCloses
  <2>2. CASE OnClose(c)
    BY <2>2 DEF OnClose, OnCloseBegins, OnCloseDispatch, OnCloseRemove,
       OnCloseCancel
  <2> QED
    BY <1>3, <2>1, <2>2
<1>4. ASSUME NEW c \in Conn, RunHeartbeat(c) \/ RunTimeout(c) \/ RunSteps(c)
      PROVE  OpenInv'
  <2>1. CASE RunHeartbeat(c) \/ RunTimeout(c)
    BY <2>1 DEF RunHeartbeat, RunTimeout
  <2>2. CASE RunSteps(c)
    BY <2>2 DEF RunSteps, SendHeartbeat, InvokeOnTimeout, TimeoutCloses,
       TimeoutThrows, TimeoutCloseReturns, CancelSelf
  <2> QED
    BY <1>4, <2>1, <2>2
<1>5. ASSUME NEW r \in Request, RequestArrives(r) \/ Disconnect(r)
      PROVE  OpenInv'
  <2>1. CASE RequestArrives(r) \/ TakeHandler(r)
    BY <2>1 DEF RequestArrives, TakeHandler
  <2>2. CASE RequestCancels(r)
    BY <2>2 DEF RequestCancels
  <2>3. CASE RequestCloses(r)
    BY <2>3 DEF RequestCloses
  <2>4. CASE RequestReturns(r)
    BY <2>4 DEF RequestReturns
  <2> QED
    BY <1>5, <2>1, <2>2, <2>3, <2>4 DEF Disconnect
<1>6. CASE UNCHANGED vars
  BY <1>6 DEF vars
<1> QED
  BY <1>1, <1>2, <1>3, <1>4, <1>5, <1>6 DEF Next

(* Every step keeps @OnClose to sessions that are closed.                  *)
LEMMA CloseStep == TypeOK /\ LockInv /\ OpenInv /\ CloseInv /\ [Next]_vars => CloseInv'
<1> SUFFICES ASSUME TypeOK, LockInv, OpenInv, CloseInv, [Next]_vars
             PROVE  CloseInv'
  OBVIOUS
<1> USE SidAssumption, TargetAssumption, NoneAssumption
    DEF TypeOK, LockInv, OpenInv, CloseInv, InOpen, InMessage, Held, Returned, httpVars, Close,
        Cancel, After, RemoveEntry
<1>1. ASSUME NEW c \in Conn, OpenBegins(c) \/ Open(c)
      PROVE  CloseInv'
  <2>1. CASE OpenBegins(c) \/ SendConnect(c) \/ ConnectFails(c)
    BY <2>1 DEF OpenBegins, SendConnect, ConnectFails
  <2>2. CASE AbortClose(c) \/ AbortReturns(c)
    BY <2>2 DEF AbortClose, AbortReturns
  <2>3. CASE Schedule(c) \/ ScheduleFails(c) \/ Register(c)
    BY <2>3 DEF Schedule, ScheduleFails, Register
  <2> QED
    BY <1>1, <2>1, <2>2, <2>3 DEF Open
<1>2. ASSUME NEW c \in Conn,
             MessageArrives(c) \/ CloseFrame(c) \/ CloseFrames(c)
               \/ MessageReturns(c)
      PROVE  CloseInv'
  <2>1. CASE MessageArrives(c) \/ CloseFrame(c) \/ MessageReturns(c)
    BY <2>1 DEF MessageArrives, CloseFrame, MessageReturns
  <2>2. CASE CloseFrames(c)
    BY <2>2 DEF CloseFrames, CloseFrameCancels, CloseFrameCloses,
       CloseFrameReturns
  <2> QED
    BY <1>2, <2>1, <2>2
<1>3. ASSUME NEW c \in Conn, PeerCloses(c) \/ AppCloses(c) \/ OnClose(c)
      PROVE  CloseInv'
  <2>1. CASE PeerCloses(c) \/ AppCloses(c)
    BY <2>1 DEF PeerCloses, AppCloses
  <2>2. CASE OnClose(c)
    BY <2>2 DEF OnClose, OnCloseBegins, OnCloseDispatch, OnCloseRemove,
       OnCloseCancel
  <2> QED
    BY <1>3, <2>1, <2>2
<1>4. ASSUME NEW c \in Conn, RunHeartbeat(c) \/ RunTimeout(c) \/ RunSteps(c)
      PROVE  CloseInv'
  <2>1. CASE RunHeartbeat(c) \/ RunTimeout(c)
    BY <2>1 DEF RunHeartbeat, RunTimeout
  <2>2. CASE RunSteps(c)
    BY <2>2 DEF RunSteps, SendHeartbeat, InvokeOnTimeout, TimeoutCloses,
       TimeoutThrows, TimeoutCloseReturns, CancelSelf
  <2> QED
    BY <1>4, <2>1, <2>2
<1>5. ASSUME NEW r \in Request, RequestArrives(r) \/ Disconnect(r)
      PROVE  CloseInv'
  <2>1. CASE RequestArrives(r) \/ TakeHandler(r)
    BY <2>1 DEF RequestArrives, TakeHandler
  <2>2. CASE RequestCancels(r)
    BY <2>2 DEF RequestCancels
  <2>3. CASE RequestCloses(r)
    BY <2>3 DEF RequestCloses
  <2>4. CASE RequestReturns(r)
    BY <2>4 DEF RequestReturns
  <2> QED
    BY <1>5, <2>1, <2>2, <2>3, <2>4 DEF Disconnect
<1>6. CASE UNCHANGED vars
  BY <1>6 DEF vars
<1> QED
  BY <1>1, <1>2, <1>3, <1>4, <1>5, <1>6 DEF Next

(* Every step keeps the task between open and the end of @OnClose.         *)
LEMMA TaskStep == TypeOK /\ OpenInv /\ CloseInv /\ TaskInv /\ [Next]_vars => TaskInv'
<1> SUFFICES ASSUME TypeOK, OpenInv, CloseInv, TaskInv, [Next]_vars
             PROVE  TaskInv'
  OBVIOUS
<1> USE SidAssumption, TargetAssumption, NoneAssumption
    DEF TypeOK, OpenInv, CloseInv, TaskInv, InOpen, InMessage, Returned, httpVars, Close, Cancel, After, RemoveEntry
<1>1. ASSUME NEW c \in Conn, OpenBegins(c) \/ Open(c)
      PROVE  TaskInv'
  <2>1. CASE OpenBegins(c) \/ SendConnect(c) \/ ConnectFails(c)
    BY <2>1 DEF OpenBegins, SendConnect, ConnectFails
  <2>2. CASE AbortClose(c) \/ AbortReturns(c)
    BY <2>2 DEF AbortClose, AbortReturns
  <2>3. CASE Schedule(c) \/ ScheduleFails(c) \/ Register(c)
    BY <2>3 DEF Schedule, ScheduleFails, Register
  <2> QED
    BY <1>1, <2>1, <2>2, <2>3 DEF Open
<1>2. ASSUME NEW c \in Conn,
             MessageArrives(c) \/ CloseFrame(c) \/ CloseFrames(c)
               \/ MessageReturns(c)
      PROVE  TaskInv'
  <2>1. CASE MessageArrives(c) \/ CloseFrame(c) \/ MessageReturns(c)
    BY <2>1 DEF MessageArrives, CloseFrame, MessageReturns
  <2>2. CASE CloseFrames(c)
    BY <2>2 DEF CloseFrames, CloseFrameCancels, CloseFrameCloses,
       CloseFrameReturns
  <2> QED
    BY <1>2, <2>1, <2>2
<1>3. ASSUME NEW c \in Conn, PeerCloses(c) \/ AppCloses(c) \/ OnClose(c)
      PROVE  TaskInv'
  <2>1. CASE PeerCloses(c) \/ AppCloses(c)
    BY <2>1 DEF PeerCloses, AppCloses
  <2>2. CASE OnClose(c)
    BY <2>2 DEF OnClose, OnCloseBegins, OnCloseDispatch, OnCloseRemove,
       OnCloseCancel
  <2> QED
    BY <1>3, <2>1, <2>2
<1>4. ASSUME NEW c \in Conn, RunHeartbeat(c) \/ RunTimeout(c) \/ RunSteps(c)
      PROVE  TaskInv'
  <2>1. CASE RunHeartbeat(c) \/ RunTimeout(c)
    BY <2>1 DEF RunHeartbeat, RunTimeout
  <2>2. CASE RunSteps(c)
    BY <2>2 DEF RunSteps, SendHeartbeat, InvokeOnTimeout, TimeoutCloses,
       TimeoutThrows, TimeoutCloseReturns, CancelSelf
  <2> QED
    BY <1>4, <2>1, <2>2
<1>5. ASSUME NEW r \in Request, RequestArrives(r) \/ Disconnect(r)
      PROVE  TaskInv'
  <2>1. CASE RequestArrives(r) \/ TakeHandler(r)
    BY <2>1 DEF RequestArrives, TakeHandler
  <2>2. CASE RequestCancels(r)
    BY <2>2 DEF RequestCancels
  <2>3. CASE RequestCloses(r)
    BY <2>3 DEF RequestCloses
  <2>4. CASE RequestReturns(r)
    BY <2>4 DEF RequestReturns
  <2> QED
    BY <1>5, <2>1, <2>2, <2>3, <2>4 DEF Disconnect
<1>6. CASE UNCHANGED vars
  BY <1>6 DEF vars
<1> QED
  BY <1>1, <1>2, <1>3, <1>4, <1>5, <1>6 DEF Next

(* The inductive invariant holds in every state of the sessions.           *)
THEOREM IInvHolds == Spec => []IInv
<1>1. IInv /\ [Next]_vars => IInv'
  BY TypeStep, LockStep, OpenStep, CloseStep, TaskStep DEF IInv
<1> QED
  BY <1>1, InitIInv, PTL DEF Spec

(* When @OnClose has done its work no task of the connection is left.      *)
THEOREM TaskEnds == Spec => []NoTaskAfterClose
<1>1. IInv => NoTaskAfterClose
  BY DEF IInv, TaskInv, NoTaskAfterClose
<1> QED
  BY <1>1, IInvHolds, PTL

(* While a forced disconnect closes a connection, the slot of its session  *)
(* in the map is empty and stays so.                                       *)
THEOREM SlotStaysEmpty == Spec => []DisconnectExcludesAdd
<1>1. IInv => DisconnectExcludesAdd
  BY DEF IInv, LockInv, Held, DisconnectExcludesAdd
<1> QED
  BY <1>1, IInvHolds, PTL

(***************************************************************************)
(* The map and the sessions.                                               *)
(***************************************************************************)

(* Every step keeps a live connection reachable.                           *)
LEMMA LiveStep == IInv /\ LiveIsRegistered /\ [Next]_vars => LiveIsRegistered'
<1> SUFFICES ASSUME IInv, LiveIsRegistered, [Next]_vars
             PROVE  LiveIsRegistered'
  OBVIOUS
<1> USE SidAssumption, TargetAssumption, NoneAssumption
    DEF IInv, TypeOK, LockInv, OpenInv, CloseInv, LiveIsRegistered,
        Established, BeingClosed, Alone, InOpen, InMessage, Held, Returned, httpVars, Close,
        Cancel, After, RemoveEntry
<1>1. ASSUME NEW c \in Conn, OpenBegins(c) \/ Open(c)
      PROVE  LiveIsRegistered'
  <2>1. CASE OpenBegins(c) \/ SendConnect(c) \/ ConnectFails(c)
    BY <2>1 DEF OpenBegins, SendConnect, ConnectFails
  <2>2. CASE AbortClose(c) \/ AbortReturns(c)
    BY <2>2 DEF AbortClose, AbortReturns
  <2>3. CASE Schedule(c) \/ ScheduleFails(c) \/ Register(c)
    BY <2>3 DEF Schedule, ScheduleFails, Register
  <2> QED
    BY <1>1, <2>1, <2>2, <2>3 DEF Open
<1>2. ASSUME NEW c \in Conn,
             MessageArrives(c) \/ CloseFrame(c) \/ CloseFrames(c)
               \/ MessageReturns(c)
      PROVE  LiveIsRegistered'
  <2>1. CASE MessageArrives(c) \/ CloseFrame(c) \/ MessageReturns(c)
    BY <2>1 DEF MessageArrives, CloseFrame, MessageReturns
  <2>2. CASE CloseFrames(c)
    BY <2>2 DEF CloseFrames, CloseFrameCancels, CloseFrameCloses,
       CloseFrameReturns
  <2> QED
    BY <1>2, <2>1, <2>2
<1>3. ASSUME NEW c \in Conn, PeerCloses(c) \/ AppCloses(c) \/ OnClose(c)
      PROVE  LiveIsRegistered'
  <2>1. CASE PeerCloses(c) \/ AppCloses(c)
    BY <2>1 DEF PeerCloses, AppCloses
  <2>2. CASE OnClose(c)
    BY <2>2 DEF OnClose, OnCloseBegins, OnCloseDispatch, OnCloseRemove,
       OnCloseCancel
  <2> QED
    BY <1>3, <2>1, <2>2
<1>4. ASSUME NEW c \in Conn, RunHeartbeat(c) \/ RunTimeout(c) \/ RunSteps(c)
      PROVE  LiveIsRegistered'
  <2>1. CASE RunHeartbeat(c) \/ RunTimeout(c)
    BY <2>1 DEF RunHeartbeat, RunTimeout
  <2>2. CASE RunSteps(c)
    BY <2>2 DEF RunSteps, SendHeartbeat, InvokeOnTimeout, TimeoutCloses,
       TimeoutThrows, TimeoutCloseReturns, CancelSelf
  <2> QED
    BY <1>4, <2>1, <2>2
<1>5. ASSUME NEW r \in Request, RequestArrives(r) \/ Disconnect(r)
      PROVE  LiveIsRegistered'
  <2>1. CASE RequestArrives(r) \/ TakeHandler(r)
    BY <2>1 DEF RequestArrives, TakeHandler
  <2>2. CASE RequestCancels(r)
    BY <2>2 DEF RequestCancels
  <2>3. CASE RequestCloses(r)
    BY <2>3 DEF RequestCloses
  <2>4. CASE RequestReturns(r)
    BY <2>4 DEF RequestReturns
  <2> QED
    BY <1>5, <2>1, <2>2, <2>3, <2>4 DEF Disconnect
<1>6. CASE UNCHANGED vars
  BY <1>6 DEF vars
<1> QED
  BY <1>1, <1>2, <1>3, <1>4, <1>5, <1>6 DEF Next

(* A live connection can be reached by a forced disconnect, or is being    *)
(* closed, as long as no other connection of its session has opened.       *)
THEOREM LiveReachable == Spec => []LiveIsRegistered
<1>1. Init => LiveIsRegistered
  BY DEF Init, LiveIsRegistered, Established
<1> QED
  BY <1>1, LiveStep, IInvHolds, PTL DEF Spec

(* If nothing closes the session from within open but its own catch        *)
(* clause, the @OnClose that open then meets ends with an exception.       *)
AbortInv ==
  \A c \in Conn :
    /\ cb[c] \in {"connect", "abort", "schedule", "register"} =>
         oc[c] \in {"none", "due", "threw", "npe"}
    /\ cb[c] = "aborting" =>
         oc[c] \in {"dispatch", "remove", "cancel", "threw", "npe"}
    /\ cb[c] \in InOpen => tm[c] \in {"idle", "heartbeat"}

(* Every step keeps an @OnClose within open to its exception.              *)
LEMMA AbortStep ==
  ASSUME "early" \notin Faults
  PROVE  IInv /\ AbortInv /\ [Next]_vars => AbortInv'
<1> SUFFICES ASSUME IInv, AbortInv, [Next]_vars
             PROVE  AbortInv'
  OBVIOUS
<1> USE SidAssumption, TargetAssumption, NoneAssumption
    DEF IInv, TypeOK, LockInv, OpenInv, CloseInv, TaskInv, AbortInv,
        InOpen, InMessage, Held, Returned, httpVars, Close,
        Cancel, After, RemoveEntry
<1>1. ASSUME NEW c \in Conn, OpenBegins(c) \/ Open(c)
      PROVE  AbortInv'
  <2>1. CASE OpenBegins(c) \/ SendConnect(c) \/ ConnectFails(c)
    BY <2>1 DEF OpenBegins, SendConnect, ConnectFails
  <2>2. CASE AbortClose(c) \/ AbortReturns(c)
    BY <2>2 DEF AbortClose, AbortReturns
  <2>3. CASE Schedule(c) \/ ScheduleFails(c) \/ Register(c)
    BY <2>3 DEF Schedule, ScheduleFails, Register
  <2> QED
    BY <1>1, <2>1, <2>2, <2>3 DEF Open
<1>2. ASSUME NEW c \in Conn,
             MessageArrives(c) \/ CloseFrame(c) \/ CloseFrames(c)
               \/ MessageReturns(c)
      PROVE  AbortInv'
  <2>1. CASE MessageArrives(c) \/ CloseFrame(c) \/ MessageReturns(c)
    BY <2>1 DEF MessageArrives, CloseFrame, MessageReturns
  <2>2. CASE CloseFrames(c)
    BY <2>2 DEF CloseFrames, CloseFrameCancels, CloseFrameCloses,
       CloseFrameReturns
  <2> QED
    BY <1>2, <2>1, <2>2
<1>3. ASSUME NEW c \in Conn, PeerCloses(c) \/ AppCloses(c) \/ OnClose(c)
      PROVE  AbortInv'
  <2>1. CASE PeerCloses(c) \/ AppCloses(c)
    BY <2>1 DEF PeerCloses, AppCloses
  <2>2. CASE OnClose(c)
    BY <2>2 DEF OnClose, OnCloseBegins, OnCloseDispatch, OnCloseRemove,
       OnCloseCancel
  <2> QED
    BY <1>3, <2>1, <2>2
<1>4. ASSUME NEW c \in Conn, RunHeartbeat(c) \/ RunTimeout(c) \/ RunSteps(c)
      PROVE  AbortInv'
  <2>1. CASE RunHeartbeat(c) \/ RunTimeout(c)
    BY <2>1 DEF RunHeartbeat, RunTimeout
  <2>2. CASE RunSteps(c)
    BY <2>2 DEF RunSteps, SendHeartbeat, InvokeOnTimeout, TimeoutCloses,
       TimeoutThrows, TimeoutCloseReturns, CancelSelf
  <2> QED
    BY <1>4, <2>1, <2>2
<1>5. ASSUME NEW r \in Request, RequestArrives(r) \/ Disconnect(r)
      PROVE  AbortInv'
  <2>1. CASE RequestArrives(r) \/ TakeHandler(r)
    BY <2>1 DEF RequestArrives, TakeHandler
  <2>2. CASE RequestCancels(r)
    BY <2>2 DEF RequestCancels
  <2>3. CASE RequestCloses(r)
    BY <2>3 DEF RequestCloses
  <2>4. CASE RequestReturns(r)
    BY <2>4 DEF RequestReturns
  <2> QED
    BY <1>5, <2>1, <2>2, <2>3, <2>4 DEF Disconnect
<1>6. CASE UNCHANGED vars
  BY <1>6 DEF vars
<1> QED
  BY <1>1, <1>2, <1>3, <1>4, <1>5, <1>6 DEF Next

(* Every step keeps closed sessions out of the map.                        *)
LEMMA ZombieStep ==
  ASSUME "early" \notin Faults
  PROVE  IInv /\ AbortInv /\ NoZombieEntry /\ [Next]_vars => NoZombieEntry'
<1> SUFFICES ASSUME IInv, AbortInv, NoZombieEntry, [Next]_vars
             PROVE  NoZombieEntry'
  OBVIOUS
<1> USE SidAssumption, TargetAssumption, NoneAssumption
    DEF IInv, TypeOK, LockInv, OpenInv, CloseInv, TaskInv, AbortInv,
        NoZombieEntry, InOpen, InMessage, Held, Returned, httpVars, Close,
        Cancel, After, RemoveEntry
<1>1. ASSUME NEW c \in Conn, OpenBegins(c) \/ Open(c)
      PROVE  NoZombieEntry'
  <2>1. CASE OpenBegins(c) \/ SendConnect(c) \/ ConnectFails(c)
    BY <2>1 DEF OpenBegins, SendConnect, ConnectFails
  <2>2. CASE AbortClose(c) \/ AbortReturns(c)
    BY <2>2 DEF AbortClose, AbortReturns
  <2>3. CASE Schedule(c) \/ ScheduleFails(c) \/ Register(c)
    BY <2>3 DEF Schedule, ScheduleFails, Register
  <2> QED
    BY <1>1, <2>1, <2>2, <2>3 DEF Open
<1>2. ASSUME NEW c \in Conn,
             MessageArrives(c) \/ CloseFrame(c) \/ CloseFrames(c)
               \/ MessageReturns(c)
      PROVE  NoZombieEntry'
  <2>1. CASE MessageArrives(c) \/ CloseFrame(c) \/ MessageReturns(c)
    BY <2>1 DEF MessageArrives, CloseFrame, MessageReturns
  <2>2. CASE CloseFrames(c)
    BY <2>2 DEF CloseFrames, CloseFrameCancels, CloseFrameCloses,
       CloseFrameReturns
  <2> QED
    BY <1>2, <2>1, <2>2
<1>3. ASSUME NEW c \in Conn, PeerCloses(c) \/ AppCloses(c) \/ OnClose(c)
      PROVE  NoZombieEntry'
  <2>1. CASE PeerCloses(c) \/ AppCloses(c)
    BY <2>1 DEF PeerCloses, AppCloses
  <2>2. CASE OnClose(c)
    BY <2>2 DEF OnClose, OnCloseBegins, OnCloseDispatch, OnCloseRemove,
       OnCloseCancel
  <2> QED
    BY <1>3, <2>1, <2>2
<1>4. ASSUME NEW c \in Conn, RunHeartbeat(c) \/ RunTimeout(c) \/ RunSteps(c)
      PROVE  NoZombieEntry'
  <2>1. CASE RunHeartbeat(c) \/ RunTimeout(c)
    BY <2>1 DEF RunHeartbeat, RunTimeout
  <2>2. CASE RunSteps(c)
    BY <2>2 DEF RunSteps, SendHeartbeat, InvokeOnTimeout, TimeoutCloses,
       TimeoutThrows, TimeoutCloseReturns, CancelSelf
  <2> QED
    BY <1>4, <2>1, <2>2
<1>5. ASSUME NEW r \in Request, RequestArrives(r) \/ Disconnect(r)
      PROVE  NoZombieEntry'
  <2>1. CASE RequestArrives(r) \/ TakeHandler(r)
    BY <2>1 DEF RequestArrives, TakeHandler
  <2>2. CASE RequestCancels(r)
    BY <2>2 DEF RequestCancels
  <2>3. CASE RequestCloses(r)
    BY <2>3 DEF RequestCloses
  <2>4. CASE RequestReturns(r)
    BY <2>4 DEF RequestReturns
  <2> QED
    BY <1>5, <2>1, <2>2, <2>3, <2>4 DEF Disconnect
<1>6. CASE UNCHANGED vars
  BY <1>6 DEF vars
<1> QED
  BY <1>1, <1>2, <1>3, <1>4, <1>5, <1>6 DEF Next

(* The map keeps no closed session once its @OnClose has done its work.    *)
THEOREM NoZombies ==
  ASSUME "early" \notin Faults
  PROVE  Spec => []NoZombieEntry
<1>1. Init => AbortInv /\ NoZombieEntry
  BY DEF Init, AbortInv, NoZombieEntry, InOpen
<1> QED
  BY <1>1, AbortStep, ZombieStep, IInvHolds, PTL DEF Spec
=============================================================================
