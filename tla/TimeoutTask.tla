----------------------------- MODULE TimeoutTask -----------------------------
(***************************************************************************)
(* The heartbeat clock of one WebSocket connection: TimeoutTask (run and   *)
(* resetTimeout), WebSocketTimeoutHandler (sendHeartbeat and timeout), and *)
(* the ScheduledFuture that WebSocketHandler.open obtains for it.          *)
(*                                                                         *)
(* Three threads meet here.  The executor's thread calls run once per      *)
(* period, never twice at a time; what run decided from addAndGet may be   *)
(* carried out long after the other threads have moved on.  The thread     *)
(* that delivers messages handles one message at a time and resets the     *)
(* clock when it is done with it.  A third thread (@OnClose, a forced      *)
(* disconnect, the network) may cancel the task or close the session at    *)
(* any moment.                                                             *)
(***************************************************************************)
EXTENDS Naturals

CONSTANTS
  Duration,   \* the period, in milliseconds: heartbeat-delay
  SendFails,  \* how a send on an open session may fail
  Malformed   \* may the client send EVENT or JSON data the parser rejects?

ASSUME DurationAssumption == Duration \in Nat \ {0}
ASSUME SendFailsAssumption ==
         SendFails \subseteq {"IOException", "RuntimeException"}
ASSUME MalformedAssumption == Malformed \in BOOLEAN

VARIABLES
  value,          \* the AtomicLong: milliseconds since the last reset
  run,            \* where the executor's thread is in run
  future,         \* the scheduled task's ScheduledFuture
  handlerFuture,  \* has WebSocketTimeoutHandler.future been assigned?
  session,        \* the WebSocket session: "open" or "closed"
  message,        \* the thread of @OnMessage: "idle" or "handling"
  quiet,          \* history: runs begun since message() last returned
  probes,         \* history: heartbeats attempted since the last reset
  mishaps,        \* history: "unparsed", a message since the last reset whose
                  \* data did not parse; "crashed", a send on the open session
                  \* that threw a RuntimeException
  timeouts        \* history: the calls of Timeout.timeout()

clockVars == <<value, run, quiet, probes, mishaps, timeouts>>
vars == <<value, run, future, handlerFuture, session, message,
          quiet, probes, mishaps, timeouts>>

(* (Here and below, the definitions that say "Mutated" are not part of the *)
(* specification: each stands for a mistake in the definition of the same  *)
(* stem, and shows that a property would notice it.)                       *)

(* Mutated: one period less.                                               *)
timeoutValueShort == Duration * 3

timeoutValue == Duration * 4

RunStates == {"idle", "probe", "timeout", "close", "cancel"}

TypeOK ==
  /\ value \in 0 .. timeoutValue
  /\ run \in RunStates
  /\ future \in {"none", "live", "cancelled", "failed"}
  /\ handlerFuture \in BOOLEAN
  /\ session \in {"open", "closed"}
  /\ message \in {"idle", "handling"}
  /\ quiet \in Nat
  /\ probes \in Nat
  /\ mishaps \subseteq {"unparsed", "crashed"}
  /\ timeouts \in Nat

Init ==
  /\ value = 0
  /\ run = "idle"
  /\ future = "none"
  /\ handlerFuture = FALSE
  /\ session = "open"
  /\ message = "idle"
  /\ quiet = 0
  /\ probes = 0
  /\ mishaps = {}
  /\ timeouts = 0

(***************************************************************************)
(* The thread of WebSocketHandler.open.                                    *)
(***************************************************************************)

(* open schedules the task, with no initial delay: run may begin before    *)
(* the next line of open does.                                             *)
Schedule ==
  /\ future = "none"
  /\ future' = "live"
  /\ UNCHANGED <<clockVars, handlerFuture, session, message>>

(* open hands the future to the timeout handler.                           *)
SetScheduledFuture ==
  /\ future # "none"
  /\ ~handlerFuture
  /\ handlerFuture' = TRUE
  /\ UNCHANGED <<clockVars, future, session, message>>

(***************************************************************************)
(* The executor's thread.                                                  *)
(***************************************************************************)

(* Mutated: > for >= and the other way round.                              *)
BranchLate(currValue) ==
  IF currValue > timeoutValue THEN "timeout"
  ELSE IF currValue > Duration THEN "probe"
  ELSE "idle"
BranchEarlyProbe(currValue) ==
  IF currValue >= timeoutValue THEN "timeout"
  ELSE IF currValue >= Duration THEN "probe"
  ELSE "idle"

(* What run does with the value addAndGet returned to it.                  *)
Branch(currValue) ==
  IF currValue >= timeoutValue THEN "timeout"
  ELSE IF currValue > Duration THEN "probe"
  ELSE "idle"

(* addAndGet, and the branch taken on its result.  The branch is carried   *)
(* out by later steps: a reset may come in between.                        *)
Run ==
  /\ future = "live"
  /\ run = "idle"
  /\ value' = value + Duration
  /\ run' = Branch(value')
  /\ quiet' = quiet + 1
  /\ timeouts' = timeouts + (IF run' = "timeout" THEN 1 ELSE 0)
  /\ UNCHANGED <<future, handlerFuture, session, message, probes, mishaps>>

(* How a send may end: on an open session it succeeds or fails in one of   *)
(* the ways of SendFails, on a closed session it fails.                    *)
SendResults ==
  IF session = "open" THEN {"sent"} \cup SendFails
  ELSE {"IOException", "RuntimeException"}

(* Mutated: an IOException is not caught; a heartbeat sent counts as one   *)
(* received.                                                               *)
SendHeartbeatThrows ==
  /\ run = "probe"
  /\ \E result \in SendResults :
       future' = IF result # "sent" /\ future = "live"
                 THEN "failed" ELSE future
  /\ run' = "idle"
  /\ probes' = probes + 1
  /\ UNCHANGED <<value, handlerFuture, session, message, quiet, mishaps,
                 timeouts>>
SendHeartbeatResets ==
  /\ run = "probe"
  /\ run' = "idle"
  /\ value' = 0
  /\ probes' = 0
  /\ UNCHANGED <<future, handlerFuture, session, message, quiet, mishaps,
                 timeouts>>

(* sendHeartbeat.  run catches an IOException only: another exception      *)
(* escapes from run, and the executor never calls it again.                *)
SendHeartbeat ==
  /\ run = "probe"
  /\ \E result \in SendResults :
       /\ future' = IF result = "RuntimeException" /\ future = "live"
                    THEN "failed" ELSE future
       /\ mishaps' = IF result = "RuntimeException" /\ session = "open"
                     THEN mishaps \cup {"crashed"} ELSE mishaps
  /\ run' = "idle"
  /\ probes' = probes + 1
  /\ UNCHANGED <<value, handlerFuture, session, message, quiet, timeouts>>

(* timeout() looks up the application's handlers and calls their           *)
(* @WhenTimeout methods.  What the methods throw is caught there, what the *)
(* lookup of a bean throws is not.                                         *)
InvokeOnTimeout ==
  /\ run = "timeout"
  /\ run' \in {"cancel", "close"}
  /\ UNCHANGED <<value, future, handlerFuture, session, message,
                 quiet, probes, mishaps, timeouts>>

(* The session is closed only after such an exception, and only if its     *)
(* message is no longer than the reason of a close may be: CloseReason     *)
(* throws otherwise.  As close() may, it ends the task before the cancel.  *)
CloseAbnormally ==
  /\ run = "close"
  /\ \/ /\ run' = "cancel"
        /\ session' = "closed"
        /\ UNCHANGED future
     \/ /\ run' = "idle"
        /\ future' = IF future = "live" THEN "failed" ELSE future
        /\ UNCHANGED session
  /\ UNCHANGED <<value, handlerFuture, message,
                 quiet, probes, mishaps, timeouts>>

(* Mutated: the task is not cancelled.                                     *)
CancelSelfForgotten ==
  /\ run = "cancel"
  /\ run' = "idle"
  /\ UNCHANGED <<value, future, handlerFuture, session, message,
                 quiet, probes, mishaps, timeouts>>

(* The last line of timeout().  future is a plain field written by another *)
(* thread after the task was scheduled, so this thread may read null       *)
(* whether or not the write has happened: the task then ends with a        *)
(* NullPointerException, which no one catches.                             *)
CancelSelf ==
  /\ run = "cancel"
  /\ run' = "idle"
  /\ \E seen \in {FALSE, handlerFuture} :
       future' = IF future # "live" THEN future
                 ELSE IF seen THEN "cancelled" ELSE "failed"
  /\ UNCHANGED <<value, handlerFuture, session, message,
                 quiet, probes, mishaps, timeouts>>

(***************************************************************************)
(* The thread of @OnMessage.                                               *)
(***************************************************************************)

(* A message arrives.  Callbacks of one connection do not overlap, so open *)
(* has returned.                                                           *)
MessageArrives ==
  /\ session = "open"
  /\ handlerFuture
  /\ message = "idle"
  /\ message' = "handling"
  /\ UNCHANGED <<clockVars, future, handlerFuture, session>>

(* resetTimeout, after the last frame of the message: the clock is not     *)
(* stopped while the application handles the frames.                       *)
ResetTimeout ==
  /\ message = "handling"
  /\ message' = "idle"
  /\ value' = 0
  /\ quiet' = 0
  /\ probes' = 0
  /\ mishaps' = mishaps \ {"unparsed"}
  /\ UNCHANGED <<run, future, handlerFuture, session, timeouts>>

(* EventObject.valueOf and Frame.parseJson are called outside any try: an  *)
(* exception of theirs leaves message() before the reset.                  *)
MessageThrows ==
  /\ Malformed
  /\ message = "handling"
  /\ message' = "idle"
  /\ quiet' = 0
  /\ mishaps' = mishaps \cup {"unparsed"}
  /\ UNCHANGED <<value, run, future, handlerFuture, session, probes, timeouts>>

(***************************************************************************)
(* The other threads.                                                      *)
(***************************************************************************)

(* cleanup and WebSocketCloseHandler.close cancel a task that is not       *)
(* cancelled; a run in progress is not stopped by it.                      *)
CancelTask ==
  /\ future = "live"
  /\ future' = "cancelled"
  /\ UNCHANGED <<clockVars, handlerFuture, session, message>>

(* The session is closed: by the client, the application or the network.   *)
SessionClosed ==
  /\ session = "open"
  /\ session' = "closed"
  /\ UNCHANGED <<clockVars, future, handlerFuture, message>>

Next ==
  \/ Schedule
  \/ SetScheduledFuture
  \/ Run
  \/ SendHeartbeat
  \/ InvokeOnTimeout
  \/ CloseAbnormally
  \/ CancelSelf
  \/ MessageArrives
  \/ ResetTimeout
  \/ MessageThrows
  \/ CancelTask
  \/ SessionClosed

(* The executor calls a live task once per period, and the calls made from *)
(* run return.  Nothing obliges a client to send or a session to close.    *)
Fairness ==
  /\ WF_vars(Run)
  /\ WF_vars(SendHeartbeat)
  /\ WF_vars(InvokeOnTimeout)
  /\ WF_vars(CloseAbnormally)
  /\ WF_vars(CancelSelf)

Spec == Init /\ [][Next]_vars /\ Fairness

(***************************************************************************)
(* Properties.                                                             *)
(***************************************************************************)

(* A client is given up only after four periods in which message() did not *)
(* return, counted from addAndGet, whatever the interleaving of run,       *)
(* message() and cancellation, unless it has sent data that do not parse.  *)
DeadMeansQuiet ==
  [][timeouts' > timeouts /\ "unparsed" \notin mishaps => quiet' >= 4]_vars

(* A client is given up only after two heartbeats were attempted since the *)
(* last reset, so that it had something to answer: also when the reset     *)
(* came between addAndGet and the step it had decided.                     *)
ProbedBeforeTimeout ==
  [][timeouts' > timeouts => probes >= 2]_vars

(* @WhenTimeout is called at most once in the life of a connection, even   *)
(* when the cancellation at the end of timeout() reads a null future, or   *)
(* is skipped by an exception.                                             *)
AtMostOneTimeout == timeouts <= 1

(* A connection is not left without a clock: unless it was cancelled, the  *)
(* task goes on until it has called timeout(), unless a send on the open   *)
(* session failed with something worse than an IOException.                *)
OpenIsWatched ==
  session = "open" /\ future = "failed" /\ "crashed" \notin mishaps =>
    timeouts = 1

(* What the comment at the end of message() says: every message of the     *)
(* client resets the clock.                                                *)
EveryMessageResets ==
  [][message = "handling" /\ message' = "idle" => value' = 0]_vars

(* A task that is never cancelled ends by itself: it does not outlive a    *)
(* client from which no message is handled any more.                       *)
SilentClientEndsTask ==
  []<><<ResetTimeout>>_vars \/ (future = "live" ~> future # "live")

(* The watch kept by the three threads, as Watchdog describes it.          *)
WatchdogState ==
  IF timeouts > 0 THEN "expired"
  ELSE IF future = "none" THEN "off"
  ELSE IF future = "live" THEN "watching"
  ELSE "stopped"

Abstract == INSTANCE Watchdog WITH
              Limit  <- 4,
              watch  <- WatchdogState,
              missed <- value \div Duration,
              owed   <- run = "probe"

(* The clock implements the watchdog: it counts whole silent periods,      *)
(* gives up at the fourth, once, and probes before each further count.     *)
ImplementsWatchdog == Abstract!Spec
=============================================================================
