-------------------------- MODULE TimeoutTaskProofs --------------------------
(***************************************************************************)
(* Theorems about TimeoutTask, for every period, every way a send may fail *)
(* and clients whose data parse or do not.                                 *)
(***************************************************************************)
EXTENDS TimeoutTask, TLAPS

(* The clock shows whole periods, and the fourth only at the timeout.      *)
WholePeriods ==
  /\ value \in {0, Duration, 2 * Duration, 3 * Duration, 4 * Duration}
  /\ value = 4 * Duration => timeouts > 0

(* While no timeout has been called, run is idle or about to probe; after  *)
(* it, run is still inside timeout() or the task has ended.                *)
OneTimeout ==
  /\ timeouts \in {0, 1}
  /\ timeouts = 0 => run \in {"idle", "probe"}
  /\ timeouts = 1 =>
       \/ future # "live" /\ run = "idle"
       \/ run \in {"timeout", "close", "cancel"}
  /\ future = "none" => timeouts = 0 /\ run = "idle" /\ value = 0

(* The heartbeats attempted up to each count of the clock; one may be      *)
(* still to come.                                                          *)
Probed ==
  /\ (value = 2 * Duration /\ run # "probe") => probes >= 1
  /\ value = 3 * Duration => probes >= 1
  /\ (value = 3 * Duration /\ run # "probe") => probes >= 2

(* The runs begun up to each count, as far as messages parsed.             *)
Counted ==
  \/ "unparsed" \in mishaps
  \/ /\ value = Duration => quiet >= 1
     /\ value = 2 * Duration => quiet >= 2
     /\ value = 3 * Duration => quiet >= 3
     /\ value = 4 * Duration => quiet >= 4

IInv == TypeOK /\ WholePeriods /\ OneTimeout /\ Probed

(* The invariant holds initially and every step of every thread keeps it.  *)
LEMMA InitIInv == Init => IInv
<1> SUFFICES ASSUME Init
             PROVE  IInv
  OBVIOUS
<1>1. TypeOK
  <2>1. timeoutValue \in Nat
    BY DurationAssumption DEF timeoutValue
  <2>2. handlerFuture \in BOOLEAN
    BY Zenon DEF Init
  <2> QED
    BY <2>1, <2>2 DEF Init, TypeOK, RunStates
<1>2. WholePeriods /\ OneTimeout /\ Probed
  BY DurationAssumption DEF Init, WholePeriods, OneTimeout, Probed
<1> QED
  BY <1>1, <1>2 DEF IInv

(* Every step of a thread or of the container keeps the invariant.         *)
LEMMA StepIInv == IInv /\ [Next]_vars => IInv'
<1> SUFFICES ASSUME IInv, [Next]_vars
             PROVE  IInv'
  OBVIOUS
<1> USE DurationAssumption
    DEF IInv, TypeOK, WholePeriods, OneTimeout, Probed, timeoutValue,
        RunStates, clockVars
<1>1. CASE Schedule
  BY <1>1 DEF Schedule
<1>2. CASE SetScheduledFuture
  BY <1>2 DEF SetScheduledFuture
<1>3. CASE Run
  <2>1. timeouts = 0 /\ value \in {0, Duration, 2 * Duration, 3 * Duration}
    BY <1>3 DEF Run
  <2>2. TypeOK'
    BY <1>3, <2>1 DEF Run, Branch
  <2>3. WholePeriods'
    BY <1>3, <2>1 DEF Run, Branch
  <2>4. OneTimeout'
    BY <1>3, <2>1 DEF Run, Branch
  <2>5. Probed'
    BY <1>3, <2>1 DEF Run, Branch
  <2> QED
    BY <2>2, <2>3, <2>4, <2>5
<1>4. CASE SendHeartbeat
  BY <1>4 DEF SendHeartbeat
<1>5. CASE InvokeOnTimeout
  BY <1>5 DEF InvokeOnTimeout
<1>6. CASE CloseAbnormally
  BY <1>6 DEF CloseAbnormally
<1>7. CASE CancelSelf
  BY <1>7 DEF CancelSelf
<1>8. CASE MessageArrives
  BY <1>8 DEF MessageArrives
<1>9. CASE ResetTimeout
  BY <1>9 DEF ResetTimeout
<1>10. CASE MessageThrows
  BY <1>10 DEF MessageThrows
<1>11. CASE CancelTask
  BY <1>11 DEF CancelTask
<1>12. CASE SessionClosed
  BY <1>12 DEF SessionClosed
<1>13. CASE UNCHANGED vars
  BY <1>13 DEF vars
<1> QED
  BY <1>1, <1>2, <1>3, <1>4, <1>5, <1>6, <1>7, <1>8, <1>9, <1>10, <1>11,
     <1>12, <1>13 DEF Next

(* The inductive invariant holds in every state of the clock.              *)
THEOREM IInvHolds == Spec => []IInv
  BY InitIInv, StepIInv, PTL DEF Spec

(* The AtomicLong stays between 0 and four periods, however often run,     *)
(* message() and the cancelling threads get in each other's way.           *)
THEOREM TypeCorrect == Spec => []TypeOK
<1>1. IInv => TypeOK
  BY DEF IInv
<1> QED
  BY <1>1, IInvHolds, PTL

(* timeout() is called at most once in the life of a connection.           *)
THEOREM OnceTimedOut == Spec => []AtMostOneTimeout
<1>1. IInv => AtMostOneTimeout
  BY DEF IInv, OneTimeout, AtMostOneTimeout
<1> QED
  BY <1>1, IInvHolds, PTL

(* No client is given up before two heartbeats were attempted.             *)
THEOREM ProbedFirst == Spec => ProbedBeforeTimeout
<1>1. IInv /\ [Next]_vars => (timeouts' > timeouts => probes >= 2)
  <2> SUFFICES ASSUME IInv, [Next]_vars, timeouts' > timeouts
               PROVE  probes >= 2
    OBVIOUS
  <2>1. Run /\ run' = "timeout"
    BY DEF Next, vars, clockVars, Schedule, SetScheduledFuture, Run,
           SendHeartbeat, InvokeOnTimeout, CloseAbnormally, CancelSelf,
           MessageArrives, ResetTimeout, MessageThrows, CancelTask,
           SessionClosed, IInv, OneTimeout
  <2>2. value = 3 * Duration /\ run # "probe"
    BY <2>1, DurationAssumption
    DEF Run, Branch, timeoutValue, IInv, WholePeriods, OneTimeout
  <2> QED
    BY <2>2 DEF IInv, Probed
<1> QED
  BY <1>1, IInvHolds, PTL DEF Spec, ProbedBeforeTimeout

(***************************************************************************)
(* Two facts that depend on what the network and the clients did.          *)
(***************************************************************************)

(* Unless data did not parse, the clock has counted as many periods as     *)
(* message() has not returned for.                                         *)
LEMMA CountedInv == Spec => []Counted
<1>1. Init => Counted
  BY DurationAssumption DEF Init, Counted
<1>2. IInv /\ Counted /\ [Next]_vars => Counted'
  <2> SUFFICES ASSUME IInv, Counted, [Next]_vars
               PROVE  Counted'
    OBVIOUS
  <2> USE DurationAssumption
      DEF IInv, TypeOK, Counted, clockVars
  <2>1. CASE Run
    <3>1. value \in {0, Duration, 2 * Duration, 3 * Duration}
      BY <2>1 DEF Run, WholePeriods, OneTimeout
    <3> QED
      BY <2>1, <3>1 DEF Run
  <2>2. CASE ResetTimeout
    BY <2>2 DEF ResetTimeout
  <2>3. CASE ~Run /\ ~ResetTimeout
    BY <2>3 DEF Next, vars, Schedule, SetScheduledFuture, SendHeartbeat,
       InvokeOnTimeout, CloseAbnormally, CancelSelf, MessageArrives,
       MessageThrows, CancelTask, SessionClosed
  <2> QED
    BY <2>1, <2>2, <2>3
<1> QED
  BY <1>1, <1>2, IInvHolds, PTL DEF Spec

(* A client whose data parse is given up only after four periods in which  *)
(* none of its messages was handled.                                       *)
THEOREM DeadIsQuiet == Spec => DeadMeansQuiet
<1>1. IInv /\ Counted /\ [Next]_vars
        => (timeouts' > timeouts /\ "unparsed" \notin mishaps => quiet' >= 4)
  <2> SUFFICES ASSUME IInv, Counted, [Next]_vars, timeouts' > timeouts,
                      "unparsed" \notin mishaps
               PROVE  quiet' >= 4
    OBVIOUS
  <2>1. Run /\ run' = "timeout"
    BY DEF Next, vars, clockVars, Schedule, SetScheduledFuture, Run,
           SendHeartbeat, InvokeOnTimeout, CloseAbnormally, CancelSelf,
           MessageArrives, ResetTimeout, MessageThrows, CancelTask,
           SessionClosed, IInv, OneTimeout
  <2>2. value = 3 * Duration
    BY <2>1, DurationAssumption
    DEF Run, Branch, timeoutValue, IInv, WholePeriods, OneTimeout
  <2> QED
    BY <2>1, <2>2 DEF Run, Counted, IInv, TypeOK
<1> QED
  BY <1>1, IInvHolds, CountedInv, PTL DEF Spec, DeadMeansQuiet

(* If no send on the open session failed with worse than an IOException, a *)
(* task does not die under it.                                             *)
THEOREM Watched == Spec => []OpenIsWatched
<1>1. Init => OpenIsWatched
  BY DEF Init, OpenIsWatched
<1>2. IInv /\ OpenIsWatched /\ [Next]_vars => OpenIsWatched'
  <2> SUFFICES ASSUME IInv, OpenIsWatched, [Next]_vars
               PROVE  OpenIsWatched'
    OBVIOUS
  <2> USE DEF IInv, OpenIsWatched, OneTimeout, clockVars
  <2>1. CASE Run
    BY <2>1 DEF Run
  <2>2. CASE SendHeartbeat
    BY <2>2 DEF SendHeartbeat, SendResults
  <2>3. CASE CancelSelf
    BY <2>3 DEF CancelSelf
  <2>4. CASE ~Run /\ ~SendHeartbeat /\ ~CancelSelf
    BY <2>4 DEF Next, vars, Schedule, SetScheduledFuture, InvokeOnTimeout,
       CloseAbnormally, MessageArrives, ResetTimeout, MessageThrows,
       CancelTask, SessionClosed
  <2> QED
    BY <2>1, <2>2, <2>3, <2>4
<1> QED
  BY <1>1, <1>2, IInvHolds, PTL DEF Spec

(***************************************************************************)
(* The clock implements the watchdog (its safety part: liveness is for TLC *)
(* to check).                                                              *)
(***************************************************************************)

(* The count of periods that a value of the clock stands for.              *)
LEMMA MissedPeriods ==
  /\ 0 \div Duration = 0
  /\ Duration \div Duration = 1
  /\ (2 * Duration) \div Duration = 2
  /\ (3 * Duration) \div Duration = 3
  /\ (4 * Duration) \div Duration = 4
  BY DurationAssumption

(* Every step of the clock is a step of the watchdog, or leaves what it    *)
(* counts alone: the client is probed, given up once, and never forgotten. *)
THEOREM Refinement == Spec => Abstract!SafeSpec
<1>1. Init => Abstract!Init
  BY MissedPeriods DEF Init, Abstract!Init, WatchdogState
<1>2. IInv /\ [Next]_vars => [Abstract!Next]_(Abstract!vars)
  <2> SUFFICES ASSUME IInv, [Next]_vars
               PROVE  [Abstract!Next]_(Abstract!vars)
    OBVIOUS
  <2> USE DEF IInv, TypeOK, OneTimeout, WatchdogState, clockVars
  <2>1. CASE Schedule
    <3> SUFFICES Abstract!Start
      BY DEF Abstract!Next
    <3> QED
      BY <2>1 DEF Schedule, Abstract!Start
  <2>2. CASE Run
    <3>1. timeouts = 0
      BY <2>2 DEF Run
    <3>2. value \in {0, Duration, 2 * Duration, 3 * Duration}
      BY <2>2, <3>1 DEF WholePeriods
    <3>3. (value' \div Duration) = (value \div Duration) + 1
      BY <2>2, <3>2, MissedPeriods, DurationAssumption DEF Run
    <3>4. CASE value = 3 * Duration
      <4>1. run' = "timeout" /\ timeouts' = 1
        BY <2>2, <3>1, <3>4, DurationAssumption DEF Run, Branch, timeoutValue
      <4>2. Abstract!Expire
        BY <2>2, <3>1, <3>3, <3>4, <4>1, MissedPeriods
        DEF Run, Abstract!Expire
      <4> QED
        BY <4>2 DEF Abstract!Next
    <3>5. CASE value # 3 * Duration
      <4>1. timeouts' = 0 /\ (run' = "probe" <=> value # 0)
        BY <2>2, <3>1, <3>2, <3>5, DurationAssumption
        DEF Run, Branch, timeoutValue
      <4>2. Abstract!Count
        BY <2>2, <3>1, <3>2, <3>3, <3>5, <4>1, MissedPeriods,
           DurationAssumption DEF Run, Abstract!Count
      <4> QED
        BY <4>2 DEF Abstract!Next
    <3> QED
      BY <3>4, <3>5
  <2>3. CASE SendHeartbeat
    <3> SUFFICES Abstract!Probe
      BY DEF Abstract!Next
    <3> QED
      BY <2>3 DEF SendHeartbeat, Abstract!Probe
  <2>4. CASE CancelSelf
    BY <2>4 DEF CancelSelf, Abstract!vars
  <2>5. CASE ResetTimeout
    <3>1. CASE future = "none" /\ timeouts = 0
      BY <2>5, <3>1 DEF ResetTimeout, Abstract!vars
    <3>2. CASE ~(future = "none" /\ timeouts = 0)
      <4> SUFFICES Abstract!Heard
        BY DEF Abstract!Next
      <4> QED
        BY <2>5, <3>2, MissedPeriods DEF ResetTimeout, Abstract!Heard
    <3> QED
      BY <3>1, <3>2
  <2>6. CASE CancelTask
    <3>1. CASE timeouts = 0
      <4> SUFFICES Abstract!Stop
        BY DEF Abstract!Next
      <4> QED
        BY <2>6, <3>1 DEF CancelTask, Abstract!Stop
    <3>2. CASE timeouts = 1
      BY <2>6, <3>2 DEF CancelTask, Abstract!vars
    <3> QED
      BY <3>1, <3>2
  <2>7. CASE \/ SetScheduledFuture \/ InvokeOnTimeout \/ CloseAbnormally
             \/ MessageArrives \/ MessageThrows \/ SessionClosed
             \/ UNCHANGED vars
    BY <2>7 DEF SetScheduledFuture, InvokeOnTimeout, CloseAbnormally,
       MessageArrives, MessageThrows, SessionClosed, vars, Abstract!vars
  <2> QED
    BY <2>1, <2>2, <2>3, <2>4, <2>5, <2>6, <2>7 DEF Next
<1> QED
  BY <1>1, <1>2, IInvHolds, PTL DEF Spec, Abstract!SafeSpec
=============================================================================
