------------------------------ MODULE Watchdog ------------------------------
(***************************************************************************)
(* What the heartbeat clock of a connection promises, with no timer, no    *)
(* threads and no milliseconds: periods of silence are counted one at a    *)
(* time, hearing from the client starts the count again, every silent      *)
(* period but the first is answered by a probe before the next one is      *)
(* counted, and the client is given up once, after Limit silent periods    *)
(* in a row.  TimeoutTask implements this module.                          *)
(***************************************************************************)
EXTENDS Naturals

CONSTANT Limit

VARIABLES
  watch,    \* "off", "watching", "expired" or "stopped"
  missed,   \* the silent periods counted since the client was last heard
  owed      \* a probe is due before the next period may be counted

vars == <<watch, missed, owed>>

TypeOK ==
  /\ watch \in {"off", "watching", "expired", "stopped"}
  /\ missed \in 0 .. Limit
  /\ owed \in BOOLEAN

Init ==
  /\ watch = "off"
  /\ missed = 0
  /\ owed = FALSE

Start ==
  /\ watch = "off"
  /\ watch' = "watching"
  /\ UNCHANGED <<missed, owed>>

(* One more silent period, short of the limit.                             *)
Count ==
  /\ watch = "watching"
  /\ ~owed
  /\ missed + 1 < Limit
  /\ missed' = missed + 1
  /\ owed' = (missed' > 1)
  /\ UNCHANGED watch

(* The silent period that reaches the limit.                               *)
Expire ==
  /\ watch = "watching"
  /\ ~owed
  /\ missed + 1 = Limit
  /\ missed' = Limit
  /\ watch' = "expired"
  /\ UNCHANGED owed

(* The probe that is owed goes out, or is given up: the watch may end      *)
(* while it is on its way.                                                 *)
Probe ==
  /\ owed
  /\ owed' = FALSE
  /\ watch' \in {watch} \cup (IF watch = "watching" THEN {"stopped"} ELSE {})
  /\ UNCHANGED missed

Heard ==
  /\ watch # "off"
  /\ missed' = 0
  /\ UNCHANGED <<watch, owed>>

Stop ==
  /\ watch = "watching"
  /\ watch' = "stopped"
  /\ UNCHANGED <<missed, owed>>

Next == Start \/ Count \/ Expire \/ Probe \/ Heard \/ Stop

(* A watch that is on goes on counting, and what is owed is paid.          *)
Spec == Init /\ [][Next]_vars /\ WF_vars(Count \/ Expire) /\ WF_vars(Probe)

(* The safety part, which is what a proof can establish.                   *)
SafeSpec == Init /\ [][Next]_vars
=============================================================================
