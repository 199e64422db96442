---------------------------- MODULE TimerPromise ----------------------------
(***************************************************************************)
(* What the timer server promises, whatever list and alarm are behind it:  *)
(* the callback of a running timer is called neither before its period is  *)
(* over nor more than MaxLate ticks after it, and once per start.          *)
(***************************************************************************)
EXTENDS Integers

CONSTANTS
  Timers,
  NoTimer,
  Durations,   \* possible delays, in ticks
  MaxLate      \* how late a callback may be, in ticks

VARIABLES
  running,     \* running[t]: the timer is started and has not expired
  left,        \* left[t]: ticks to its deadline, negative when overdue
  firing       \* the timer whose callback is executing

PInit ==
  /\ running = [t \in Timers |-> FALSE]
  /\ left = [t \in Timers |-> 0]
  /\ firing = NoTimer

PStart(t) ==
  /\ ~running[t]
  /\ running' = [running EXCEPT ![t] = TRUE]
  /\ \E d \in Durations : left' = [left EXCEPT ![t] = d]
  /\ UNCHANGED firing

PEnd(t) ==
  /\ running[t]
  /\ running' = [running EXCEPT ![t] = FALSE]
  /\ left' = [left EXCEPT ![t] = 0]

PStop(t) == PEnd(t) /\ UNCHANGED firing

PExpire(t) ==
  /\ left[t] <= 0 /\ firing = NoTimer
  /\ PEnd(t)
  /\ firing' = t

PReturn ==
  /\ firing # NoTimer /\ firing' = NoTimer
  /\ UNCHANGED <<running, left>>

PPasses ==
  /\ left' = [t \in Timers |-> IF running[t] THEN left[t] - 1 ELSE 0]
  /\ UNCHANGED <<running, firing>>

PTick == PPasses /\ \A t \in Timers : running[t] => left[t] > -MaxLate

PCall ==
  \/ \E t \in Timers : PStart(t) \/ PStop(t) \/ PExpire(t)
  \/ PReturn

PNext == PCall \/ PTick

PSpec == PInit /\ [][PNext]_<<running, left, firing>>

(* The half of the promise that no delay can break: never early.           *)
PNeverEarly == PInit /\ [][PCall \/ PPasses]_<<running, left, firing>>
=============================================================================
