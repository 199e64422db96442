---------------------------- MODULE MCSequencer ----------------------------
(***************************************************************************)
(* Sequencer with a history variable that counts how often a runnable task *)
(* is passed over by another of its priority.                              *)
(***************************************************************************)
EXTENDS Sequencer

VARIABLE bypass   \* bypass[p][u][t]: picks of t at level p that left a runnable u

Never == [t \in Tasks |-> 0]

HInit == Init /\ bypass = [p \in Prios |-> [u \in Tasks |-> Never]]

(* RunPick has chosen CurrentTaskIdx' from ReadyAt(counter).  The count    *)
(* starts again with a pick of u, and with a pick at its level while u is  *)
(* not runnable there.                                                     *)
Counted(p, u) ==
  CASE u = CurrentTaskIdx' \/ (p = counter /\ u \notin ReadyAt(p)) -> Never
    [] u # CurrentTaskIdx' /\ p = counter /\ u \in ReadyAt(p) ->
         [bypass[p][u] EXCEPT ![CurrentTaskIdx'] = @ + 1]
    [] OTHER -> bypass[p][u]

HNext ==
  /\ Next
  /\ bypass' = IF pc = "pick" /\ pc' = "remove"
               THEN [p \in Prios |-> [u \in Tasks |-> Counted(p, u)]] ELSE bypass

HSpec == HInit /\ [][HNext]_<<vars, bypass>> /\ Fairness

(* Round robin of UTIL_SEQ_Run(): while a task stays runnable at a         *)
(* priority level, another task of the level is executed at most twice     *)
(* before it (twice, not once: the round may restart in between).          *)
BypassBounded == \A p \in Prios, u, t \in Tasks : bypass[p][u][t] <= 2
=============================================================================
