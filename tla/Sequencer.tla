----------------------------- MODULE Sequencer -----------------------------
(***************************************************************************)
(* The baremetal task sequencer, lib/Utilities/baremetal/stm32_seq.c.      *)
(*                                                                         *)
(* One CPU runs main(), which calls UTIL_SEQ_Run(UTIL_SEQ_DEFAULT) for     *)
(* ever; interrupt handlers preempt it between any two steps, except in a  *)
(* critical section (PRIMASK), which is one step here.  A 32 bit mask is   *)
(* the set of its bits: bit t of TaskSet is "t \in TaskSet".               *)
(*                                                                         *)
(* A task that calls UTIL_SEQ_WaitEvt() stays on the C stack and calls     *)
(* UTIL_SEQ_Run() again, so the stack is a tower of levels.  Level k is    *)
(* the Run() call nested inside k WaitEvt() calls; only the top level,     *)
(* "nest", executes.  The locals a suspended call keeps are functions of   *)
(* the level.                                                              *)
(***************************************************************************)
EXTENDS Integers, FiniteSets

CONSTANTS
  NTask,         \* UTIL_SEQ_CONF_TASK_NBR
  NPrio,         \* UTIL_SEQ_CONF_PRIO_NBR
  Evts,          \* the event bits the application uses
  MaxNest,       \* bound: WaitEvt() calls on the stack at once
  StartupWait,   \* does main() call WaitEvt() before its UTIL_SEQ_Run() loop?
  Pauses         \* do tasks call UTIL_SEQ_PauseTask()?

ASSUME SequencerAssumption ==
  /\ NTask \in Nat \ {0} /\ NPrio \in Nat \ {0} /\ MaxNest \in Nat
  /\ StartupWait \in BOOLEAN /\ Pauses \in BOOLEAN

Tasks  == 0 .. NTask - 1
Prios  == 0 .. NPrio - 1
Levels == 0 .. MaxNest
NoTask == -1                      \* UTIL_SEQ_NOTASKRUNNING

VARIABLES
  TaskSet, TaskMask, SuperMask, EvtSet, EvtWaited, CurrentTaskIdx, TaskCb,
  priority, round_robin,          \* the two fields of TaskPrio[]
  pc,                             \* where the code of the top level is
  nest,                           \* WaitEvt() calls on the stack
  body,        \* body[k]: the task called by the Run() of level k
  backup,      \* backup[k]: super_mask_backup of the Run() of level k
  waitIdx,     \* waitIdx[k]: current_task_idx of the k-th WaitEvt()
  evtBackup,   \* evtBackup[k]: event_waited_id_backup of the k-th WaitEvt()
  hasWaited,   \* hasWaited[k]: the task of level k used its one wait (bound)
  counter,     \* local of the top Run(): the priority level scanned
  clearing     \* local of the top WaitEvt(): EvtSet as loaded by "EvtSet &="

masks    == <<TaskSet, TaskMask, SuperMask>>
events   == <<EvtSet, EvtWaited>>
prio     == <<priority, round_robin>>
frames   == <<nest, body, backup, waitIdx, evtBackup, hasWaited>>
locals   == <<counter, clearing>>
vars     == <<masks, events, prio, frames, locals, CurrentTaskIdx, TaskCb, pc>>

Bit(t) == IF t = NoTask THEN {} ELSE {t}

(* Mutant: the position is off by one. *)
BitPositionOffByOne(s) == (CHOOSE t \in s : \A u \in s : u <= t) + 1

(* SEQ_BitPosition: the most significant bit set. *)
BitPosition(s) == CHOOSE t \in s : \A u \in s : u <= t

Schedulable == TaskSet \cap TaskMask \cap SuperMask

EvtPend == EvtSet \cap EvtWaited

InTask == pc = "task"

-----------------------------------------------------------------------------
(* UTIL_SEQ_Init(), or the static initialisers when it is not called. *)
Init ==
  /\ TaskSet = {} /\ TaskMask = Tasks /\ SuperMask = Tasks
  /\ EvtSet = {} /\ EvtWaited = {}
  /\ CurrentTaskIdx = 0
  /\ TaskCb = {}
  /\ priority = [p \in Prios |-> {}] /\ round_robin = [p \in Prios |-> {}]
  /\ pc = "boot" /\ nest = 0
  /\ body = [k \in Levels |-> NoTask]
  /\ backup = [k \in Levels |-> Tasks]
  /\ waitIdx = [k \in Levels |-> NoTask]
  /\ evtBackup = [k \in Levels |-> {}]
  /\ hasWaited = [k \in Levels |-> FALSE]
  /\ counter = 0 /\ clearing = {}

(* Mutant: the priority mask is assigned instead of or-ed. *)
SetTaskOverwrites(t, p) ==
  /\ TaskSet' = TaskSet \cup {t}
  /\ priority' = [priority EXCEPT ![p] = {t}]

(* The effect of UTIL_SEQ_SetTask(): one critical section. *)
SetTask(t, p) ==
  /\ TaskSet' = TaskSet \cup {t}
  /\ priority' = [priority EXCEPT ![p] = @ \cup {t}]

(* UTIL_SEQ_Run(mask) entered at level k; interrupts do not use SuperMask. *)
EnterRun(mask, k) ==
  /\ backup' = [backup EXCEPT ![k] = SuperMask]
  /\ SuperMask' = SuperMask \cap mask
  /\ pc' = "while"

(* Mutant: CurrentTaskIdx is not saved by WaitEvt(). *)
EnterWaitUnsaved(e) ==
  /\ nest < MaxNest
  /\ nest' = nest + 1
  /\ evtBackup' = [evtBackup EXCEPT ![nest + 1] = EvtWaited]
  /\ EvtWaited' = {e}
  /\ pc' = "wait"
  /\ UNCHANGED waitIdx

(* UTIL_SEQ_WaitEvt({e}) called by the code of level nest. *)
EnterWait(e) ==
  /\ nest < MaxNest
  /\ nest' = nest + 1
  /\ waitIdx' = [waitIdx EXCEPT ![nest + 1] = CurrentTaskIdx]
  /\ evtBackup' = [evtBackup EXCEPT ![nest + 1] = EvtWaited]
  /\ EvtWaited' = {e}
  /\ pc' = "wait"

-----------------------------------------------------------------------------
(* main(): registers its tasks, may wait for an event, then loops on Run. *)
RegTask(t) ==
  /\ pc = "boot" /\ t \notin TaskCb
  /\ TaskCb' = TaskCb \cup {t}
  /\ UNCHANGED <<masks, events, prio, frames, locals, CurrentTaskIdx, pc>>

BootWait(e) ==
  /\ pc = "boot" /\ StartupWait /\ TaskCb = Tasks
  /\ EnterWait(e)
  /\ UNCHANGED <<masks, EvtSet, prio, body, backup, hasWaited, locals,
                 CurrentTaskIdx, TaskCb>>

MainRun ==
  /\ pc \in {"boot", "main"} /\ TaskCb = Tasks
  /\ EnterRun(Tasks, 0)
  /\ UNCHANGED <<TaskSet, TaskMask, events, prio, nest, body, waitIdx,
                 evtBackup, hasWaited, locals, CurrentTaskIdx, TaskCb>>

(* UTIL_SEQ_Run(): the condition of the outer while. *)
RunWhile ==
  /\ pc = "while"
  /\ IF Schedulable # {} /\ EvtPend = {}
       THEN pc' = "scan" /\ UNCHANGED CurrentTaskIdx
       ELSE pc' = "idle" /\ CurrentTaskIdx' = NoTask
  /\ UNCHANGED <<masks, events, prio, frames, locals, TaskCb>>

ReadyAt(p) == priority[p] \cap TaskMask \cap SuperMask

(* The inner while: the first priority level with something to run. *)
RunScan ==
  /\ pc = "scan"
  /\ \E p \in Prios : /\ ReadyAt(p) # {}
                      /\ \A q \in Prios : q < p => ReadyAt(q) = {}
                      /\ counter' = p
  /\ pc' = "pick"
  /\ UNCHANGED <<masks, events, prio, frames, clearing, CurrentTaskIdx, TaskCb>>

(* Mutant: the round is re-initialised on every pick. *)
RoundRestarts(p) == Tasks

(* round_robin of a level after the re-initialisation of the round. *)
Round(p) == IF round_robin[p] \cap ReadyAt(p) = {} THEN Tasks ELSE round_robin[p]

RunPick ==
  /\ pc = "pick"
  /\ LET idx == BitPosition(ReadyAt(counter) \cap Round(counter))
     IN /\ CurrentTaskIdx' = idx
        /\ round_robin' = [round_robin EXCEPT ![counter] = Round(counter) \ {idx}]
  /\ pc' = "remove"
  /\ UNCHANGED <<masks, events, priority, frames, locals, TaskCb>>

(* The critical section of Run(), then the call of TaskCb[]. *)
RunRemove ==
  /\ pc = "remove"
  /\ TaskSet' = TaskSet \ {CurrentTaskIdx}
  /\ priority' = [p \in Prios |-> priority[p] \ {CurrentTaskIdx}]
  /\ body' = [body EXCEPT ![nest] = CurrentTaskIdx]
  /\ hasWaited' = [hasWaited EXCEPT ![nest] = FALSE]
  /\ pc' = "task"
  /\ UNCHANGED <<TaskMask, SuperMask, events, round_robin, nest, backup, waitIdx,
                 evtBackup, locals, CurrentTaskIdx, TaskCb>>

(* Mutants: SuperMask is left as it is, or opened completely. *)
ReturnKeepsMask ==
  /\ UNCHANGED SuperMask
  /\ pc' = IF nest = 0 THEN "main" ELSE "wait"

ReturnOpensMask ==
  /\ SuperMask' = Tasks
  /\ pc' = IF nest = 0 THEN "main" ELSE "wait"

(* Run() returns to its caller: main(), or the loop of the last WaitEvt(). *)
ReturnFromRun ==
  /\ SuperMask' = backup[nest]
  /\ pc' = IF nest = 0 THEN "main" ELSE "wait"

(* Mutant: the waited event is not tested again before sleeping. *)
RunIdleIgnoresEvents ==
  /\ pc = "idle"
  /\ IF Schedulable = {}
       THEN pc' = "wfi" /\ UNCHANGED SuperMask
       ELSE SuperMask' = backup[nest] /\ pc' = IF nest = 0 THEN "main" ELSE "wait"
  /\ UNCHANGED <<TaskSet, TaskMask, events, prio, frames, locals, CurrentTaskIdx,
                 TaskCb>>

(* Mutant: the tasks are not tested again before sleeping. *)
RunIdleIgnoresTasks ==
  /\ pc = "idle"
  /\ IF EvtPend = {}
       THEN pc' = "wfi" /\ UNCHANGED SuperMask
       ELSE SuperMask' = backup[nest] /\ pc' = IF nest = 0 THEN "main" ELSE "wait"
  /\ UNCHANGED <<TaskSet, TaskMask, events, prio, frames, locals, CurrentTaskIdx,
                 TaskCb>>

(* The idle critical section.  With nothing to do UTIL_SEQ_Idle() stops    *)
(* the CPU on WFI with interrupts masked; otherwise Run() returns.         *)
RunIdle ==
  /\ pc = "idle"
  /\ IF Schedulable = {} /\ EvtPend = {}
       THEN pc' = "wfi" /\ UNCHANGED SuperMask
       ELSE ReturnFromRun
  /\ UNCHANGED <<TaskSet, TaskMask, events, prio, frames, locals, CurrentTaskIdx,
                 TaskCb>>

(* A pending interrupt ends WFI; its handler runs after the unmasking. *)
WakeUp ==
  /\ pc = "wfi"
  /\ ReturnFromRun
  /\ UNCHANGED <<TaskSet, TaskMask, events, prio, frames, locals, CurrentTaskIdx,
                 TaskCb>>

-----------------------------------------------------------------------------
(* UTIL_SEQ_WaitEvt(): its loop, whose body is UTIL_SEQ_EvtIdle().         *)
WaitLoop ==
  /\ pc = "wait"
  /\ EvtPend = {}
  /\ EnterRun(Tasks \ Bit(waitIdx[nest]), nest)
  /\ UNCHANGED <<TaskSet, TaskMask, events, prio, nest, body, waitIdx, evtBackup,
                 hasWaited, locals, CurrentTaskIdx, TaskCb>>

(* The event came: restore CurrentTaskIdx and load EvtSet.  "EvtSet &="    *)
(* is outside any critical section, so its load and its store are steps.   *)
WaitLoadEvtSet ==
  /\ pc = "wait"
  /\ EvtPend # {}
  /\ CurrentTaskIdx' = waitIdx[nest]
  /\ clearing' = EvtSet
  /\ pc' = "store"
  /\ UNCHANGED <<masks, events, prio, frames, counter, TaskCb>>

WaitStoreEvtSet ==
  /\ pc = "store"
  /\ EvtSet' = clearing \ EvtWaited
  /\ EvtWaited' = evtBackup[nest]
  /\ clearing' = {}
  /\ nest' = nest - 1
  /\ pc' = IF nest = 1 /\ body[0] = NoTask THEN "boot" ELSE "task"
  /\ UNCHANGED <<masks, prio, body, backup, waitIdx, evtBackup, hasWaited,
                 counter, CurrentTaskIdx, TaskCb>>

-----------------------------------------------------------------------------
(* What the body of a task may do. *)
TaskSetsTask(t, p) ==
  /\ InTask
  /\ SetTask(t, p)
  /\ UNCHANGED <<TaskMask, SuperMask, events, round_robin, frames, locals,
                 CurrentTaskIdx, TaskCb, pc>>

TaskPauses(t) ==
  /\ InTask /\ Pauses
  /\ TaskMask' = TaskMask \ {t}
  /\ UNCHANGED <<TaskSet, SuperMask, events, prio, frames, locals,
                 CurrentTaskIdx, TaskCb, pc>>

TaskResumes(t) ==
  /\ InTask /\ Pauses
  /\ TaskMask' = TaskMask \cup {t}
  /\ UNCHANGED <<TaskSet, SuperMask, events, prio, frames, locals,
                 CurrentTaskIdx, TaskCb, pc>>

TaskClearsEvt(e) ==
  /\ InTask
  /\ EvtSet' = EvtSet \ {e}
  /\ UNCHANGED <<masks, EvtWaited, prio, frames, locals, CurrentTaskIdx, TaskCb, pc>>

TaskSetsEvt(e) ==
  /\ InTask
  /\ EvtSet' = EvtSet \cup {e}
  /\ UNCHANGED <<masks, EvtWaited, prio, frames, locals, CurrentTaskIdx, TaskCb, pc>>

TaskWaits(e) ==
  /\ InTask /\ ~hasWaited[nest]
  /\ EnterWait(e)
  /\ hasWaited' = [hasWaited EXCEPT ![nest] = TRUE]
  /\ UNCHANGED <<masks, EvtSet, prio, body, backup, locals, CurrentTaskIdx, TaskCb>>

TaskReturns ==
  /\ InTask
  /\ body' = [body EXCEPT ![nest] = NoTask]
  /\ pc' = "while"
  /\ UNCHANGED <<masks, events, prio, nest, backup, waitIdx, evtBackup, hasWaited,
                 locals, CurrentTaskIdx, TaskCb>>

-----------------------------------------------------------------------------
(* Interrupt handlers: timer callbacks, radio and button interrupts.  They *)
(* are masked while the CPU sleeps inside the idle critical section.       *)
IsrSetTask(t, p) ==
  /\ pc # "wfi"
  /\ SetTask(t, p)
  /\ UNCHANGED <<TaskMask, SuperMask, events, round_robin, frames, locals,
                 CurrentTaskIdx, TaskCb, pc>>

IsrSetEvt(e) ==
  /\ pc # "wfi"
  /\ EvtSet' = EvtSet \cup {e}
  /\ UNCHANGED <<masks, EvtWaited, prio, frames, locals, CurrentTaskIdx, TaskCb, pc>>

-----------------------------------------------------------------------------
Run == RunWhile \/ RunScan \/ RunPick \/ RunRemove \/ RunIdle

WaitEvt == WaitLoop \/ WaitLoadEvtSet \/ WaitStoreEvtSet

Main == (\E t \in Tasks : RegTask(t)) \/ (\E e \in Evts : BootWait(e)) \/ MainRun

TaskBody ==
  \/ \E t \in Tasks, p \in Prios : TaskSetsTask(t, p)
  \/ \E t \in Tasks : TaskPauses(t) \/ TaskResumes(t)
  \/ \E e \in Evts : TaskClearsEvt(e) \/ TaskSetsEvt(e) \/ TaskWaits(e)
  \/ TaskReturns

Isr ==
  \/ \E t \in Tasks, p \in Prios : IsrSetTask(t, p)
  \/ \E e \in Evts : IsrSetEvt(e)

Next == Main \/ Run \/ WakeUp \/ WaitEvt \/ TaskBody \/ Isr

Spec == Init /\ [][Next]_vars

(* The CPU does not stop, and every task body ends or waits.               *)
Fairness ==
  /\ WF_vars(Main \/ Run \/ WaitEvt)
  /\ WF_vars(TaskReturns)

FairSpec == Spec /\ Fairness

-----------------------------------------------------------------------------
TypeOK ==
  /\ TaskSet \subseteq Tasks /\ TaskMask \subseteq Tasks
  /\ SuperMask \subseteq Tasks /\ TaskCb \subseteq Tasks
  /\ EvtSet \subseteq Evts /\ EvtWaited \subseteq Evts /\ clearing \subseteq Evts
  /\ CurrentTaskIdx \in Tasks \cup {NoTask}
  /\ priority \in [Prios -> SUBSET Tasks]
  /\ round_robin \in [Prios -> SUBSET Tasks]
  /\ pc \in {"boot", "main", "while", "scan", "pick", "remove", "task", "idle",
             "wfi", "wait", "store"}
  /\ nest \in Levels
  /\ body \in [Levels -> Tasks \cup {NoTask}]
  /\ backup \in [Levels -> SUBSET Tasks]
  /\ waitIdx \in [Levels -> Tasks \cup {NoTask}]
  /\ evtBackup \in [Levels -> SUBSET Evts]
  /\ hasWaited \in [Levels -> BOOLEAN]
  /\ counter \in Prios

(* The inner while of UTIL_SEQ_Run() has no bound on counter: it relies on *)
(* a task of TaskSet being in some priority mask, however interrupts and   *)
(* nested calls interleave.  Otherwise it reads past TaskPrio[].           *)
ScanInBounds ==
  /\ pc = "scan" => \E p \in Prios : ReadyAt(p) # {}
  /\ pc = "pick" => ReadyAt(counter) # {}

(* A task that waits for an event is on the stack: the Run() nested in its *)
(* WaitEvt() must not call it again, at any nesting depth.                 *)
NoReentry ==
  \A j, k \in 0 .. nest : j # k /\ body[j] # NoTask => body[j] # body[k]

(* What WaitEvt() passes to EvtIdle() is the task that really waits: the   *)
(* only tasks kept out of a nested Run() are those suspended on the stack. *)
OnlyWaitersMasked ==
  \A t \in Tasks \ SuperMask : \E k \in 0 .. nest : body[k] = t

(* While a task body runs, CurrentTaskIdx names it, also after its         *)
(* WaitEvt() ran other tasks: a second WaitEvt() masks the right task.     *)
CurrentIsRunning == InTask => CurrentTaskIdx = body[nest]

-----------------------------------------------------------------------------
(* The inductive invariant behind the four properties above.               *)
InRun == pc \in {"while", "scan", "pick", "remove", "task", "idle", "wfi"}

(* The tasks suspended by the first k WaitEvt() calls of the stack.        *)
Waiters(k) == {waitIdx[j] : j \in 1 .. k} \ {NoTask}

(* Which levels of the stack have a task, and which task WaitEvt() saved.  *)
StackInv ==
  /\ pc \in {"wait", "store"} => nest > 0
  /\ pc \in {"boot", "main"} => nest = 0
  /\ InTask => body[nest] # NoTask /\ CurrentTaskIdx = body[nest]
  /\ pc = "store" => CurrentTaskIdx = waitIdx[nest]
  /\ \A k \in Levels : (k > nest \/ (k = nest /\ ~InTask)) => body[k] = NoTask
  /\ \A k \in 1 .. nest - 1 : body[k] # NoTask
  /\ \A k \in 1 .. nest : body[k - 1] # NoTask => waitIdx[k] = body[k - 1]
  /\ ~StartupWait /\ nest > 0 => body[0] # NoTask

(* SuperMask excludes the waiters below the running level, and each saved  *)
(* mask those below the level that saved it.                               *)
MaskInv ==
  /\ backup[0] = Tasks
  /\ \A k \in 1 .. nest : k < nest \/ InRun => backup[k] = Tasks \ Waiters(k - 1)
  /\ SuperMask = Tasks \ Waiters(IF InRun THEN nest ELSE nest - 1)

(* Every requested task is in a priority mask; Run() acts on what it found.*)
ScanInv ==
  /\ TaskSet \subseteq UNION {priority[p] : p \in Prios}
  /\ pc = "scan" => Schedulable # {}
  /\ pc = "pick" => ReadyAt(counter) # {}
  /\ pc = "remove" => CurrentTaskIdx \in SuperMask

IInv == TypeOK /\ StackInv /\ MaskInv /\ ScanInv /\ NoReentry

(* Leaving a WaitEvt() consumes the events it waited for and no other      *)
(* event, so that an outer WaitEvt() finds its own.                        *)
WaitKeepsOtherEvents ==
  [][nest' < nest => EvtSet \ EvtSet' \subseteq EvtWaited]_vars

(* With a single priority every requested task that is not paused is       *)
(* executed, or is itself waiting for an event: round robin starves none,  *)
(* and a request made by an interrupt just before UTIL_SEQ_Idle() does not *)
(* stay behind while the CPU sleeps.                                       *)
RequestedTaskRuns ==
  \A t \in Tasks :
    t \in TaskSet ~> (t \notin TaskSet \/ \E k \in Levels : body[k] = t)

(* An event set by an interrupt ends the innermost WaitEvt() for it, even  *)
(* when it comes between the last test of Run() and the CPU's sleep.       *)
EventEndsWait ==
  \A k \in Levels : (nest = k /\ EvtPend # {}) ~> (nest # k \/ EvtPend = {})
=============================================================================
