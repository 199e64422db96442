-------------------------- MODULE SequencerProofs --------------------------
(***************************************************************************)
(* The safety of the task sequencer for every number of tasks, priorities, *)
(* events and nested WaitEvt() calls, and the fairness of its round robin. *)
(***************************************************************************)
EXTENDS MCSequencer, WellFoundedInduction, TLAPS

Less == {ss \in Nat \X Nat : ss[1] < ss[2]}

(* A set of bits that is not empty has a most significant bit.             *)
LEMMA BitPositionInSet ==
  ASSUME NEW s, s \subseteq Tasks, s # {}
  PROVE  BitPosition(s) \in s
<1>. DEFINE gaps == {n \in Nat : \E t \in s : n = NTask - 1 - t}
<1>1. PICK t0 \in s : TRUE  OBVIOUS
<1>2. NTask - 1 - t0 \in gaps  BY SequencerAssumption DEF Tasks
<1>3. PICK g \in gaps : \A h \in gaps : g <= h
  <2>0. gaps \subseteq Nat  OBVIOUS
  <2>. HIDE DEF gaps
  <2>1. IsWellFoundedOn(Less, Nat)  BY NatLessThanWellFounded, Zenon DEF Less, OpToRel
  <2>2. PICK g \in gaps : \A h \in gaps : ~ (<<h, g>> \in Less)
    BY <1>2, <2>0, <2>1, WFMin
  <2>3. ASSUME NEW h \in gaps  PROVE g <= h
    <3>1. g \in Nat /\ h \in Nat  BY <2>0, <2>2
    <3>2. <<h, g>> \in Nat \X Nat /\ <<h, g>>[1] = h /\ <<h, g>>[2] = g  BY <3>1
    <3>3. ~ (h < g)  BY <2>2, <3>2 DEF Less
    <3>. QED BY <3>1, <3>3
  <2>. QED BY <2>2, <2>3
<1>4. PICK t \in s : g = NTask - 1 - t  OBVIOUS
<1>5. \A u \in s : u <= t
  <2>. TAKE u \in s
  <2>1. NTask - 1 - u \in gaps  BY SequencerAssumption DEF Tasks
  <2>. QED BY <1>3, <1>4, <2>1, SequencerAssumption DEF Tasks
<1>. QED BY <1>5 DEF BitPosition

(* Type correctness needs of the rest of the invariant only that Run()     *)
(* finds a task in the priority level it picks from, and that only a       *)
(* WaitEvt() returns.                                                      *)
LEMMA TypeStep ==
  ASSUME TypeOK, StackInv, ScanInv, [Next]_vars
  PROVE  TypeOK'
<1>. DEFINE Goal == TypeOK
<1>. USE SequencerAssumption DEF masks, events, prio, frames, locals, InTask, TypeOK, Tasks, Prios, Levels, NoTask
<1>1. ASSUME NEW t \in Tasks, RegTask(t)  PROVE Goal'
  BY <1>1 DEF RegTask
<1>2. ASSUME NEW e \in Evts, BootWait(e)  PROVE Goal'
  BY <1>2 DEF BootWait, EnterWait
<1>3. ASSUME MainRun  PROVE Goal'
  BY <1>3 DEF MainRun, EnterRun
<1>4. ASSUME RunWhile  PROVE Goal'
  BY <1>4 DEF RunWhile
<1>5. ASSUME RunScan  PROVE Goal'
  BY <1>5 DEF RunScan
<1>6. ASSUME RunPick  PROVE Goal'
  <2>. DEFINE s == ReadyAt(counter) \cap Round(counter)
  <2>1. s \subseteq Tasks /\ s # {}
    BY <1>6 DEF RunPick, ScanInv, ReadyAt, Round
  <2>2. BitPosition(s) \in Tasks  BY <2>1, BitPositionInSet
  <2>3. Round(counter) \subseteq Tasks  BY DEF Round
  <2>. HIDE DEF s
  <2>. QED BY <1>6, <2>2, <2>3 DEF RunPick, s
<1>7. ASSUME RunRemove  PROVE Goal'
  BY <1>7 DEF RunRemove
<1>8. ASSUME RunIdle  PROVE Goal'
  BY <1>8 DEF RunIdle, ReturnFromRun
<1>9. ASSUME WakeUp  PROVE Goal'
  BY <1>9 DEF WakeUp, ReturnFromRun
<1>10. ASSUME WaitLoop  PROVE Goal'
  BY <1>10 DEF WaitLoop, EnterRun, Bit
<1>11. ASSUME WaitLoadEvtSet  PROVE Goal'
  BY <1>11 DEF WaitLoadEvtSet
<1>12. ASSUME WaitStoreEvtSet  PROVE Goal'
  BY <1>12 DEF WaitStoreEvtSet, StackInv
<1>13. ASSUME NEW t \in Tasks, NEW p \in Prios, TaskSetsTask(t, p)  PROVE Goal'
  BY <1>13 DEF TaskSetsTask, SetTask
<1>14. ASSUME NEW t \in Tasks, TaskPauses(t)  PROVE Goal'
  BY <1>14 DEF TaskPauses
<1>15. ASSUME NEW t \in Tasks, TaskResumes(t)  PROVE Goal'
  BY <1>15 DEF TaskResumes
<1>16. ASSUME NEW e \in Evts, TaskClearsEvt(e)  PROVE Goal'
  BY <1>16 DEF TaskClearsEvt
<1>17. ASSUME NEW e \in Evts, TaskSetsEvt(e)  PROVE Goal'
  BY <1>17 DEF TaskSetsEvt
<1>18. ASSUME NEW e \in Evts, TaskWaits(e)  PROVE Goal'
  BY <1>18 DEF TaskWaits, EnterWait
<1>19. ASSUME TaskReturns  PROVE Goal'
  BY <1>19 DEF TaskReturns
<1>20. ASSUME NEW t \in Tasks, NEW p \in Prios, IsrSetTask(t, p)  PROVE Goal'
  BY <1>20 DEF IsrSetTask, SetTask
<1>21. ASSUME NEW e \in Evts, IsrSetEvt(e)  PROVE Goal'
  BY <1>21 DEF IsrSetEvt
<1>22. CASE UNCHANGED vars
  BY <1>22 DEF vars, masks, events, prio, frames, locals
<1>. QED
  BY <1>1, <1>2, <1>3, <1>4, <1>5, <1>6, <1>7, <1>8, <1>9, <1>10, <1>11, <1>12, <1>13, <1>14, <1>15, <1>16, <1>17, <1>18, <1>19, <1>20, <1>21, <1>22
  DEF Next, Main, Run, WaitEvt, TaskBody, Isr
(* The stack part: which levels have a task, and what WaitEvt() saved.     *)
LEMMA StackStep ==
  ASSUME TypeOK, StackInv, ScanInv, [Next]_vars
  PROVE  StackInv'
<1>. USE SequencerAssumption DEF masks, events, prio, frames, locals, InTask, TypeOK,
         StackInv, Tasks, Levels, NoTask
<1>1. ASSUME NEW t \in Tasks, RegTask(t)  PROVE StackInv'
  BY <1>1 DEF RegTask
<1>2. ASSUME NEW e \in Evts, BootWait(e)  PROVE StackInv'
  BY <1>2 DEF BootWait, EnterWait
<1>3. ASSUME MainRun  PROVE StackInv'
  BY <1>3 DEF MainRun, EnterRun
<1>4. ASSUME RunWhile  PROVE StackInv'
  BY <1>4 DEF RunWhile
<1>5. ASSUME RunScan  PROVE StackInv'
  BY <1>5 DEF RunScan
<1>6. ASSUME RunPick  PROVE StackInv'
  BY <1>6 DEF RunPick
<1>7. ASSUME RunRemove  PROVE StackInv'
  BY <1>7 DEF RunRemove, ScanInv
<1>8. ASSUME RunIdle  PROVE StackInv'
  BY <1>8 DEF RunIdle, ReturnFromRun
<1>9. ASSUME WakeUp  PROVE StackInv'
  BY <1>9 DEF WakeUp, ReturnFromRun
<1>10. ASSUME WaitLoop  PROVE StackInv'
  BY <1>10 DEF WaitLoop, EnterRun, Bit
<1>11. ASSUME WaitLoadEvtSet  PROVE StackInv'
  BY <1>11 DEF WaitLoadEvtSet
<1>12. ASSUME WaitStoreEvtSet  PROVE StackInv'
  <2>1. /\ nest > 0 /\ nest \in Levels /\ nest' = nest - 1 /\ body' = body
        /\ waitIdx' = waitIdx /\ CurrentTaskIdx = waitIdx[nest]
        /\ CurrentTaskIdx' = CurrentTaskIdx
    BY <1>12 DEF WaitStoreEvtSet
  <2>2. body[nest] = NoTask  BY <1>12, <2>1 DEF WaitStoreEvtSet
  <2>3. nest - 1 > 0 => nest - 1 \in 1 .. nest /\ body[nest - 1] # NoTask  BY <2>1
  <2>4. body[nest - 1] # NoTask => waitIdx[nest] = body[nest - 1]  BY <2>1
  <2>5. CASE body[nest - 1] = NoTask
    <3>1. nest = 1 /\ pc' = "boot"  BY <1>12, <2>1, <2>3, <2>5 DEF WaitStoreEvtSet
    <3>. QED BY <2>1, <2>2, <2>5, <3>1
  <2>6. CASE body[nest - 1] # NoTask
    <3>1. pc' = "task"  BY <1>12, <2>1, <2>6 DEF WaitStoreEvtSet
    <3>. QED BY <2>1, <2>2, <2>4, <2>6, <3>1
  <2>. QED BY <2>5, <2>6
<1>13. ASSUME NEW t \in Tasks, NEW p \in Prios, TaskSetsTask(t, p)  PROVE StackInv'
  BY <1>13 DEF TaskSetsTask, SetTask
<1>14. ASSUME NEW t \in Tasks, TaskPauses(t)  PROVE StackInv'
  BY <1>14 DEF TaskPauses
<1>15. ASSUME NEW t \in Tasks, TaskResumes(t)  PROVE StackInv'
  BY <1>15 DEF TaskResumes
<1>16. ASSUME NEW e \in Evts, TaskClearsEvt(e)  PROVE StackInv'
  BY <1>16 DEF TaskClearsEvt
<1>17. ASSUME NEW e \in Evts, TaskSetsEvt(e)  PROVE StackInv'
  BY <1>17 DEF TaskSetsEvt
<1>18. ASSUME NEW e \in Evts, TaskWaits(e)  PROVE StackInv'
  <2>1. /\ nest \in Levels /\ nest < MaxNest /\ nest' = nest + 1 /\ pc' = "wait"
        /\ body' = body /\ CurrentTaskIdx = body[nest] /\ body[nest] # NoTask
        /\ waitIdx' = [waitIdx EXCEPT ![nest + 1] = CurrentTaskIdx]
    BY <1>18 DEF TaskWaits, EnterWait
  <2>2. \A k \in Levels : k > nest => body[k] = NoTask  OBVIOUS
  <2>3. \A k \in 1 .. nest' - 1 : body[k] # NoTask  BY <2>1
  <2>4. ASSUME NEW k \in 1 .. nest', body[k - 1] # NoTask
        PROVE  waitIdx'[k] = body[k - 1]
    <3>1. CASE k = nest + 1  BY <2>1, <3>1
    <3>2. CASE k # nest + 1
      <4>1. k \in 1 .. nest  BY <2>1, <3>2
      <4>. QED BY <2>1, <2>4, <4>1
    <3>. QED BY <3>1, <3>2
  <2>5. ~StartupWait => body[0] # NoTask  BY <2>1
  <2>. QED BY <2>1, <2>2, <2>3, <2>4, <2>5
<1>19. ASSUME TaskReturns  PROVE StackInv'
  BY <1>19 DEF TaskReturns
<1>20. ASSUME NEW t \in Tasks, NEW p \in Prios, IsrSetTask(t, p)  PROVE StackInv'
  BY <1>20 DEF IsrSetTask, SetTask
<1>21. ASSUME NEW e \in Evts, IsrSetEvt(e)  PROVE StackInv'
  BY <1>21 DEF IsrSetEvt
<1>22. CASE UNCHANGED vars
  BY <1>22 DEF vars
<1>. QED
  BY <1>1, <1>2, <1>3, <1>4, <1>5, <1>6, <1>7, <1>8, <1>9, <1>10, <1>11, <1>12, <1>13, <1>14, <1>15, <1>16, <1>17, <1>18, <1>19, <1>20, <1>21, <1>22
  DEF Next, Main, Run, WaitEvt, TaskBody, Isr

(* The waiters of a level are those of the level below and one task more.  *)
LEMMA WaitersOfNextLevel ==
  ASSUME NEW k \in Nat \ {0}
  PROVE  Waiters(k) = Waiters(k - 1) \cup Bit(waitIdx[k])
<1>1. 1 .. k = (1 .. (k - 1)) \cup {k}  OBVIOUS
<1>. QED BY <1>1 DEF Waiters, Bit


(* The mask part: SuperMask and its backups exclude exactly the waiters.   *)
LEMMA MaskStep ==
  ASSUME TypeOK, StackInv, MaskInv, [Next]_vars
  PROVE  MaskInv'
<1>. USE SequencerAssumption DEF masks, events, prio, frames, locals, InTask, InRun,
         TypeOK, StackInv, MaskInv, Tasks, Levels, NoTask
<1>w. waitIdx' = waitIdx => \A k \in Int : Waiters(k)' = Waiters(k)
  BY DEF Waiters
<1>1. ASSUME NEW t \in Tasks, RegTask(t)  PROVE MaskInv'
  BY <1>1, <1>w DEF RegTask
<1>2. ASSUME NEW e \in Evts, BootWait(e)  PROVE MaskInv'
  <2>1. \A j \in 1 .. nest : waitIdx'[j] = waitIdx[j]
    BY <1>2 DEF BootWait, EnterWait
  <2>2. \A k \in Int : k <= nest => Waiters(k)' = Waiters(k)
    BY <2>1 DEF Waiters
  <2>3. Waiters(0) = {} /\ Waiters(-1) = {}  BY DEF Waiters
  <2>4. /\ nest \in Levels /\ nest' = nest + 1 /\ pc' = "wait"
        /\ backup' = backup /\ SuperMask' = SuperMask
    BY <1>2 DEF BootWait, EnterWait
  <2>5. SuperMask = Tasks \ Waiters(nest)  BY <1>2, <2>3 DEF BootWait
  <2>6. \A k \in 1 .. nest : backup[k] = Tasks \ Waiters(k - 1)
    BY <1>2 DEF BootWait
  <2>. QED BY <2>2, <2>4, <2>5, <2>6
<1>3. ASSUME MainRun  PROVE MaskInv'
  <2>1. Waiters(0) = {} /\ Waiters(-1) = {}  BY DEF Waiters
  <2>. QED BY <1>3, <1>w, <2>1 DEF MainRun, EnterRun
<1>4. ASSUME RunWhile  PROVE MaskInv'
  BY <1>4, <1>w DEF RunWhile
<1>5. ASSUME RunScan  PROVE MaskInv'
  BY <1>5, <1>w DEF RunScan
<1>6. ASSUME RunPick  PROVE MaskInv'
  BY <1>6, <1>w DEF RunPick
<1>7. ASSUME RunRemove  PROVE MaskInv'
  BY <1>7, <1>w DEF RunRemove
<1>8. ASSUME RunIdle  PROVE MaskInv'
  <2>1. Waiters(-1) = {}  BY DEF Waiters
  <2>. QED BY <1>8, <1>w, <2>1 DEF RunIdle, ReturnFromRun
<1>9. ASSUME WakeUp  PROVE MaskInv'
  <2>1. Waiters(-1) = {}  BY DEF Waiters
  <2>. QED BY <1>9, <1>w, <2>1 DEF WakeUp, ReturnFromRun
<1>10. ASSUME WaitLoop  PROVE MaskInv'
  <2>1. nest > 0  BY <1>10 DEF WaitLoop
  <2>2. Waiters(nest) = Waiters(nest - 1) \cup Bit(waitIdx[nest])
    BY <2>1, WaitersOfNextLevel
  <2>. QED BY <1>10, <1>w, <2>1, <2>2 DEF WaitLoop, EnterRun
<1>11. ASSUME WaitLoadEvtSet  PROVE MaskInv'
  BY <1>11, <1>w DEF WaitLoadEvtSet
<1>12. ASSUME WaitStoreEvtSet  PROVE MaskInv'
  <2>1. /\ nest \in Levels /\ nest > 0 /\ nest' = nest - 1 /\ waitIdx' = waitIdx
        /\ backup' = backup /\ SuperMask' = SuperMask
        /\ pc = "store" /\ pc' \in {"boot", "task"}
        /\ pc' = "boot" => nest = 1
    BY <1>12 DEF WaitStoreEvtSet
  <2>2. Waiters(0) = {} /\ Waiters(-1) = {}  BY DEF Waiters
  <2>3. SuperMask = Tasks \ Waiters(nest - 1)  BY <2>1
  <2>4. \A k \in 1 .. nest' : backup[k] = Tasks \ Waiters(k - 1)  BY <2>1
  <2>. QED BY <1>w, <2>1, <2>2, <2>3, <2>4
<1>13. ASSUME NEW t \in Tasks, NEW p \in Prios, TaskSetsTask(t, p)  PROVE MaskInv'
  BY <1>13, <1>w DEF TaskSetsTask, SetTask
<1>14. ASSUME NEW t \in Tasks, TaskPauses(t)  PROVE MaskInv'
  BY <1>14, <1>w DEF TaskPauses
<1>15. ASSUME NEW t \in Tasks, TaskResumes(t)  PROVE MaskInv'
  BY <1>15, <1>w DEF TaskResumes
<1>16. ASSUME NEW e \in Evts, TaskClearsEvt(e)  PROVE MaskInv'
  BY <1>16, <1>w DEF TaskClearsEvt
<1>17. ASSUME NEW e \in Evts, TaskSetsEvt(e)  PROVE MaskInv'
  BY <1>17, <1>w DEF TaskSetsEvt
<1>18. ASSUME NEW e \in Evts, TaskWaits(e)  PROVE MaskInv'
  <2>1. \A j \in 1 .. nest : waitIdx'[j] = waitIdx[j]
    BY <1>18 DEF TaskWaits, EnterWait
  <2>2. \A k \in Int : k <= nest => Waiters(k)' = Waiters(k)
    BY <2>1 DEF Waiters
  <2>3. Waiters(0) = {} /\ Waiters(-1) = {}  BY DEF Waiters
  <2>4. /\ nest \in Levels /\ nest' = nest + 1 /\ pc' = "wait"
        /\ backup' = backup /\ SuperMask' = SuperMask
    BY <1>18 DEF TaskWaits, EnterWait
  <2>5. SuperMask = Tasks \ Waiters(nest)  BY <1>18, <2>3 DEF TaskWaits
  <2>6. \A k \in 1 .. nest : backup[k] = Tasks \ Waiters(k - 1)
    BY <1>18 DEF TaskWaits
  <2>. QED BY <2>2, <2>4, <2>5, <2>6
<1>19. ASSUME TaskReturns  PROVE MaskInv'
  BY <1>19, <1>w DEF TaskReturns
<1>20. ASSUME NEW t \in Tasks, NEW p \in Prios, IsrSetTask(t, p)  PROVE MaskInv'
  BY <1>20, <1>w DEF IsrSetTask, SetTask
<1>21. ASSUME NEW e \in Evts, IsrSetEvt(e)  PROVE MaskInv'
  BY <1>21, <1>w DEF IsrSetEvt
<1>22. CASE UNCHANGED vars
  BY <1>22, <1>w DEF vars
<1>. QED
  BY <1>1, <1>2, <1>3, <1>4, <1>5, <1>6, <1>7, <1>8, <1>9, <1>10, <1>11, <1>12, <1>13, <1>14, <1>15, <1>16, <1>17, <1>18, <1>19, <1>20, <1>21, <1>22
  DEF Next, Main, Run, WaitEvt, TaskBody, Isr

(* The scan part: what Run() read stays true until it acts on it.          *)
LEMMA ScanStep ==
  ASSUME TypeOK, ScanInv, [Next]_vars
  PROVE  ScanInv'
<1>. USE SequencerAssumption DEF masks, events, prio, frames, locals, InTask, TypeOK,
         ScanInv, Prios, Levels, NoTask, Schedulable, ReadyAt
<1>1. ASSUME NEW t \in Tasks, RegTask(t)  PROVE ScanInv'
  BY <1>1 DEF RegTask
<1>2. ASSUME NEW e \in Evts, BootWait(e)  PROVE ScanInv'
  BY <1>2 DEF BootWait, EnterWait
<1>3. ASSUME MainRun  PROVE ScanInv'
  BY <1>3 DEF MainRun, EnterRun
<1>4. ASSUME RunWhile  PROVE ScanInv'
  BY <1>4 DEF RunWhile
<1>5. ASSUME RunScan  PROVE ScanInv'
  BY <1>5 DEF RunScan
<1>6. ASSUME RunPick  PROVE ScanInv'
  <2>. DEFINE s == ReadyAt(counter) \cap Round(counter)
  <2>1. s \subseteq Tasks /\ s # {}
    BY <1>6 DEF RunPick, Round
  <2>2. BitPosition(s) \in s  BY <2>1, BitPositionInSet
  <2>3. BitPosition(s) \in SuperMask  BY <2>2
  <2>. HIDE DEF s
  <2>. QED BY <1>6, <2>3 DEF RunPick, s
<1>7. ASSUME RunRemove  PROVE ScanInv'
  BY <1>7 DEF RunRemove
<1>8. ASSUME RunIdle  PROVE ScanInv'
  BY <1>8 DEF RunIdle, ReturnFromRun
<1>9. ASSUME WakeUp  PROVE ScanInv'
  BY <1>9 DEF WakeUp, ReturnFromRun
<1>10. ASSUME WaitLoop  PROVE ScanInv'
  BY <1>10 DEF WaitLoop, EnterRun, Bit
<1>11. ASSUME WaitLoadEvtSet  PROVE ScanInv'
  BY <1>11 DEF WaitLoadEvtSet
<1>12. ASSUME WaitStoreEvtSet  PROVE ScanInv'
  BY <1>12 DEF WaitStoreEvtSet
<1>13. ASSUME NEW t \in Tasks, NEW p \in Prios, TaskSetsTask(t, p)  PROVE ScanInv'
  BY <1>13 DEF TaskSetsTask, SetTask
<1>14. ASSUME NEW t \in Tasks, TaskPauses(t)  PROVE ScanInv'
  BY <1>14 DEF TaskPauses
<1>15. ASSUME NEW t \in Tasks, TaskResumes(t)  PROVE ScanInv'
  BY <1>15 DEF TaskResumes
<1>16. ASSUME NEW e \in Evts, TaskClearsEvt(e)  PROVE ScanInv'
  BY <1>16 DEF TaskClearsEvt
<1>17. ASSUME NEW e \in Evts, TaskSetsEvt(e)  PROVE ScanInv'
  BY <1>17 DEF TaskSetsEvt
<1>18. ASSUME NEW e \in Evts, TaskWaits(e)  PROVE ScanInv'
  BY <1>18 DEF TaskWaits, EnterWait
<1>19. ASSUME TaskReturns  PROVE ScanInv'
  BY <1>19 DEF TaskReturns
<1>20. ASSUME NEW t \in Tasks, NEW p \in Prios, IsrSetTask(t, p)  PROVE ScanInv'
  BY <1>20 DEF IsrSetTask, SetTask
<1>21. ASSUME NEW e \in Evts, IsrSetEvt(e)  PROVE ScanInv'
  BY <1>21 DEF IsrSetEvt
<1>22. CASE UNCHANGED vars
  BY <1>22 DEF vars
<1>. QED
  BY <1>1, <1>2, <1>3, <1>4, <1>5, <1>6, <1>7, <1>8, <1>9, <1>10, <1>11, <1>12, <1>13, <1>14, <1>15, <1>16, <1>17, <1>18, <1>19, <1>20, <1>21, <1>22
  DEF Next, Main, Run, WaitEvt, TaskBody, Isr

(* A task that Run() removes from TaskSet is not on the stack, because the *)
(* mask of the level excludes every suspended task.                        *)
LEMMA ReentryStep ==
  ASSUME TypeOK, StackInv, MaskInv, ScanInv, NoReentry, [Next]_vars
  PROVE  NoReentry'
<1>. USE SequencerAssumption DEF masks, events, prio, frames, locals, InTask, TypeOK,
         NoReentry, Tasks, Levels, NoTask
<1>1. ASSUME NEW t \in Tasks, RegTask(t)  PROVE NoReentry'
  BY <1>1 DEF RegTask
<1>2. ASSUME NEW e \in Evts, BootWait(e)  PROVE NoReentry'
  <2>1. nest' = nest + 1 /\ nest < MaxNest /\ body' = body
    BY <1>2 DEF BootWait, EnterWait
  <2>2. body[nest + 1] = NoTask  BY <2>1 DEF StackInv
  <2>. QED BY <2>1, <2>2
<1>3. ASSUME MainRun  PROVE NoReentry'
  BY <1>3 DEF MainRun, EnterRun
<1>4. ASSUME RunWhile  PROVE NoReentry'
  BY <1>4 DEF RunWhile
<1>5. ASSUME RunScan  PROVE NoReentry'
  BY <1>5 DEF RunScan
<1>6. ASSUME RunPick  PROVE NoReentry'
  BY <1>6 DEF RunPick
<1>7. ASSUME RunRemove  PROVE NoReentry'
  <2>1. body' = [body EXCEPT ![nest] = CurrentTaskIdx] /\ nest' = nest
    BY <1>7 DEF RunRemove
  <2>2. CurrentTaskIdx \in Tasks \ Waiters(nest)
    BY <1>7 DEF RunRemove, ScanInv, MaskInv, InRun
  <2>3. ASSUME NEW j \in 0 .. nest - 1, body[j] # NoTask
        PROVE  body[j] \in Waiters(nest)
    <3>1. j + 1 \in 1 .. nest /\ waitIdx[j + 1] = body[j]
      <4>1. j + 1 \in 1 .. nest /\ (j + 1) - 1 = j  BY <2>3
      <4>. QED BY <2>3, <4>1 DEF StackInv
    <3>. QED BY <2>3, <3>1 DEF Waiters
  <2>4. \A j \in 0 .. nest - 1 : body[j] # CurrentTaskIdx
    BY <2>2, <2>3
  <2>. QED BY <2>1, <2>2, <2>4
<1>8. ASSUME RunIdle  PROVE NoReentry'
  BY <1>8 DEF RunIdle, ReturnFromRun
<1>9. ASSUME WakeUp  PROVE NoReentry'
  BY <1>9 DEF WakeUp, ReturnFromRun
<1>10. ASSUME WaitLoop  PROVE NoReentry'
  BY <1>10 DEF WaitLoop, EnterRun, Bit
<1>11. ASSUME WaitLoadEvtSet  PROVE NoReentry'
  BY <1>11 DEF WaitLoadEvtSet
<1>12. ASSUME WaitStoreEvtSet  PROVE NoReentry'
  <2>1. nest' = nest - 1 /\ body' = body  BY <1>12 DEF WaitStoreEvtSet
  <2>2. 0 .. nest' \subseteq 0 .. nest  BY <2>1
  <2>. QED BY <2>1, <2>2
<1>13. ASSUME NEW t \in Tasks, NEW p \in Prios, TaskSetsTask(t, p)  PROVE NoReentry'
  BY <1>13 DEF TaskSetsTask, SetTask
<1>14. ASSUME NEW t \in Tasks, TaskPauses(t)  PROVE NoReentry'
  BY <1>14 DEF TaskPauses
<1>15. ASSUME NEW t \in Tasks, TaskResumes(t)  PROVE NoReentry'
  BY <1>15 DEF TaskResumes
<1>16. ASSUME NEW e \in Evts, TaskClearsEvt(e)  PROVE NoReentry'
  BY <1>16 DEF TaskClearsEvt
<1>17. ASSUME NEW e \in Evts, TaskSetsEvt(e)  PROVE NoReentry'
  BY <1>17 DEF TaskSetsEvt
<1>18. ASSUME NEW e \in Evts, TaskWaits(e)  PROVE NoReentry'
  <2>1. nest' = nest + 1 /\ nest < MaxNest /\ body' = body
    BY <1>18 DEF TaskWaits, EnterWait
  <2>2. body[nest + 1] = NoTask  BY <2>1 DEF StackInv
  <2>. QED BY <2>1, <2>2
<1>19. ASSUME TaskReturns  PROVE NoReentry'
  BY <1>19 DEF TaskReturns
<1>20. ASSUME NEW t \in Tasks, NEW p \in Prios, IsrSetTask(t, p)  PROVE NoReentry'
  BY <1>20 DEF IsrSetTask, SetTask
<1>21. ASSUME NEW e \in Evts, IsrSetEvt(e)  PROVE NoReentry'
  BY <1>21 DEF IsrSetEvt
<1>22. CASE UNCHANGED vars
  BY <1>22 DEF vars
<1>. QED
  BY <1>1, <1>2, <1>3, <1>4, <1>5, <1>6, <1>7, <1>8, <1>9, <1>10, <1>11, <1>12, <1>13, <1>14, <1>15, <1>16, <1>17, <1>18, <1>19, <1>20, <1>21, <1>22
  DEF Next, Main, Run, WaitEvt, TaskBody, Isr

-----------------------------------------------------------------------------
(* It starts with an empty stack and all tasks in the mask. *)
LEMMA SequencerInit == Init => IInv
<1>. SUFFICES ASSUME Init PROVE IInv  OBVIOUS
<1>. USE SequencerAssumption DEF Init, Tasks, Prios, Levels, NoTask
<1>1. TypeOK  BY DEF TypeOK
<1>2. StackInv /\ NoReentry /\ ScanInv
  BY DEF StackInv, NoReentry, ScanInv, InTask
<1>3. MaskInv  BY DEF MaskInv, InRun, Waiters
<1>. QED BY <1>1, <1>2, <1>3 DEF IInv

(* Every step keeps it. *)
LEMMA SequencerStep == IInv /\ [Next]_vars => IInv'
BY TypeStep, StackStep, MaskStep, ScanStep, ReentryStep DEF IInv

(* The invariant of the sequencer: masks, stack and scan agree in every    *)
(* reachable state of any instance.                                        *)
THEOREM SequencerInvariant == Spec => []IInv
BY SequencerInit, SequencerStep, PTL DEF Spec

(* Type correctness: every index UTIL_SEQ_Run() uses is in bounds.         *)
THEOREM TypeCorrect == Spec => []TypeOK
<1>1. IInv => TypeOK  BY DEF IInv
<1>. QED BY <1>1, SequencerInvariant, PTL

(* The unbounded inner while of UTIL_SEQ_Run() stops inside TaskPrio[].    *)
THEOREM ScanStaysInBounds == Spec => []ScanInBounds
<1>1. IInv => ScanInBounds
  BY DEF IInv, TypeOK, ScanInv, ScanInBounds, Schedulable, ReadyAt
<1>. QED BY <1>1, SequencerInvariant, PTL

(* A task suspended in UTIL_SEQ_WaitEvt() is never called again.           *)
THEOREM TasksAreNotReentered == Spec => []NoReentry
<1>1. IInv => NoReentry  BY DEF IInv
<1>. QED BY <1>1, SequencerInvariant, PTL

(* While a task runs CurrentTaskIdx names it, whatever ran in between.     *)
THEOREM CurrentTaskIsRunning == Spec => []CurrentIsRunning
<1>1. IInv => CurrentIsRunning  BY DEF IInv, StackInv, CurrentIsRunning
<1>. QED BY <1>1, SequencerInvariant, PTL

(* When main() does not wait before its loop, the tasks kept from running  *)
(* are exactly those suspended on the stack.                               *)
THEOREM OnlyWaitersAreMasked ==
  ASSUME StartupWait = FALSE
  PROVE  Spec => []OnlyWaitersMasked
<1>1. IInv => OnlyWaitersMasked
  <2>. SUFFICES ASSUME IInv, NEW t \in Tasks \ SuperMask
                PROVE  \E k \in 0 .. nest : body[k] = t
    BY DEF OnlyWaitersMasked
  <2>. USE DEF IInv, TypeOK, Levels
  <2>1. PICK j \in 1 .. nest : waitIdx[j] = t
    BY SequencerAssumption DEF MaskInv, Waiters, InRun
  <2>2. body[j - 1] # NoTask
    <3>1. CASE j = 1  BY <3>1, StartupWait = FALSE DEF StackInv
    <3>2. CASE j # 1
      <4>1. j - 1 \in 1 .. nest - 1  BY <3>2
      <4>. QED BY <4>1 DEF StackInv
    <3>. QED BY <3>1, <3>2
  <2>. QED BY <2>1, <2>2 DEF StackInv
<1>. QED BY <1>1, SequencerInvariant, PTL

-----------------------------------------------------------------------------
(* Round robin, whatever interrupts, pauses and waits do in between.       *)
(*                                                                         *)
(* A round of a level is the tasks that may still run in it.  A task that  *)
(* is left out of a round was picked in it; a round starts again, full,    *)
(* only when no runnable task is left in it.  So a runnable task that is   *)
(* passed over sees another one at most once in the round it has missed,   *)
(* and once in the next (FairShare).                                       *)

In(t, s) == IF t \in s THEN 1 ELSE 0

FairShare ==
  /\ bypass \in [Prios -> [Tasks -> [Tasks -> Nat]]]
  /\ \A p \in Prios, u, t \in Tasks :
       bypass[p][u][t] + In(t, round_robin[p]) <= 1 + In(u, round_robin[p])

(* The inner while of UTIL_SEQ_Run() picks a runnable task of the round.   *)
LEMMA PickIs ==
  ASSUME IInv, RunPick
  PROVE  /\ CurrentTaskIdx' \in ReadyAt(counter) \cap Round(counter)
         /\ round_robin' = [round_robin EXCEPT ![counter] = Round(counter) \ {CurrentTaskIdx'}]
         /\ counter \in Prios /\ Round(counter) \subseteq Tasks /\ ReadyAt(counter) \subseteq Tasks
<1> DEFINE s == ReadyAt(counter) \cap Round(counter)
<1>1. s \subseteq Tasks /\ s # {}
  BY DEF RunPick, IInv, ScanInv, TypeOK, ReadyAt, Round
<1>2. BitPosition(s) \in s
  BY <1>1, BitPositionInSet
<1>3. counter \in Prios /\ Round(counter) \subseteq Tasks /\ ReadyAt(counter) \subseteq Tasks
  BY DEF IInv, TypeOK, ReadyAt, Round
<1> QED BY <1>2, <1>3 DEF RunPick

(* Every other step leaves the rounds and the counts alone. *)
LEMMA OthersLeaveRounds ==
  ASSUME Next, ~RunPick
  PROVE  round_robin' = round_robin /\ ~(pc = "pick" /\ pc' = "remove")
<1> USE DEF masks, events, prio, frames, locals, InTask
<1>1. CASE Main
  BY <1>1 DEF Main, RegTask, BootWait, MainRun, EnterRun, EnterWait
<1>2. CASE Run \/ WakeUp
  BY <1>2 DEF Run, RunWhile, RunScan, RunRemove, RunIdle, WakeUp, ReturnFromRun
<1>3. CASE WaitEvt
  BY <1>3 DEF WaitEvt, WaitLoop, WaitLoadEvtSet, WaitStoreEvtSet, EnterRun
<1>4. CASE TaskBody
  BY <1>4 DEF TaskBody, TaskSetsTask, SetTask, TaskPauses, TaskResumes, TaskClearsEvt,
              TaskSetsEvt, TaskWaits, EnterWait, TaskReturns
<1>5. CASE Isr
  BY <1>5 DEF Isr, IsrSetTask, IsrSetEvt, SetTask
<1> QED BY <1>1, <1>2, <1>3, <1>4, <1>5 DEF Next

(* A pick counts against every runnable task of the level but the one it   *)
(* chooses.                                                                *)
LEMMA PickIsFair ==
  ASSUME IInv, FairShare, RunPick,
         bypass' = [p \in Prios |-> [u \in Tasks |-> Counted(p, u)]]
  PROVE  FairShare'
<1> DEFINE c == CurrentTaskIdx'
<1>1. /\ c \in ReadyAt(counter) \cap Round(counter)
      /\ round_robin' = [round_robin EXCEPT ![counter] = Round(counter) \ {c}]
      /\ counter \in Prios /\ Round(counter) \subseteq Tasks /\ ReadyAt(counter) \subseteq Tasks
  BY PickIs
<1>2. round_robin \in [Prios -> SUBSET Tasks]
  BY DEF IInv, TypeOK
<1>3. c \in Tasks
  BY <1>1
<1> HIDE DEF c
<1>4. ASSUME NEW p \in Prios, NEW u \in Tasks
      PROVE  /\ bypass'[p][u] = Counted(p, u) /\ bypass[p][u] \in [Tasks -> Nat]
             /\ Counted(p, u) \in [Tasks -> Nat]
             /\ u = c => Counted(p, u) = Never
             /\ u # c /\ p = counter /\ u \notin ReadyAt(p) => Counted(p, u) = Never
             /\ u # c /\ p # counter => Counted(p, u) = bypass[p][u]
             /\ u # c /\ p = counter /\ u \in ReadyAt(p) =>
                  Counted(p, u) = [bypass[p][u] EXCEPT ![c] = @ + 1]
  BY <1>3, <1>4 DEF Counted, Never, FairShare, c
<1>5. bypass' \in [Prios -> [Tasks -> [Tasks -> Nat]]]
  BY <1>4
<1>6. ASSUME NEW p \in Prios, NEW u \in Tasks, NEW t \in Tasks
      PROVE  bypass'[p][u][t] + In(t, round_robin'[p]) <= 1 + In(u, round_robin'[p])
  <2>1. CASE Counted(p, u) = Never
    BY <1>4, <2>1 DEF Never, In
  <2>2. CASE u # c /\ p # counter
    BY <1>1, <1>2, <1>4, <2>2 DEF FairShare, In
  <2>3. CASE u # c /\ p = counter /\ u \in ReadyAt(p)
    <3>1. round_robin'[p] = Round(p) \ {c}
      BY <1>1, <1>2, <2>3
    <3>2. bypass[p][u][t] \in Nat
      BY DEF FairShare
    <3>3. bypass[p][u][t] + In(t, round_robin[p]) <= 1 + In(u, round_robin[p])
      BY DEF FairShare
    <3>4. bypass[p][u][t] + In(t, Round(p)) <= 1 + In(u, Round(p))
      <4>1. CASE round_robin[p] \cap ReadyAt(p) = {}
        BY <2>3, <3>2, <3>3, <4>1 DEF Round, In
      <4>2. CASE round_robin[p] \cap ReadyAt(p) # {}
        BY <3>3, <4>2 DEF Round
      <4> QED BY <4>1, <4>2
    <3>5. In(u, Round(p) \ {c}) = In(u, Round(p))
      BY <2>3 DEF In
    <3>6. CASE t = c
      <4>1. bypass'[p][u][t] = bypass[p][u][t] + 1
        BY <1>4, <2>3, <3>6
      <4>2. In(t, Round(p)) = 1 /\ In(t, Round(p) \ {c}) = 0
        BY <1>1, <2>3, <3>6 DEF In
      <4>3. In(u, Round(p)) \in Nat
        BY DEF In
      <4> QED BY <3>1, <3>2, <3>4, <3>5, <4>1, <4>2, <4>3
    <3>7. CASE t # c
      <4>1. bypass'[p][u][t] = bypass[p][u][t]
        BY <1>3, <1>4, <2>3, <3>7
      <4>2. In(t, Round(p) \ {c}) = In(t, Round(p))
        BY <3>7 DEF In
      <4> QED BY <3>1, <3>4, <3>5, <4>1, <4>2
    <3> QED BY <3>6, <3>7
  <2> QED BY <1>4, <2>1, <2>2, <2>3
<1> QED BY <1>5, <1>6 DEF FairShare

(* Round robin: while a task stays runnable at a level, no other task of   *)
(* the level is executed more than twice before it.                        *)
THEOREM RoundRobinIsFair == HSpec => []BypassBounded
<1>1. HInit => IInv /\ FairShare
  <2>1. HInit => IInv
    BY SequencerInit DEF HInit
  <2>2. HInit => FairShare
    BY DEF HInit, Init, FairShare, Never, In
  <2> QED BY <2>1, <2>2
<1>2. IInv /\ FairShare /\ [HNext]_<<vars, bypass>> => IInv' /\ FairShare'
  <2> SUFFICES ASSUME IInv, FairShare, [HNext]_<<vars, bypass>>
               PROVE  IInv' /\ FairShare'
    OBVIOUS
  <2>1. IInv'
    BY SequencerStep DEF HNext
  <2>2. CASE HNext /\ RunPick
    <3>1. bypass' = [p \in Prios |-> [u \in Tasks |-> Counted(p, u)]]
      BY <2>2 DEF HNext, RunPick
    <3> QED BY <2>1, <2>2, <3>1, PickIsFair
  <2>3. CASE HNext /\ ~RunPick
    <3>1. round_robin' = round_robin /\ bypass' = bypass
      BY <2>3, OthersLeaveRounds DEF HNext
    <3> QED BY <2>1, <3>1 DEF FairShare
  <2>4. CASE UNCHANGED <<vars, bypass>>
    BY <2>1, <2>4 DEF FairShare, vars, prio
  <2> QED BY <2>2, <2>3, <2>4
<1>3. FairShare => BypassBounded
  <2> SUFFICES ASSUME FairShare, NEW p \in Prios, NEW u \in Tasks, NEW t \in Tasks
               PROVE  bypass[p][u][t] <= 2
    BY DEF BypassBounded
  <2>1. /\ bypass[p][u][t] \in Nat
        /\ bypass[p][u][t] + In(t, round_robin[p]) <= 1 + In(u, round_robin[p])
    BY DEF FairShare
  <2> QED BY <2>1 DEF In
<1> QED BY <1>1, <1>2, <1>3, PTL DEF HSpec
=============================================================================
