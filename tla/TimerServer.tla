---------------------------- MODULE TimerServer ----------------------------
(***************************************************************************)
(* The timer server, lib/Utilities/baremetal/stm32_timer.c, on the RTC     *)
(* alarm of lib/GNSE_HAL/GNSE_rtc.c.                                       *)
(*                                                                         *)
(* Timers are the nodes of a linked list; "head" and "next" are its        *)
(* pointers, so that a node taken out of the list keeps its stale Next.    *)
(* The thread calls the API; the RTC alarm interrupts it at any step that  *)
(* is not in a critical section and runs UTIL_TIMER_IRQ_Handler() to its   *)
(* end.  Ticks are counted from RtcTimerContext: "elapsed" is              *)
(* GetTimerElapsedTime(), and an alarm is the timeout it was set to, so    *)
(* that moving the context shifts both.                                    *)
(***************************************************************************)
EXTENDS Integers, FiniteSets

CONSTANTS
  Timers, NoTimer,
  Periods,        \* reload values the application uses, in ticks
  FirstPeriod,    \* FirstPeriod[t]: the reload value t was created with
  MinTimeout,     \* MIN_ALARM_DELAY
  Starts,         \* Starts[t]: the timers the callback of t may start
  StartsTested,   \* also the one the thread has just tested and will insert
  SelfStopping,   \* timers whose callback may stop them
  Recreated,      \* timers the thread passes to UTIL_TIMER_Create() again
  CreatesListed,  \* also while they are in the list
  Ops,            \* the API calls of the thread
  MaxBusy,        \* bound: ticks between an alarm and the end of its handler
  MaxAge,         \* bound: age of RtcTimerContext when a timer is started
  MaxElapsed      \* bound: age of RtcTimerContext, out of reach while alarms work

ASSUME TimerAssumption ==
  /\ NoTimer \notin Timers /\ IsFiniteSet(Timers)
  /\ Periods \subseteq Nat /\ FirstPeriod \in [Timers -> Periods] /\ MinTimeout \in Nat \ {0}
  /\ Starts \in [Timers -> SUBSET Timers] /\ StartsTested \in BOOLEAN
  /\ SelfStopping \subseteq Timers
  /\ Recreated \subseteq Timers /\ CreatesListed \in BOOLEAN
  /\ Ops \subseteq {"start", "setPeriod", "startWithPeriod", "stop", "reloadMode"}
  /\ MaxBusy \in Nat /\ MaxAge \in Nat /\ MaxElapsed \in Nat

VARIABLES
  head, next,               \* TimerListHead and the Next fields
  Timestamp, ReloadValue, IsPending, IsRunning, IsReloadStopped,
  periodic,                 \* the timers whose Mode is UTIL_TIMER_PERIODIC
  elapsed, alarm, irq,      \* RTC: time since the context, alarm, ALRAF flag
  busy,                     \* ticks since an alarm went unanswered
  mpc, mop, mtimer, mcur,   \* the API call of the thread and its locals
  hpc, hcur,                \* UTIL_TIMER_IRQ_Handler() and its local cur
  left                      \* history: ticks to the deadline of a timer

nodes  == <<next, Timestamp, ReloadValue, IsPending, IsRunning, IsReloadStopped>>
rtc    == <<elapsed, alarm, irq>>
thread == <<mpc, mop, mtimer, mcur>>
isr    == <<hpc, hcur>>
vars   == <<head, nodes, periodic, rtc, busy, thread, isr, left>>

NoAlarm == -1
N == Cardinality(Timers)

Larger(a, b) == IF a > b THEN a ELSE b

(* The nodes in the order of the list; Chain[n] is NoTimer past its end.   *)
Chain ==
  LET node[n \in 0 .. N] ==
        IF n = 0 THEN head
        ELSE IF node[n - 1] = NoTimer THEN NoTimer ELSE next[node[n - 1]]
  IN node

Listed == {Chain[n] : n \in 0 .. N} \ {NoTimer}

TimerExists(t) == t \in Listed

-----------------------------------------------------------------------------
Init ==
  /\ head = NoTimer
  /\ next = [t \in Timers |-> NoTimer]
  /\ Timestamp = [t \in Timers |-> 0]
  /\ ReloadValue = FirstPeriod
  /\ IsPending = [t \in Timers |-> FALSE]
  /\ IsRunning = [t \in Timers |-> FALSE]
  /\ IsReloadStopped = [t \in Timers |-> FALSE]
  /\ periodic \in SUBSET {t \in Timers : t \notin Starts[t]}
  /\ elapsed = 0 /\ alarm = NoAlarm /\ irq = FALSE /\ busy = 0
  /\ mpc = "idle" /\ mop = "none" /\ mtimer = NoTimer /\ mcur = NoTimer
  /\ hpc = "none" /\ hcur = NoTimer
  /\ left = [t \in Timers |-> 0]

-----------------------------------------------------------------------------
(* GNSE_RTC_StartTimer(): the flag of an earlier alarm is cleared.         *)
StartTimerEvt(timeout) == alarm' = timeout /\ irq' = FALSE

StopTimerEvt == alarm' = NoAlarm /\ irq' = FALSE

(* TimerSetTimeout(): when the deadline is too soon it is postponed.       *)
TimeoutUnchecked(stamp) == stamp

Timeout(stamp) == Larger(stamp, elapsed + MinTimeout)

(* The node after which TimerInsertTimer() puts a new Timestamp.           *)
Predecessor(stamp) ==
  LET fits(n) == /\ Chain[n] # NoTimer
                 /\ \/ next[Chain[n]] = NoTimer
                    \/ stamp <= Timestamp[next[Chain[n]]]
  IN Chain[CHOOSE n \in 0 .. N - 1 : fits(n) /\ \A m \in 0 .. n - 1 : ~fits(m)]

(* The critical section of UTIL_TIMER_Start().                             *)
InsertFirst(t, ticks) ==
  /\ head = NoTimer
  /\ elapsed' = 0
  /\ head' = t
  /\ next' = [next EXCEPT ![t] = NoTimer]
  /\ Timestamp' = [Timestamp EXCEPT ![t] = Larger(ticks, MinTimeout)]
  /\ IsPending' = [IsPending EXCEPT ![t] = TRUE]
  /\ StartTimerEvt(Larger(ticks, MinTimeout))

InsertNewHeadUnlinked(t, stamp) ==
  /\ head # NoTimer /\ stamp < Timestamp[head]
  /\ head' = t
  /\ Timestamp' = [Timestamp EXCEPT ![t] = Timeout(stamp)]
  /\ IsPending' = [IsPending EXCEPT ![head] = FALSE, ![t] = TRUE]
  /\ StartTimerEvt(Timeout(stamp))
  /\ UNCHANGED <<next, elapsed>>

InsertNewHead(t, stamp) ==
  /\ head # NoTimer /\ stamp < Timestamp[head]
  /\ head' = t
  /\ next' = [next EXCEPT ![t] = head]
  /\ Timestamp' = [Timestamp EXCEPT ![t] = Timeout(stamp)]
  /\ IsPending' = [IsPending EXCEPT ![head] = FALSE, ![t] = TRUE]
  /\ StartTimerEvt(Timeout(stamp))
  /\ UNCHANGED elapsed

InsertBehind(t, stamp) ==
  /\ head # NoTimer /\ stamp >= Timestamp[head]
  /\ LET p == Predecessor(stamp)
     IN next' = [next EXCEPT ![p] = t, ![t] = next[p]]
  /\ Timestamp' = [Timestamp EXCEPT ![t] = stamp]
  /\ IsPending' = [IsPending EXCEPT ![t] = FALSE]
  /\ UNCHANGED <<head, rtc>>

StartNowFromContext(t) ==
  LET ticks == Larger(ReloadValue[t], MinTimeout)
  IN /\ InsertFirst(t, ticks) \/ InsertNewHead(t, ticks) \/ InsertBehind(t, ticks)
     /\ IsRunning' = [IsRunning EXCEPT ![t] = TRUE]
     /\ IsReloadStopped' = [IsReloadStopped EXCEPT ![t] = FALSE]
     /\ left' = [left EXCEPT ![t] = ticks]
     /\ UNCHANGED ReloadValue

StartNow(t) ==
  LET ticks == Larger(ReloadValue[t], MinTimeout)
  IN /\ \/ InsertFirst(t, ticks)
        \/ InsertNewHead(t, ticks + elapsed)
        \/ InsertBehind(t, ticks + elapsed)
     /\ IsRunning' = [IsRunning EXCEPT ![t] = TRUE]
     /\ IsReloadStopped' = [IsReloadStopped EXCEPT ![t] = FALSE]
     /\ left' = [left EXCEPT ![t] = ticks]
     /\ UNCHANGED ReloadValue

(* The critical section of UTIL_TIMER_Stop().                              *)
RemoveHead(t) ==
  /\ head = t /\ head' = next[t]
  /\ IF next[t] # NoTimer
       THEN /\ Timestamp' = [Timestamp EXCEPT ![next[t]] = Timeout(@)]
            /\ IsPending' = [IsPending EXCEPT ![t] = FALSE, ![next[t]] = TRUE]
            /\ StartTimerEvt(Timeout(Timestamp[next[t]]))
       ELSE /\ IsPending' = [IsPending EXCEPT ![t] = FALSE]
            /\ StopTimerEvt
            /\ UNCHANGED Timestamp
  /\ UNCHANGED next

RemoveInside(t) ==
  /\ head # t
  /\ next' = [p \in Timers |-> IF p \in Listed /\ next[p] = t THEN next[t]
                               ELSE next[p]]
  /\ UNCHANGED <<head, Timestamp, IsPending, alarm, irq>>

Stop(t) ==
  /\ IsReloadStopped' = [IsReloadStopped EXCEPT ![t] = TRUE]
  /\ IF head = NoTimer
       THEN UNCHANGED <<head, next, Timestamp, IsPending, IsRunning, alarm, irq, left>>
       ELSE /\ IsRunning' = [IsRunning EXCEPT ![t] = FALSE]
            /\ left' = [left EXCEPT ![t] = 0]
            /\ RemoveHead(t) \/ RemoveInside(t)
  /\ UNCHANGED <<ReloadValue, elapsed>>

-----------------------------------------------------------------------------
(* The thread.  It runs only while no interrupt handler does.              *)
ThreadAt(l) == mpc = l /\ hpc = "none"

MainReturns == mpc' = "idle" /\ mop' = "none" /\ mtimer' = NoTimer /\ mcur' = NoTimer

MainCallsStart(t) ==
  /\ ThreadAt("idle") /\ "start" \in Ops
  /\ mpc' = "read" /\ mop' = "start" /\ mtimer' = t
  /\ UNCHANGED <<head, nodes, periodic, rtc, busy, mcur, isr, left>>

(* UTIL_TIMER_StartWithPeriod() and UTIL_TIMER_SetPeriod().                *)
MainSetsPeriod(op, t, p) ==
  /\ ThreadAt("idle") /\ op \in Ops \cap {"setPeriod", "startWithPeriod"}
  /\ ReloadValue' = [ReloadValue EXCEPT ![t] = p]
  /\ mpc' = "read" /\ mop' = op /\ mtimer' = t
  /\ UNCHANGED <<head, next, Timestamp, IsPending, IsRunning, IsReloadStopped,
                 periodic, rtc, busy, mcur, isr, left>>

(* TimerExists(), which is not in a critical section.                      *)
MainReadsHead ==
  /\ ThreadAt("read")
  /\ mcur' = head /\ mpc' = "find"
  /\ UNCHANGED <<head, nodes, periodic, rtc, busy, mop, mtimer, isr, left>>

MainFollowsNext ==
  /\ ThreadAt("find") /\ mcur \notin {mtimer, NoTimer}
  /\ mcur' = next[mcur]
  /\ UNCHANGED <<head, nodes, periodic, rtc, busy, mpc, mop, mtimer, isr, left>>

MainFound ==
  /\ ThreadAt("find") /\ mcur = mtimer
  /\ IF mop = "start" THEN MainReturns
                       ELSE mpc' = "stop" /\ UNCHANGED <<mop, mtimer, mcur>>
  /\ UNCHANGED <<head, nodes, periodic, rtc, busy, isr, left>>

MainNotFoundTrusting ==
  /\ ThreadAt("find") /\ mcur = NoTimer
  /\ CASE mop = "start" -> mpc' = "insert" /\ UNCHANGED <<mop, mtimer, mcur>>
       [] mop = "startWithPeriod" ->
              mpc' = "read" /\ mop' = "start" /\ UNCHANGED <<mtimer, mcur>>
       [] OTHER -> MainReturns
  /\ UNCHANGED <<head, nodes, periodic, rtc, busy, isr, left>>

MainNotFound ==
  /\ ThreadAt("find") /\ mcur = NoTimer
  /\ CASE mop = "start" /\ ~IsRunning[mtimer] ->
              mpc' = "insert" /\ UNCHANGED <<mop, mtimer, mcur>>
       [] mop = "startWithPeriod" ->
              mpc' = "read" /\ mop' = "start" /\ UNCHANGED <<mtimer, mcur>>
       [] OTHER -> MainReturns
  /\ UNCHANGED <<head, nodes, periodic, rtc, busy, isr, left>>

MainStopsToRestart ==
  /\ ThreadAt("stop")
  /\ Stop(mtimer)
  /\ mpc' = "read" /\ mop' = "start" /\ mcur' = NoTimer
  /\ UNCHANGED <<periodic, busy, mtimer, isr>>

MainInserts ==
  /\ ThreadAt("insert")
  /\ StartNow(mtimer)
  /\ MainReturns
  /\ UNCHANGED <<periodic, busy, isr>>

MainStops(t) ==
  /\ ThreadAt("idle") /\ "stop" \in Ops
  /\ Stop(t)
  /\ UNCHANGED <<periodic, busy, thread, isr>>

MainSetsReloadMode(t) ==
  /\ ThreadAt("idle") /\ "reloadMode" \in Ops
  /\ periodic' \in {periodic \cup {t}, periodic \ {t}}
  /\ UNCHANGED <<head, nodes, rtc, busy, thread, isr, left>>

(* UTIL_TIMER_Create() of a timer that was created, and maybe started,     *)
(* before: it does not look at the list.                                   *)
MainCreates(t) ==
  /\ ThreadAt("idle") /\ t \in Recreated
  /\ CreatesListed \/ t \notin Listed
  /\ next' = [next EXCEPT ![t] = NoTimer]
  /\ Timestamp' = [Timestamp EXCEPT ![t] = 0]
  /\ IsPending' = [IsPending EXCEPT ![t] = FALSE]
  /\ IsRunning' = [IsRunning EXCEPT ![t] = FALSE]
  /\ IsReloadStopped' = [IsReloadStopped EXCEPT ![t] = FALSE]
  /\ left' = [left EXCEPT ![t] = 0]
  /\ \E p \in Periods : ReloadValue' = [ReloadValue EXCEPT ![t] = p]
  /\ periodic' \in {periodic \cup {t}, periodic \ {t}}
  /\ UNCHANGED <<head, rtc, busy, thread, isr>>

-----------------------------------------------------------------------------
(* UTIL_TIMER_IRQ_Handler(), called by the HAL when it has cleared ALRAF.  *)
HandlerEnters ==
  /\ irq /\ hpc = "none"
  /\ irq' = FALSE /\ elapsed' = 0
  /\ alarm' = IF alarm = NoAlarm THEN NoAlarm ELSE alarm - elapsed
  /\ Timestamp' = [t \in Timers |-> IF t \in Listed
                                      THEN Larger(Timestamp[t] - elapsed, 0)
                                      ELSE Timestamp[t]]
  /\ hpc' = "loop"
  /\ UNCHANGED <<head, next, ReloadValue, IsPending, IsRunning, IsReloadStopped,
                 periodic, busy, thread, hcur, left>>

HeadExpired ==
  head # NoTimer /\ (Timestamp[head] = 0 \/ Timestamp[head] < elapsed)

HandlerExpires ==
  /\ hpc = "loop" /\ HeadExpired
  /\ hcur' = head /\ head' = next[head]
  /\ IsPending' = [IsPending EXCEPT ![head] = FALSE]
  /\ IsRunning' = [IsRunning EXCEPT ![head] = FALSE]
  /\ left' = [left EXCEPT ![head] = 0]
  /\ hpc' = "callback"
  /\ UNCHANGED <<next, Timestamp, ReloadValue, IsReloadStopped, periodic, rtc,
                 busy, thread>>

(* A callback starts its own timer again, or another one: the radio starts *)
(* its time-outs in the callbacks of the MAC's windows and delays.         *)
CallbackStarts(t) ==
  /\ hpc = "callback" /\ t \in Starts[hcur]
  /\ StartsTested \/ ~(mpc = "insert" /\ t = mtimer)
  /\ ~TimerExists(t) /\ ~IsRunning[t]
  /\ StartNow(t)
  /\ UNCHANGED <<periodic, busy, thread, isr>>

CallbackStops(t) ==
  /\ hpc = "callback" /\ t \in SelfStopping
  /\ Stop(t)
  /\ UNCHANGED <<periodic, busy, thread, isr>>

CallbackReturns ==
  /\ hpc = "callback" /\ hpc' = "reload"
  /\ UNCHANGED <<head, nodes, periodic, rtc, busy, thread, hcur, left>>

HandlerReloads ==
  /\ hpc = "reload" /\ hpc' = "loop" /\ hcur' = NoTimer
  /\ IF hcur \in periodic /\ ~IsReloadStopped[hcur]
        /\ ~TimerExists(hcur) /\ ~IsRunning[hcur]
       THEN StartNow(hcur)
       ELSE UNCHANGED <<head, nodes, rtc, left>>
  /\ UNCHANGED <<periodic, busy, thread>>

HandlerLeaves ==
  /\ hpc = "loop" /\ ~HeadExpired
  /\ IF head # NoTimer /\ ~IsPending[head]
       THEN /\ Timestamp' = [Timestamp EXCEPT ![head] = Timeout(@)]
            /\ IsPending' = [IsPending EXCEPT ![head] = TRUE]
            /\ StartTimerEvt(Timeout(Timestamp[head]))
       ELSE UNCHANGED <<Timestamp, IsPending, alarm, irq>>
  /\ hpc' = "none" /\ busy' = 0
  /\ UNCHANGED <<head, next, ReloadValue, IsRunning, IsReloadStopped, periodic,
                 elapsed, thread, hcur, left>>

-----------------------------------------------------------------------------
(* Time passes.  While the list is empty the context is not looked at, and *)
(* a pending alarm is served within MaxBusy ticks.                         *)
Tick ==
  /\ head # NoTimer \/ hpc # "none"
  /\ elapsed < MaxElapsed
  /\ IF irq \/ hpc # "none" THEN busy < MaxBusy /\ busy' = busy + 1
                            ELSE busy' = 0
  /\ elapsed' = elapsed + 1
  /\ IF elapsed + 1 = alarm THEN irq' = TRUE /\ alarm' = NoAlarm
                            ELSE UNCHANGED <<irq, alarm>>
  /\ left' = [t \in Timers |-> IF IsRunning[t] THEN left[t] - 1 ELSE 0]
  /\ UNCHANGED <<head, nodes, periodic, thread, isr>>

-----------------------------------------------------------------------------
MainOp ==
  \/ \E t \in Timers :
       \/ elapsed <= MaxAge /\ MainCallsStart(t)
       \/ elapsed <= MaxAge /\ \E p \in Periods, op \in Ops : MainSetsPeriod(op, t, p)
       \/ MainStops(t) \/ MainSetsReloadMode(t) \/ MainCreates(t)

MainStep ==
  \/ MainReadsHead \/ MainFollowsNext \/ MainFound \/ MainNotFound
  \/ MainStopsToRestart \/ MainInserts

Handler ==
  \/ HandlerEnters \/ HandlerExpires
  \/ \E t \in Timers : CallbackStarts(t) \/ CallbackStops(t)
  \/ CallbackReturns \/ HandlerReloads \/ HandlerLeaves

Next == MainOp \/ MainStep \/ Handler \/ Tick

Spec == Init /\ [][Next]_vars

(* The clock runs, an alarm is served, a callback returns.                 *)
Fairness ==
  /\ WF_vars(Tick)
  /\ WF_vars(HandlerEnters \/ HandlerExpires \/ HandlerReloads \/ HandlerLeaves)
  /\ WF_vars(CallbackReturns)
  /\ WF_vars(MainStep)

FairSpec == Spec /\ Fairness

-----------------------------------------------------------------------------
TypeOK ==
  /\ head \in Timers \cup {NoTimer}
  /\ next \in [Timers -> Timers \cup {NoTimer}]
  /\ Timestamp \in [Timers -> Nat] /\ ReloadValue \in [Timers -> Periods]
  /\ IsPending \in [Timers -> BOOLEAN] /\ IsRunning \in [Timers -> BOOLEAN]
  /\ IsReloadStopped \in [Timers -> BOOLEAN] /\ periodic \subseteq Timers
  /\ elapsed \in Nat /\ alarm \in Nat \cup {NoAlarm} /\ irq \in BOOLEAN
  /\ busy \in 0 .. MaxBusy
  /\ mpc \in {"idle", "read", "find", "stop", "insert"}
  /\ mop \in {"none", "start", "setPeriod", "startWithPeriod"}
  /\ mtimer \in Timers \cup {NoTimer} /\ mcur \in Timers \cup {NoTimer}
  /\ hpc \in {"none", "loop", "callback", "reload"}
  /\ hcur \in Timers \cup {NoTimer}
  /\ left \in [Timers -> Int]

(* The list ends, no node is in it twice, and it holds exactly the timers  *)
(* that say they are running, wherever the interrupt came in the           *)
(* unprotected walk of TimerExists(), and whatever a callback started, but *)
(* for the timer itself between the tests and the critical section of the  *)
(* thread's UTIL_TIMER_Start() of it.                                      *)
ListIntact ==
  /\ Chain[N] = NoTimer
  /\ Listed = {t \in Timers : IsRunning[t]}

(* Only the head has an alarm, and outside the handler it has one: either  *)
(* set in the future at its Timestamp, or pending.                         *)
HeadHasAlarm ==
  /\ \A t \in Timers : IsPending[t] => t = head
  /\ head # NoTimer /\ hpc = "none" =>
       /\ IsPending[head]
       /\ irq \/ (alarm = Timestamp[head] /\ elapsed < alarm)

(* UTIL_TIMER_Start() "adds the timer object to the list of timer events"  *)
(* and only UTIL_TIMER_Stop() and its expiry take it out: a timer that     *)
(* says it is running is reachable from the head, where alone the          *)
(* interrupt handler finds it.                                             *)
RunningIsListed == \A t \in Timers : IsRunning[t] => t \in Listed

(* "The list is automatically sorted. The list head always contains the    *)
(* next timer to expire", the remark on TimerInsertTimer().                *)
HeadExpiresFirst ==
  head # NoTimer /\ hpc = "none" => \A t \in Listed : Timestamp[head] <= Timestamp[t]

(* TimerExists() "Check if the Object to be added is not already in the    *)
(* list": its answer, when it comes, is about the list as it is.           *)
ExistsIsRight ==
  mpc = "find" /\ hpc = "none" /\ mcur = NoTimer => ~TimerExists(mtimer)

(* A running timer does not stay in the list for ever.                     *)
RunningTimerEnds == \A t \in Timers : IsRunning[t] ~> ~IsRunning[t]

(* How late a callback may be: each time the head of the list is removed,  *)
(* TimerSetTimeout() may put the next deadline MinTimeout ticks after the  *)
(* present, and the new alarm may wait MaxBusy ticks; so may the alarm     *)
(* before all that, and the one that is served in the end.                 *)
MaxLate == (N - 1) * (MinTimeout + MaxBusy) + 2 * MaxBusy

Promise == INSTANCE TimerPromise WITH
  Durations <- {Larger(p, MinTimeout) : p \in Periods},
  running <- IsRunning,
  firing <- IF hpc = "callback" THEN hcur ELSE NoTimer

(* UTIL_TIMER_Start() to the callback, through the list, the alarm and the *)
(* handler: a callback is called once per start, never early, and at most  *)
(* MaxLate ticks late.                                                     *)
KeepsPromise == Promise!PSpec
=============================================================================
