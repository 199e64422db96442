# Verification of the Generic Node software

TLA+ models of the concurrent core of the Generic Node (Sensor Edition)
firmware: the bare-metal task sequencer, the timer server on the RTC alarm, the
class A and class C LoRaWAN MAC that runs on the two, what the MAC and the network
server keep of one another across uplinks, the trace FIFO with the low power manager,
the fragmentation package that receives firmware updates, and the FreeRTOS port of the
stack. TLC checks small instances; TLAPS proves the safety properties of the sequencer,
the timer server, the class A MAC, the trace FIFO, the link, the fragmentation package and
the FreeRTOS port for every instance. Paths below are relative to `src/Software/`, and `Mac/`, `LmHandler/` to `lib/STM32WLxx_LoRaWAN/LoRaWAN/`.

Contents: [the system](#the-system) · [the modules](#the-modules) ·
[the runs](#the-runs) · [fairness](#fairness) · [what is proved](#what-is-proved) ·
[findings](#findings) · [known counterexamples](#known-counterexamples) ·
[not modelled](#what-is-not-modelled) · [plan](#plan)

## The system

One STM32WL core, no preemptive kernel in most applications. Everything that
runs is either **the thread** (`main()`, which loops on `UTIL_SEQ_Run()`, and the
tasks it calls one after the other) or **an interrupt** (RTC alarm, sub-GHz radio,
button, accelerometer, UART DMA). The RTC and the radio share priority 5 and do not
preempt one another (`lib/GNSE_BSP/GNSE_bsp_conf.h:35-36`). So the hard behaviour
is the interleaving of interrupts with unfinished thread code, and the protocols
between components that rest on it:

    application task --LmHandlerSend/Join--> MAC --Radio.Send/Rx--> radio driver
          ^                                   |  ^                       |
          | OnTxData, OnRxData, OnJoinRequest |  | events as bits        | IRQ
          +-----------------------------------+  +-----------------------+
                 timers: UTIL_TIMER_*  -- callback in the alarm interrupt -->  MAC, application
                 sequencer: UTIL_SEQ_SetTask(LoRaMacProcess) from interrupts --> thread

| component | state | operations | who touches it | what makes it correct |
|---|---|---|---|---|
| Sequencer, `lib/Utilities/baremetal/stm32_seq.c` | `TaskSet`, `TaskMask`, `SuperMask`, `EvtSet`, `EvtWaited`, `CurrentTaskIdx`, per priority the requested tasks and the round robin | register, set, pause, resume a task; run; set, clear, wait for an event; idle | interrupts set tasks and events at any step; a task that waits calls the scheduler again on its own stack | a waiting task is not re-entered, nothing requested is lost or starved, the CPU does not sleep on work, the scan of priorities ends |
| Timer server, `lib/Utilities/baremetal/stm32_timer.c` on `lib/GNSE_HAL/GNSE_rtc.c` | linked list of timers, RTC context, one alarm | create, start, stop, set period, reload mode, the alarm handler | the thread, callbacks inside the handler's loop, the alarm interrupt | the list stays a list of the running timers, its head has an alarm, no callback early, lost or late beyond a bound |
| LoRaWAN MAC, `lib/STM32WLxx_LoRaWAN/LoRaWAN/Mac/LoRaMac.c`, with `LmHandler/LmHandler.c` above | `MacState` and `MacFlags` bits, `RxSlot`, class, retry counters, frame counter, four timers, `LoRaMacRadioEvents` | MLME/MCPS request, the five radio events, `LoRaMacProcess()`, window, acknowledgement and delay timers, class switch | application tasks, `LoRaMacProcess()` in its task, timer and radio interrupts | every accepted request is confirmed, once; a confirmed uplink ends acknowledged or with its trials spent; a counter value belongs to one frame; nothing of a request survives it |
| MLME confirm queue, `Mac/LoRaMacConfirmQueue.c` | ring of pending requests | add, set status, handle callbacks | the MAC | each request is confirmed and leaves the queue |
| Radio driver, `SubGHz_Phy/stm32_radio_driver/radio.c` | radio mode, transmit and receive software time-outs | send, receive, sleep, interrupt, time-out callbacks | MAC, interrupts | a transmission or window ends with exactly one event |
| Trace FIFO, `lib/GNSE_TRACER/adv_tracer/stm32_adv_tracer.c` | ring buffer, lock count, DMA in progress | push, lock, DMA completion | every context | no text lost or overwritten, DMA restarted whenever there is text |
| Low power, `lib/GNSE_HAL/GNSE_lpm.c` | set of users that forbid Stop mode | set mode, enter | idle hook, UART, buzzer | no Stop mode during a transfer |
| System time, `lib/Utilities/baremetal/stm32_systime.c` | offset in backup registers, RTC overflow count | get, set, conversions | clock sync, application | monotonic; overflow and counter read consistently |
| FreeRTOS port, `lib/FreeRTOS-LoRaWAN/` with `app/freertos_lorawan/classa_task.c` | response (1), event and downlink (1) queues | join, send, receive, timers on FreeRTOS timers | application task, LoRaWAN task, timer daemon | each response reaches the call that waits for it |
| Packages, `LmHandler/packages/` | FUOTA sessions and decoder, multicast sessions, clock sync state | handle commands, process, delay timers | MAC callbacks, timers | sessions do not disturb one another; what is saved is what is restored |
| MAC commands, ADR, crypto counters (`Mac/LoRaMacCommands.c`, `LoRaMacAdr.c`, `LoRaMacCrypto.c`) | answer list; back-off; counters | add/serialize/remove; next values; secure/unsecure | the MAC | sticky answers are repeated until acknowledged; a downlink counter is taken once; acknowledgements are true in both directions |

`PROJECT.json` lists every component, including those that have no state worth a
model (drivers, board support, region tables, vendored code), with the reason.

## The modules

| module | models | size |
|---|---|---|
| `Sequencer` | `stm32_seq.c`, whole | 435 |
| `MCSequencer` | instance with a history variable that counts overtaking | 34 |
| `SequencerProofs` | theorems on `Sequencer` and its round robin; EXTENDS `MCSequencer` | 625 |
| `TimerPromise` | abstract: what a timer promises | 63 |
| `TimerServer` | `stm32_timer.c` and the alarm of `GNSE_rtc.c`, and the refinement mapping to `TimerPromise` | 448 |
| `MCTimerServer` | instances | 17 |
| `TimerServerProofs` | theorems on `TimerServer`, and that it implements `TimerPromise` | 3029 |
| `LoRaMacService` | abstract: what `LoRaMac.h` promises of requests and confirms | 57 |
| `ConfirmQueue` | `LoRaMacConfirmQueue.c` as operators on sequences | 47 |
| `LoRaMac` | `LoRaMac.c` (A, C) with `LmHandler.c` and `radio.c`; EXTENDS `ConfirmQueue`, instantiates `LoRaMacService` | 659 |
| `MCLoRaMac` | instances | 6 |
| `LoRaMacProofs` | theorems on `LoRaMac`, and the steps of `LoRaMacService` | 5282 |
| `LoRaMacCrypto` | the downlink counter of `LoRaMacCrypto.c` | 56 |
| `LoRaMacAdr` | `CalcNextV10X()` of `LoRaMacAdr.c` | 35 |
| `Link` | what `LoRaMac.c` keeps across uplinks, with a lossy channel and a server; EXTENDS the two above | 416 |
| `LowPower` | `GNSE_lpm.c` | 37 |
| `AdvTracer` | `stm32_adv_tracer.c`, its UART driver and hooks; EXTENDS `LowPower` | 378 |
| `FragDecoder` | `FragDecoder.c` as operators on a decoder | 175 |
| `Fragmentation` | `LmhpFragmentation.c`; EXTENDS `FragDecoder` | 270 |
| `MCFragmentation` | the downlinks of its instances | 16 |
| `FragmentationProofs` | theorems on `Fragmentation`, and what its decoder computes | 2172 |
| `ClassATask` | `freertos_lorawan.c` under `classa_task.c`; takes the MAC as `LoRaMacService` | 297 |
| `ClassATaskProofs` | theorems on `ClassATask` | 633 |
| `LoRaMacCryptoProofs` | theorems on `LoRaMacCrypto` | 162 |
| `LinkProofs` | theorems on `Link`; EXTENDS the one above | 1488 |
| `AdvTracerProofs` | theorems on `AdvTracer` | 2103 |

**Sequencer.** A 32-bit mask is the set of its bits. One thread with a stack of
levels: level *k* is the `UTIL_SEQ_Run()` nested in *k* `UTIL_SEQ_WaitEvt()` calls,
and the locals of a suspended call (`super_mask_backup`, `current_task_idx`,
`event_waited_id_backup`) are functions of the level. `pc` names the statement
the top level is at; a critical section is one step, everything else is split
where an interrupt can see the difference: the outer `while`, the unbounded scan of
`TaskPrio[]`, the pick, the removal, the idle test, WFI, the load and the store
of `EvtSet &= ~EvtWaited`. Interrupts (`IsrSetTask`, `IsrSetEvt`) come at every `pc`
except while the CPU sleeps with interrupts masked; `WakeUp` is the pending
interrupt ending WFI. Bodies of tasks are free to set tasks and events, pause,
resume, wait and return. Clearing an event is a step of a task only.

**TimerServer.** `head` and `next` are the pointers of the list, so a removed node
keeps a stale `next`; `Chain` follows them. `TimerExists()`, which walks the list
outside critical sections, is one step per node, and the alarm handler may run
between any two. The handler is split at its loop, the callback and the reload,
during which time may pass. A callback starts and stops timers, its own and others
(`Starts`; the radio starts its time-outs in the callbacks of the MAC's windows), and comes
between any two steps of the thread. Time is counted from `RtcTimerContext`; moving the
context shifts alarm and time stamps together, as in
`UTIL_TIMER_IRQ_Handler()`. `left` is history: the ticks to a timer's deadline.
The wrap of the 32-bit counter is not modelled: the code uses differences from
the context, which are far below 2^32 while alarms work.

**LoRaMac.** `MacCtx`, the radio and the history of the current uplink are one record
`mac`; a C function is an operator from a record to a record and a handler is their
composition, in the order of its calls. `LoRaMacProcess()` is split where the
source lets an interrupt in between two decisions: events are taken
(`MacTakesEvents`) and handled one by one in the order of the source, the
decision of `HandleRadioRxErrorTimeout()` and its update of `RxSlot` are two steps,
and `MacFinishes` does retransmissions, confirms, indications and the class C
window. Frames are kinds (join accept, one that fails its check, another device's
frame, a repeated one, data, data with more pending, acknowledgement, proprietary), the
result of the channel selection is an outcome, the windows' times are an order:
RX1 before RX2 before the acknowledgement time-out, with `late` for "RX2 was already
due when RX1 ended". `hist` records what the properties compare with: which uplink
is on the air with which counter, transmissions begun and completed, confirms
owed.

**Link.** `LoRaMac` looks inside one uplink; `Link` makes an uplink, what the network
does with it and what the device makes of the answer three steps, and keeps what
survives them: the downlink counter, the acknowledgement owed to the server
(`SrvAckRequested`), the MIC of the last confirmed frame, a sticky answer, the ADR
counter and data rate, the session. A frame's MIC is its session and whole counter, so
it verifies iff both agree with what the receiver uses (`MicVerifies`). The one MAC
command is RXTimingSetupReq, because its effect is visible to the protocol: device and
server listen and send at different times until both know (`delay`). The server is not
in the repository: it counts its frames, repeats a confirmed one until it is
acknowledged or gives it up, and changes its window when it hears the answer. A frame of
the window that was not heard is lost, or `late`: it lands in the window of a later uplink
and, being ahead of the counter, is accepted there (`HearsLate`), its Ack bit included. Strays
are other devices' frames and those behind the counter: of an older session, or repeated. `AskedAfter` is history: uplinks
that carried AdrAckReq since the last sign of the network or the last step of the
back-off.

**AdvTracer, LowPower.** Three contexts by rising priority: the thread, the DMA
interrupt (7), the radio and RTC interrupts (5). The thread's call is split at its
critical sections and at the two calls without one (the hook and the driver), the
callback at its three parts; the top context is not preempted, so its whole call is one
step. A byte is writer, text number and index; a byte the UART has sent turns into
`Stale`. `pending` is history: accepted bytes in the order of their space. The idle
hook enters the mode `GNSE_lpm.c` allows, and leaving Stop mode re-initialises the UART,
which kills a transfer: what `NoStopWhileSending` is about. The buzzer of the free fall
application is a second client of Stop mode.

**FragDecoder, Fragmentation.** A row of the file is the set of source rows it is the
XOR of, so XOR is symmetric difference and a recovered row *r* is `{r}`; the arithmetic on
the packed matrix becomes sets of missing rows. The pseudo random parity rows are
computed as the code does (the rows for 5 and 6 fragments were compared with the C code's).
`Determine` is the reference: fragments determine the missing rows iff no change of
those rows leaves every fragment the same. A loop of the code over rows, lines or the
commands of a downlink is a recursive function on an interval (`Eliminated`, `Solved`,
`Obeyed`): it says what the loop has computed after *i* rounds, which is the form a proof by
induction needs. `LmhpFragmentationProcess()` reads its state in a critical section and acts
on it in another step, between which the delay timer's interrupt may come. The timer counts
ticks: `TimePasses` takes one, and each `ProcessStartsTimer` gives it `TxDelayTime` again.

**ClassATask.** The MAC task has the highest priority and sends with a time-out of one
tick: the application runs only while the MAC has nothing to do or waits for space in a
full queue (`AppRuns`), and then the message may be given up. The MAC is what
`LoRaMacService` promises: it confirms what it accepted, once. A frame of an uplink and
an MLME_SCHEDULE_UPLINK come with it in the order of the code. `fetching` is the program
counter's one return address, `prvFetchDownlinkPacket()`.

## The runs

Passing runs (the state counts are of distinct states):

| run | instance | what it shows |
|---|---|---|
| `seq_wait` | 2 tasks, 2 priorities, pauses, 2 nested waits, a wait of `main()`; 1.5 M | with interrupts anywhere, masks and `CurrentTaskIdx` agree with the tasks suspended on the stack: `ScanInBounds`, `NoReentry`, `CurrentIsRunning` |
| `seq_live` | 3 tasks, 1 priority, 1 wait; 28 k | only waiting tasks are masked; a runnable task is overtaken at most twice by each other one at each priority (`BypassBounded`); a requested task runs and a set event ends its wait, across the idle/WFI critical section |
| `timer_list` | 3 timers, periods below, at and above the minimum alarm delay, callbacks that start their own timer and another; 3.1 M | `ListIntact`, `HeadHasAlarm` |
| `timer_api` | 2 timers, the whole API, callbacks that start and stop timers, alarms served late; 1.0 M | the refinement of `TimerPromise` (`KeepsPromise`), and every started timer ends (`RunningTimerEnds`) |
| `mac_a` | class A; 2 transmissions of an unconfirmed uplink, 2 trials of a confirmed one, 2 uplinks, 2 joins, every kind of downlink but another device's and a proprietary one, CRC errors, transmit time-outs; 78 k | counters, trials, confirms, quiet between requests, no transmission cut, OK only of what was sent, and the refinement of `LoRaMacService` with its liveness (`KeepsService`) |
| `mac_c` | class C, where the radio listens between sends; 359 k | one uplink at a time and the service, with downlinks at any moment |
| `trace` | a FIFO of 5 bytes, texts of 1 and 2; 105 k | a transfer is exactly the oldest accepted text through wraps and full buffers; Stop mode never cuts it and always comes back; every text of the thread is sent as long as none is refused |
| `link` | field of 4, gap of 3, 6 frames per session, 2 sessions, strays, 1 unconfirmed frame late at a time; 444 k | `DeliveredOnce`, `FreshIsDelivered` across roll-overs, joins and delays; an uplink is reported acknowledged only if it was heard or a late frame brought the Ack bit; what the server takes for acknowledged was received |
| `link_live` | data rates 0..2, ADR limit and delay 2, 3 trials; 141 k | the back-off asks before each step down and reaches the bottom in silence; windows meet again; confirmed downlinks end |
| `frag` | 5 rows, 5 coded fragments, 3 of them may be missed; 258 k | finished iff determined, and then whole; a delayed answer leaves once its delay is left alone; recoverable files are reported |
| `rtos` | event queue of 4, 2 join attempts, 2 frames per uplink; 100 k | a response belongs to the request that waits; no call waits for nothing, every call returns; a loss that was queued leads to a join |

The run `frag_toomany` shows a disagreement of the code with its own comment; see
[findings](#findings).

These hold too in the instance of the module's run (checked by TLC, kept in the modules
as what the argument of the checked ones rests on): the `TypeOK` of `TimerServer`,
`LoRaMac`, `AdvTracer`, `Link`, `Fragmentation` and `ClassATask`; `JoinIsConfirmed` and
`UplinkIsConfirmed` (`mac_a`), which with finitely many uplinks follow from
`KeepsService`; `LockIsBalanced`, `DriverIsFree`, `NulInBuffer`, `RefusedForBacklogOnly` (`trace`); `AnswerUntilHeard` (`link_live`); `MatrixMatchesFile`,
`DoneIsToldOnce`, `AnswerIsOnItsWay` (`frag`). All of them but the `TypeOK` of `LoRaMac`,
the two liveness properties and `AnswerUntilHeard` are [proved](#what-is-proved) as well,
or, for `Link`, but for its bounds.

**Bounds.** Three tasks are the least for which round robin can be unfair to one
because of the other two; two nested waits the least for which a saved mask, task
index and event mask can be restored to the wrong level, and two tasks are enough for
both to wait. Three timers are the least for which a node has
both a predecessor and a successor (insertion in the middle, a removal inside the
list, a postponed head that overtakes its successor). Two uplinks let anything left by
the first fall into the second; two joins let a stale queue element meet a new one;
two trials and two repetitions reach both the "again" and the "spent" branch.
`MaxBusy`, `MaxAge`, `MaxElapsed` (time), `MaxNest` (stack), `MaxUplinks` and
`MaxJoins` are bounds of exploration; `HeadHasAlarm` and `KeepsPromise` show that
`MaxElapsed` is not what stops the clock. `MaxBusy` also enters the promise:
`MaxLate` in `TimerServer` is what each removal of a head can add, not a constant
chosen to fit.

`trace`: the code's FIFO is 512 bytes for texts of at most 255, so `TracerAssumption`
asks for more than twice the longest text; 5 and 2 are the least that satisfy it with
texts of different length, which is what reaches a wrap with a hole, an exact fit and a
full buffer. `link`: a field of 4 and 6 counters roll over once, with a gap of 3 both
the last accepted and the first refused difference occur; one late frame at a time is
enough for its Ack bit to meet the uplink after its own, and two (1.1 M states) show the
same. `link_live` needs a second step of the back-off (data rates 0..2) and a third trial,
which is the one that lowers the data rate by itself; it has no late frames, no strays and
one session (with two it takes five minutes and holds). `frag`: with 5 rows and 3 missing rows the
matrix has lines that are eliminated and lines that are substituted. `TxDelayTime` is two
ticks, so that a delay can be restarted when part of it is over; every answer has the same
delay. `rtos`: the event queue has the length the code gives
it, and two frames per uplink fill it; 2 of the 1000 join attempts reach both "again" and
"spent". `MaxDown`, `MaxSess`, `NbCoded` and `MaxFrames` are bounds of exploration.

`CHECK_DEADLOCK FALSE` is used for the MAC and `Link`, which really stop when the
bounded number of requests or counters is spent, and for `ClassATask`, whose
application task ends when a join or a fetch has failed.

## Fairness

- Sequencer: weak fairness of the thread's own code (`Main`, `Run`, `WaitEvt`) and of
  `TaskReturns`: the CPU executes and a task body ends, which the run-to-completion
  design demands. Nothing is assumed of interrupts: `WakeUp` has no fairness, so the
  liveness properties hold even if no further interrupt comes; that is the point of
  the idle test.
- Timer server: the clock runs, the alarm interrupt is served (`MaxBusy` bounds how
  late), the handler and its callbacks end, a call of the API ends.
- MAC: the task `LoRaMacProcess` runs once set (`RequestedTaskRuns` of the
  sequencer), a transmission and a window end or their software time-out fires, and
  the MAC's timers fire (`RunningTimerEnds` of the timer server). No fairness on
  frames: the network may stay silent.
- Trace: weak fairness of the thread inside a call, of the callback's steps and of the
  wake-up by the DMA interrupt; strong fairness of the end of a transfer, because a core
  that falls asleep again and again disables the step in between. Nobody has to trace.
- Link: the application sends, a join and a window end; strong fairness of a downlink
  being heard (`Hears`), of the server repeating, and of uplinks with an acknowledgement
  or an answer arriving: loss is not for ever and does not look into frames. `link` has
  no fairness, all its properties are safety.
- Fragmentation: the task runs, MAC events come, time passes and a timer that has run
  out fires (weak: a restart gives it the whole delay again, and nothing here makes
  restarts stop), the MAC takes an answer it is offered again and again (strong), and coded
  fragments keep coming (`[]<>` of an arrival; what is lost is any other). `AnswerLeaves`
  therefore says of an answer that does not leave that its delay was put off, or asked for
  anew, again and again; that neither happens is `DelayEnds`, which is false.
- FreeRTOS port: both tasks run, the MAC ends what it began (`KeepsService` of
  `LoRaMac`), and an application that asks for ever is accepted, and succeeds, sometimes:
  without it a queue of events stays behind failing uplinks for ever.

## What is proved

All theorems hold for every value of the constants that the named assumptions of the
modules allow; a further hypothesis is stated in the theorem and here. The bounds of
exploration (`MaxDown`, `MaxNest`, `MaxUplinks`, ...) are constants like the others.

**Sequencer** (`SequencerProofs`), from `SequencerAssumption` alone
(the counts are naturals, at least one task and priority):

| theorem | property |
|---|---|
| `TypeCorrect` | `[]TypeOK` |
| `ScanStaysInBounds` | `[]ScanInBounds`: the inner `while` of `UTIL_SEQ_Run()` never reads past `TaskPrio[]` |
| `TasksAreNotReentered` | `[]NoReentry` |
| `CurrentTaskIsRunning` | `[]CurrentIsRunning` |
| `OnlyWaitersAreMasked` | `[]OnlyWaitersMasked`, if `main()` does not wait before its loop |
| `RoundRobinIsFair` | `[]BypassBounded`, at each priority |

None of the safety properties is inductive. The invariant `IInv` is the conjunction of

- `StackInv`: which levels have a task, and that the index a `WaitEvt()` saved is the
  task of the level below it;
- `MaskInv`: each saved mask is all tasks but the waiters below its level, and so is
  `SuperMask` for the running level. `NoReentry` needs it: the picked task is in
  `SuperMask`, hence not among the waiters, hence on no lower level;
- `ScanInv`: every task of `TaskSet` is in some priority's mask. An interrupt adds to
  both in one critical section and only the running level removes, so a task
  seen by the outer `while` is still there for the scan;
- `TypeOK` and `NoReentry` themselves.

Each conjunct has a lemma for its step, one case per action. `TypeStep` needs `ScanInv`:
`BitPosition` of an empty set would have no value. `BitPositionInSet`, the most significant
bit of a non-empty set of tasks is in it, rests on the well-foundedness of `<` on the
naturals.

For the round robin, a task that is left out of a round was picked in it, and a round
starts again, full, only when no runnable task is left in it. `FairShare` counts this: what
*u* has been picked before a runnable *t*, plus one if *t* is still in the round, is at most
one, plus one if *u* is. So it is at most two.

**Timer server** (`TimerServerProofs`), from `TimerAssumption` and `WellUsed`
(`UTIL_TIMER_Create()` is not called on a timer in the list, as `freefall.c:121` does, and
no callback starts a timer between the thread's tests and its insertion of the same timer;
without either the list breaks, see [known counterexamples](#known-counterexamples)):

| theorem | property |
|---|---|
| `TypeCorrect` | `[]TypeOK` |
| `ListStaysIntact` | `[]ListIntact` |
| `AlarmIsSet` | `[]HeadHasAlarm` |
| `KeepsItsPromise` | `KeepsPromise`: `TimerServer` implements `TimerPromise`, each step a step of it or a stutter, with its bound `MaxLate` on lateness |
| `NeverEarly` | `Promise!PNeverEarly`, the half of the promise that rests on `TimerInv` alone |

`TimerInv` is `ServerOK` (the list is a path of distinct nodes `p` on `1 .. k`, exactly the
running timers; only the head is pending; no time stamp is earlier than its timer's
deadline), `AlarmOK` (outside the handler the head has its alarm, set in the future
or pending since it was due), `ActorsOK` and `InsertOK`. The last is what interleaving needs:
the timer that the thread decided to insert, before it enters the critical section, is
not running and not the one whose callback executes, so that no interrupt has inserted
it meanwhile. `Path` replaces the recursive `Chain` in all the proofs; `LeastOf` (a non-empty
set of naturals has a least element) stands for induction along the list.

`KeepsItsPromise` needs a second invariant, `Punctual`, on the same path; TLC checked it
on both instances, and with `MaxBusy` 3, first. `Wait` is what is left until the head's
callback at the latest: its alarm and `MaxBusy` ticks, or what the handler at work still
has of them, and `Gap` (`MinTimeout + MaxBusy`) more when the head is not due in it. Then
each node costs the one behind it at most one `Gap`, and `InTime` says
`(i - 1) * Gap + Wait - left[p[i]] <= MaxLate` of the *i*-th node. `InOrder` is what is true
of "the list is sorted": behind the head it is, and there a time stamp that is not due
is the deadline; a head may be out of order and past its deadline only when
`TimerSetTimeout()` postponed it, hence within `MinTimeout` of now. So whoever is behind a head that is
further away has a deadline no nearer than the head's alarm (`FarIsInTime`), and to whoever is behind a
postponed head the removal that postponed it gave back one `Gap`. A tick takes one from
every wait, and comes only while there is one to take: `left > -MaxLate`, which is
`PTick`'s guard.

**MAC** (`LoRaMacProofs`). For devices of both classes, with every frame, fault and class
change, if the region does not refuse a repetition in the timer interrupt and never asks
to wait for no time (`IsrOutcomes` is within `{"OK", "DUTYCYCLE_RESTRICTED"}`, and
`"NO_WAIT_TIME"` not in `Outcomes`): `UplinksInTurn`, `[]OneUplinkAtATime`. For a device of class A
(`ClassADevice`: it stays in class A, no frame outlives the software time-out of its
window, no other device's frame and no proprietary one is heard with a right CRC, and the
outcomes are those of `UplinksInTurn`):

| theorem | property |
|---|---|
| `StagesInOrder` | `[]ClassAInv` |
| `FreeIsQuiet` | `[]QuietWhenFree` |
| `TrialsAreSpent` | `[]RetriesAreSpent` |
| `CountersAreFresh` | `CounterPerFrame` |
| `TheAirIsLeft` | `TransmissionUndisturbed` |
| `OkIsEarned` | `[]OkMeansSent` |
| `ServiceIsKept` | `Service!SafeSpec`: every step is a step of `LoRaMacService` or a stutter |

Each hypothesis but the first is one that the code needs: the [known counterexamples](#known-counterexamples)
show a property false without it. The instance of `mac_a` satisfies all of them.
`ClassAInv` says which of eight stages a transmission is in (free, delayed, sending, sent,
pausing before a window, listening, heard, over), and for each of them the state of the
radio, the timers, the flags and the events of the radio not yet handled
(`Stage`, `EventInv`); what the upper layer waits for, nothing, a join or the end of an
uplink, with the confirm queue and the retry counters that belong to it (`Work`); and that the
last transmission took the counter (`CounterInv`). TLC checked it on the instance of
`mac_a`.

`TheAirIsLeft` follows from the stage "sending" alone. `OkIsEarned` needs one more invariant,
`Sincere`, beside `ClassAInv`: OK in `McpsConfirm`, and any stage past a transmission of the
uplink at hand, imply that one was completed. It holds because each request and each repetition
sets the status to an error again before it schedules; TLC checked it on `mac_a`, too, first.

A C function changes few of the 21 fields: the first part of the module
says of each function which (`Changes`, `Notes`), and what it leaves in them, so that no
proof of a step opens a record.

**Link** (`LoRaMacCryptoProofs`, `LinkProofs`). For every `Lsb` and `MAX_FCNT_GAP`
(`CounterAssumption`) the guess is the next counter with the frame's low bits
(`GuessIsNext`), so it is the sender's counter (`GuessIsRight`), and a frame is taken iff it is
of the session and ahead by less than the gap (`UnsecuredExactly`, `AcceptedExactly`). The
argument splits a counter into quotient and remainder (`Split`, `Apart`). For
every constant of `Link` (`LinkAssumption`, `AdrAssumption`, `CounterAssumption`):

| theorem | property |
|---|---|
| `DeliveriesAreOnce` | `DeliveredOnce` |
| `FreshFramesArrive` | `FreshIsDelivered` |
| `AcksAreHonest` | `[]AckIsHonest` |
| `ServerAcksAreHonest` | `ServerAckIsHonest`, if no confirmed frame is late (`LateTypes` within `{FALSE}`) |
| `DropsAreAskedFor` | `AsksBeforeDropping` |

The first two follow from what is taken; `ServerAckIsHonest` needs an invariant over
device, server and channel together. `Inv` says: the pending frame is the last the server
counted (`PendingInv`); what is in the window was sent in answer to the uplink in progress,
and if confirmed is the pending frame (`DownInv`); what is late was sent in this session
(`LateInv`); the device's counter is behind the
server's, its last confirmed frame behind its counter (`CounterInv`); so a repeated frame
is the one the counter stands at, and an acknowledgement that is owed or on its way is for
the pending frame, unless a confirmed one was late (`AckInv`). `AcksAreHonest` rests on
`DownInv` and `LateInv`: a frame whose Ack bit is taken is new and of the session, hence the one
in the window, which was sent because the uplink was heard, or a late one. `RxOutcome` reduces `ProcessRadioRxDone()` to three outcomes
(refused, owed again, taken). The bounds `MaxDown` and `MaxSess` are not used: `Shape` is
`TypeOK` without them. For the back-off, `AdrInv` says that the uplinks that asked since the
last sign of life or the last step are at least as many as the counter implies
(`AskedBy`), one more while an uplink is out or its window was not judged.

**Trace FIFO** (`AdvTracerProofs`), for every `FIFO_SIZE` and `MaxText` (`TracerAssumption`):

| theorem | property |
|---|---|
| `TypeCorrect` | `[]TypeOK` |
| `StopModeIsSafe` | `[]NoStopWhileSending` |
| `DriverStaysFree` | `[]DriverIsFree` |
| `OldestTextFirst` | `[]TransferIsOldestText` |
| `NulStaysInBuffer` | `[]NulInBuffer` |
| `RefusalMeansBacklog` | `RefusedForBacklogOnly`; the one that needs a FIFO of more than two longest texts |
| `LockBalance` | `[]LockIsBalanced` |

The first two properties need no positions. The Stop mode bit is shared
by all senders, set by one and cleared by another; a sender claims the lock only when it is
free (`MaySend`) and keeps it until its callback ends, so that there is one at a time
(`LockInv`, `OneSender`), its bit is set when the transfer starts and cleared by its own end
(`BitInv`), and the idle hook finds it (`StopInv`). The contents need `FifoInv`: the bytes
that wait lie in one piece or, after a wrap, in two (`Layout`), each in a cell of its own
(`Cell`), and hold what `pending` says, except those of the one text that the thread has
allocated and not written, which no sender has claimed, because the writer holds
the lock (`Contents`, `WaitsBehind`). `Balanced`: the lock counts the writer and the sender.

**FreeRTOS port** (`ClassATaskProofs`), for every length of the event queue, number of join
attempts and of frames (`PortAssumption`): `TypeCorrect`, `ResponsesMatch`
(`[]ResponseIsForRequest`) and `AnswersExist` (`[]AnswerExists`). A request, its response on
the way out and its response in the queue are three places of one token, which exists iff
the task waits (`TokenInv`); that only the head of `out` can be the response (`OutInv`)
makes the place unique. `IInv` is `TypeOK`, `OutInv` and `TokenInv`.

**Fragmentation** (`FragmentationProofs`), for every number of rows, of coded fragments and
of lost rows the decoder has room for, every set of downlinks and every delay (`FragAssumption`,
`FramesAssumption`, `DelayAssumption`):

| theorem | property |
|---|---|
| `TypeCorrect` | `[]TypeOK` |
| `FinishedIsWhole` | `[]DoneIsWhole` |
| `FinishedWhenDetermined` | `[]DoneWhenDetermined` |
| `MatrixIsTrue` | `[]MatrixMatchesFile` |
| `ToldOnce` | `[]DoneIsToldOnce` |
| `AnswersAreKept` | `[]AnswerIsOnItsWay` |

So the decoder is complete as well as sound: once a coded fragment is in, whatever is lost,
repeated or out of order, it finishes as soon as the fragments determine the file, and with
the right rows.
`Invariant` is `TypeOK`, `SessionHolds` and `DelayHolds`; TLC checked it on the instance of
`frag` first. `SessionHolds` says of a session that goes on (`Ongoing`): the rows marked
missing are the lost ones, in the order of their numbers (`Numbered`); a line of the
matrix has its pivot and nothing in front of it (`Triangular`); there are fewer lines than
lost rows; and the lines are blind to exactly those changes of the lost rows to which the
coded fragments are (`SameKernel`). `PushedKeeps` and `ReducedIsNew` show that
elimination keeps what a new fragment says, `NotFullIsBlind` that fewer lines than rows
leave a change unseen, `FullDetermines` that as many leave none, and `SolvedIsWhole` that
back substitution then leaves each lost row as itself. For the rest of a session, `Ended`.

A recursive function is a CHOOSE: for each there is a lemma that a function of that
form exists (from `LoopExists`, the one lemma with induction on a set of numbers, `Induct`)
and one for its step, and what it computes is shown by `Induct` again. The lemmas on
parity (the size of a symmetric difference is odd iff one of the sizes is) carry the
arithmetic of GF(2).

**Model-checked only.** Liveness and fairness, out of the prover's reach: with them the
liveness half of `KeepsService`. `TypeOK` of `LoRaMac`, and what `mac_c` shows of class C beyond
`OneUplinkAtATime`. There are no RECURSIVE operators: a recursive definition is a
recursive function, on the domain it is used for.

## Findings

The run `frag_toomany` ends with a counterexample; `PROJECT.json` quotes the text it
contradicts. `FragDecoderProcess()` returns `FRAG_SESSION_FINISHED`, 0, when more than
`FRAG_MAX_REDUNDANCY` rows were lost (`FragDecoder.c:277-280`); 0 and more is success
for `LmhpFragmentation.c:479-489`, which calls `OnDone()` under the comment "Fragmentation
successfully done". The application then reports a successful file transfer
(`app/basic_fuota/lora_app.c:306`, `:457`) of a file with holes.

## Known counterexamples

What the code does in spite of a property one would like. Those of the first table can be
reproduced with the constants given. `LoRaMac.h` (2706, 2740) says of each MAC request that
returned OK "Service started successfully. Waiting for the ... Confirm event"; where
`JoinIsConfirmed` and `UplinkIsConfirmed` fail, no timer and no event is left that would bring
the confirm, for which the FreeRTOS port waits without a time limit.

| property | constants that differ | what happens |
|---|---|---|
| `HeadExpiresFirst` (TimerServer) | `timer_list` with Periods {1, 3, 4}, Starts empty for each timer, MaxAge 2 | stopping the head postpones its successor beyond the node behind it (`stm32_timer.c:476`), against the remark at `:486-487` that the list is sorted; the delay is within `MaxLate` |
| `ExistsIsRight` (TimerServer) | `timer_api` | the walk of `TimerExists()` outside a critical section answers for a list that has changed; `ListIntact` shows that the list survives it, as long as no callback starts the timer that the thread is starting |
| `HeadHasAlarm` (TimerServer) | `timer_list` with StartsTested TRUE | a callback starts the timer that the thread has just tested and is about to insert (`stm32_timer.c:158-160`): it is inserted twice. No two callers of the repository do this to one timer |
| `WaitKeepsOtherEvents` (Sequencer) | `seq_wait` with NPrio 1, Evts {e1, e2}, StartupWait and Pauses FALSE | `EvtSet &= ~EvtWaited` at the end of `UTIL_SEQ_WaitEvt()` (`stm32_seq.c:427`) is not in a critical section: an event an interrupt sets between its load and its store is erased, and an outer wait for it never ends, against the comment at `:412-413` |
| `RunningIsListed` (TimerServer) | `timer_api` with CreatesListed TRUE | `UTIL_TIMER_Create()` (`stm32_timer.c:142`) clears `Next` of a node that may be in the list; the timers behind it say they run, never expire, and cannot be started again. `app/freefall_lorawan/freefall.c:121` does this on every downlink while the timer keeps restarting itself (line 151); with `IWDG_TIMER_ON` the timer behind it refreshes the watchdog. `sensors_lorawan/lora_app.c:195` and `:202` have the same shape, with `TxTimer` behind |
| `JoinIsConfirmed` (LoRaMac) | `mac_a` with Frames {"accept", "foreign"} | another device's frame in the window of a join request ends the request, RX2 cancelled, without a confirm (`LoRaMac.c:936`) |
| `JoinIsConfirmed` (LoRaMac) | `mac_a` with Frames {"accept", "proprietary"} | a proprietary frame in that window is delivered and ends the request in the same way (`LoRaMac.c:1330`) |
| `UplinkIsConfirmed` (LoRaMac) | `mac_a` with Faults {"preempt"} | RX2's timer fires between the two looks `HandleRadioRxErrorTimeout()` takes at the window (`LoRaMac.c:1426-1445`): the interrupt believes RX1 open (`:1724`), the thread RX2 still to come, and the MAC stays busy |
| `UplinkIsConfirmed` (LoRaMac) | `mac_a` with IsrOutcomes {"OK", "ERROR"} | a delayed uplink whose scheduling fails in the timer interrupt is stopped (`LoRaMac.c:1688-1700`), and nobody sets `MacDone` for its confirm |
| `UplinkIsConfirmed` (LoRaMac) | `mac_a` with Outcomes {"OK", "NO_WAIT_TIME"} | a band whose credits are just what the frame costs is not ready (`Mac/region/RegionCommon.c:291` asks for more) and has nothing to wait for (`:312`): `ScheduleTx()` answers OK and starts neither the radio nor the timer (`LoRaMac.c:2527-2533`); for a repetition the MAC stays busy as well |
| `DelayEnds` (Fragmentation) | `frag` with FragNb 3, NbCoded 2, FRAG_MAX_REDUNDANCY 2 | while its delay runs, each call of `LmhpFragmentationProcess()` gives an answer's timer the whole delay again (`LmhpFragmentation.c:274-279`), although the comment at `:517-523` computes 34 minutes at most: MAC events closer than the delay, as the fragments of the session are, put the answer off for ever |
| `SleepsInClassA` (LoRaMac) | `mac_c` with AppClasses {"A"} | a downlink asks for class A: the radio is put to sleep and the same pass opens it again for class C (`LoRaMac.c:1879`, `3234`) |
| `OnlyWaitersMasked` (Sequencer) | StartupWait TRUE | `CurrentTaskIdx` starts as 0, not "no task", so a wait of `main()` masks task 0 |
| `OkMeansSent`, `TransmissionUndisturbed`, `QuietWhenFree` (LoRaMac) | `mac_c` | a frame received just before a send is processed after it; `Radio.Sleep` (`LoRaMac.c:990`) cuts the transmission and the confirm says OK |
| `RetriesAreSpent` (LoRaMac) | `mac_a` with Frames {"accept", "foreign"} | a stale join element makes `LoRaMacHandleMlmeRequest()` (`:1641`) end an uplink |
| `AckMeansHeard` (Link) | `link` | the Ack bit of a frame that missed its window, for an earlier uplink, is taken for the uplink in whose window it lands (`LoRaMac.c:1226`): the application is told of an acknowledgement of something nobody heard. LoRaWAN 1.0.x gives the device no means to tell the two apart; `AckIsHonest` says that nothing else brings it about |
| `ServerAckIsHonest` (Link) | `link` with LateTypes {TRUE, FALSE} | a confirmed frame that comes when the server has given it up is acknowledged in the next uplink, which the server takes for the confirmed frame it sent meanwhile |
| `AnswerUntilHeard` (Link) | `link_live` with LateTypes {FALSE}, MaxLate 1 | a late frame in answer to an earlier uplink removes the sticky answer to a request the network has not seen answered |
| `QuietWhenFree`, `KeepsService` (LoRaMac) | `mac_a` with Faults {"longFrame"} | the 3 s software time-out of a window (`radio.c:1774`) comes while a frame is still being received |

`mac_a` and `mac_c` leave these inputs out so that they can state what does hold; the
properties of `mac_c` are those that survive an event handled late. In class C with
CRC errors (5.8 M states) the safety properties of `mac_c` hold; its liveness was
left out there, since unboundedly many header errors can keep RX2's timer waiting
in a model without time.


The second list needs a change of the model, not only of constants: each of these is
left out of the modules by an assumption that the module states, or is an effect that a
property had to exclude.

- *Trace.* A text that a radio or RTC interrupt traces between the callback's critical
  section and its `TRACE_UnLock()` (`stm32_adv_tracer.c:776`), or during a refused call of
  the thread, stays in the FIFO until the next trace: `SentIfNeverRefused` is about texts
  of the thread. The NUL behind an interrupted writer's text lands on the first byte of
  the interrupt's text (the exception in `TransferIsOldestText`). `APP_PPRINTF` in the
  thread can poll for ever when interrupts keep the FIFO full. A text that with its time
  stamp is longer than 255 bytes could be refused by an empty FIFO. `vcom_Trace_DMA()`
  drops the status of the HAL, and a DMA error has no callback: the lock would be held.
- *Link.* A frame in the window that is not accepted, even another device's, stops the
  ADR count without resetting it, so a count that stays where a step was due takes the
  next step without asking (the exemption in `AsksBeforeDropping`). The MIC of the last
  confirmed frame survives a join and 65535 frames, after which its repetition would be
  acknowledged (`HearsStray` excludes it). `ServerAckIsHonest` needs a server that does
  not give up a confirmed frame that is still in the air, so that its confirmed frames are
never late (`LateTypes`). The counter is judged before
  address and MIC, so that a frame of another device can be reported as too many frames
  lost, on which `classa_task.c` joins again. A first counter of 65536 or more is never
  accepted. In class C an unconfirmed downlink clears the acknowledgement owed for the one
  before it. After a failed OTAA join the counter of repetitions stays 1, and an ABP
  activation reuses the last uplink counter. With an ADR_ACK_DELAY of 1 the data rate
  never falls (`AdrAssumption`).
- *Fragmentation.* Four sessions share one decoder; `Fragmentation` has one. A delayed
  answer points into the buffer that immediate answers are written to. An immediate
  answer that the MAC refuses is lost (`LmhpFragmentation.c:536`). A delay timer that fires
  between `LmhpFragmentationProcess()`'s look at START and its restart of the timer sends
  the answer twice. `MatrixError` is never reset, and the number of lost rows is still
  reported after they were recovered. `OnDone()` needs one fragment more than the file.
  Nothing wakes `LmHandlerProcess()` when the delay timer fires. Rows lost at the tail can
  exceed the arrays of the decoder if more than 8 are missing.
- *FreeRTOS port.* A fetch whose uplink fails leaves its downlink in the queue, so that
  the next one is dropped or the old one is read for it, against the comment on the queue
  length in `lorawan_conf.h`. Fetches that bring more events can overflow the event queue of
  four; the MAC task blocks one tick and drops the event. One failed fetch or re-join ends
  the application. `TimerGetCurrentTime()` counts whole seconds; the auto-reload of every
  timer (`timer.c:87`) is harmless, since the MAC's handlers stop their timers.

## What is not modelled

Class B (compiled out), the regions' tables, the frame layout and the ciphers, the
secure element, sensors and flash drivers, the HAL (more than half of the lines under
`src/`), the context store (disabled at `NvmCtxMgmt.c:105`), the system time, text
formatting. Of the MAC, multicast, compliance mode and the other MAC commands do not
appear; of LmHandler, only the paths that send, join, switch class and deliver, and the
fragmentation package. `JOIN` is the one MLME request of the runs. Of the FreeRTOS port,
`timer.c` and the credentials.

The drivers and tables are sequential code over registers and constants, with no
protocol between actors; a model of them would restate them. Remote multicast set-up,
clock synchronisation and firmware management are protocols, and the next candidates.

Not modelled of what the models cover: two interrupts of one priority preempting one
another (they do not), the 32-bit wrap of RTC ticks, and data races
within one assignment other than `EvtSet &=`, whose load and store are separate. The
modules name at each definition what it leaves out.

## Plan

1. *Done:* Sequencer, TimerPromise/TimerServer, LoRaMacService/ConfirmQueue/LoRaMac;
   proofs of the sequencer's safety.
2. *Done:* LowPower/AdvTracer, LoRaMacCrypto/LoRaMacAdr/Link, FragDecoder/Fragmentation,
   ClassATask on the service of LoRaMacService; proofs on ClassATask, LoRaMacCrypto, Link and AdvTracer.
3. *Done:* proofs on the timer server (list, alarm, never early, lateness bounded), the trace FIFO's contents,
   the ADR back-off, the round robin, the MAC of class A and its service, the fragment
   decoder and its package.
4. Prove: what a class C device keeps beyond `UplinksInTurn`.
5. Extend: multicast sessions against class switches, a second fragmentation session.
