----------------------------- MODULE AdvTracer -----------------------------
(***************************************************************************)
(* The trace FIFO, lib/GNSE_TRACER/adv_tracer/stm32_adv_tracer.c, as the   *)
(* applications build it (unchunk mode, no overrun indication), its UART   *)
(* driver and the hooks that keep Stop mode away from a transfer.          *)
(*                                                                         *)
(* Three contexts share it, by rising priority: the thread (main and its   *)
(* tasks), the transfer complete interrupt of the UART (7), and the radio  *)
(* and RTC interrupts (5), which log too: a higher one preempts a lower    *)
(* one between any two steps, a critical section being one step.  Nothing  *)
(* preempts the radio and RTC interrupts, so their whole call is one step. *)
(*                                                                         *)
(* A byte of text is <<writer, text, index>>.  "pending" is a history      *)
(* variable: the accepted bytes the UART has not sent, in the order their  *)
(* space was allocated.                                                    *)
(***************************************************************************)
EXTENDS LowPower, Sequences, FiniteSets

CONSTANTS
  FIFO_SIZE,     \* ADV_TRACER_FIFO_SIZE, 512
  MaxText        \* the longest text with its time stamp; 255 without one

(* 512 > 2 * 255 *)
ASSUME TracerAssumption ==
  /\ FIFO_SIZE \in Nat /\ MaxText \in Nat \ {0}
  /\ FIFO_SIZE > 2 * MaxText

Cells == 0 .. FIFO_SIZE - 1
Texts == 1 .. FIFO_SIZE
Nul   == <<"nul">>       \* what tiny_vsnprintf_like() puts after a text
Stale == <<"stale">>     \* a byte the UART has sent, or never written
NoDma == [ptr |-> 0, len |-> 0]

VARIABLES
  isrTraces,     \* do the radio and RTC interrupts log?  Chosen at the start
  ctx,           \* ADV_TRACER_Ctx
  buffer,        \* ADV_TRACER_Buffer
  dma,           \* the transfer the UART is busy with
  cb,            \* where TRACE_TxCpltCallback() is
  tpc,           \* where the thread's ADV_TRACER_COND_FSend() is
  call,          \* its locals: the size, the write position, the text, and
                 \* whether the caller retries (APP_PPRINTF, LIB_PRINTF)
  pending

thread == <<tpc, call>>
vars   == <<isrTraces, ctx, buffer, dma, cb, thread, pending, lpmVars>>

TypeOK ==
  /\ LpmTypeOK
  /\ isrTraces \in BOOLEAN
  /\ ctx \in [Rd : Cells, Wr : Cells, SentSize : Cells, Lock : 0 .. 3,
              unchunk : {"none", "detected", "transfer"}, enabled : Cells]
  /\ DOMAIN buffer = Cells
  /\ dma \in [ptr : Cells, len : Cells]
  /\ cb \in {"none", "driver", "unlock"}
  /\ tpc \in {"idle", "retry", "alloc", "write", "unlock", "send", "presend",
              "driver", "refused"}
  /\ call \in [size : 0 .. MaxText, pos : Cells, text : {0} \cup Texts,
               polls : BOOLEAN]
  /\ Len(pending) < FIFO_SIZE

NoCall == [size |-> 0, pos |-> 0, text |-> 0, polls |-> FALSE]

Init ==
  /\ LPM_Init
  /\ isrTraces \in BOOLEAN
  /\ ctx = [Rd |-> 0, Wr |-> 0, SentSize |-> 0, Lock |-> 0,
            unchunk |-> "none", enabled |-> 0]
  /\ buffer = [x \in Cells |-> Stale]
  /\ dma = NoDma /\ cb = "none"
  /\ tpc = "idle" /\ call = NoCall
  /\ pending = <<>>

-----------------------------------------------------------------------------
(* The FIFO *)

Lock(c)   == [c EXCEPT !.Lock = @ + 1]          \* TRACE_Lock
UnLock(c) == [c EXCEPT !.Lock = @ - 1]          \* TRACE_UnLock

(* TRACE_AllocateBufer: a text that does not fit behind the write position *)
(* goes to the start of the buffer, so that it is never split.             *)
Wraps(c, size) ==
  c.Wr >= c.Rd /\ size >= FIFO_SIZE - c.Wr /\ c.Rd > size

Freesize(c, size) ==
  IF Wraps(c, size) THEN c.Rd
  ELSE IF c.Wr >= c.Rd THEN FIFO_SIZE - c.Wr ELSE c.Rd - c.Wr

Fits(c, size) == Freesize(c, size) > size

WritePos(c, size) == IF Wraps(c, size) THEN 0 ELSE c.Wr

(* Mutant: a wrap does not note where the text before it ends. *)
AllocateNoMark(c, size) == [c EXCEPT !.Wr = (WritePos(c, size) + size) % FIFO_SIZE]

AllocateBufer(c, size) ==
  LET w == IF Wraps(c, size)
           THEN [c EXCEPT !.unchunk = "detected", !.enabled = c.Wr] ELSE c
  IN [w EXCEPT !.Wr = (WritePos(c, size) + size) % FIFO_SIZE]

(* The end of the wrapped text is reached first: TRACE_Send and            *)
(* TRACE_TxCpltCallback share this computation.                            *)
NextTransfer(c) ==
  LET u == CASE c.unchunk # "detected" -> c
             [] c.unchunk = "detected" /\ c.enabled > c.Rd ->
                  [c EXCEPT !.unchunk = "transfer",
                            !.SentSize = c.enabled - c.Rd, !.enabled = 0]
             [] OTHER -> [c EXCEPT !.unchunk = "none", !.Rd = 0, !.enabled = 0]
  IN IF u.unchunk = "none"
     THEN [u EXCEPT !.SentSize = IF u.Wr > u.Rd THEN u.Wr - u.Rd
                                 ELSE FIFO_SIZE - u.Rd]
     ELSE u

(* The first half of TRACE_TxCpltCallback. *)
AfterTransfer(c) ==
  IF c.unchunk = "transfer" THEN [c EXCEPT !.unchunk = "none", !.Rd = 0]
  ELSE [c EXCEPT !.Rd = (@ + c.SentSize) % FIFO_SIZE]

(* The number of the next text: one no pending byte uses. *)
FreshText ==
  CHOOSE t \in Texts : \A i \in DOMAIN pending : pending[i][2] # t

TextOf(who, text, size) == [i \in 1 .. size |-> <<who, text, i>>]

(* tiny_vsnprintf_like() writes the text and a NUL behind it. *)
Written(b, pos, who, text, size) ==
  [x \in Cells |-> IF x \in pos .. pos + size - 1 THEN <<who, text, x - pos + 1>>
                   ELSE IF x = pos + size THEN Nul ELSE b[x]]

(* vcom_Trace_DMA(&Buffer[Rd], SentSize) *)
DriverSend(c) == dma' = [ptr |-> c.Rd, len |-> c.SentSize]

-----------------------------------------------------------------------------
(* ADV_TRACER_COND_FSend() in the thread.  The verbosity and region filter *)
(* returns before anything is touched and is left out.  The interrupt has  *)
(* run to its end, and the core is awake, whenever the thread takes a step.*)

ThreadRuns(at, next) ==
  /\ tpc = at /\ tpc' = next /\ cb = "none" /\ mode = "run"
  /\ UNCHANGED <<isrTraces, mode>>

(* TRACE_Lock() at the start of a call, and of a retry. *)
ThreadCalls(size, polls) ==
  /\ ThreadRuns("idle", "alloc")
  /\ ctx' = Lock(ctx)
  /\ call' = [NoCall EXCEPT !.size = size, !.polls = polls]
  /\ UNCHANGED <<buffer, dma, cb, pending, StopModeDisable>>

ThreadRetries ==
  /\ ThreadRuns("retry", "alloc")
  /\ ctx' = Lock(ctx)
  /\ UNCHANGED <<buffer, dma, cb, call, pending, StopModeDisable>>

ThreadAllocates ==
  /\ ThreadRuns("alloc", "write")
  /\ Fits(ctx, call.size)
  /\ ctx' = AllocateBufer(ctx, call.size)
  /\ call' = [call EXCEPT !.pos = WritePos(ctx, call.size), !.text = FreshText]
  /\ pending' = pending \o TextOf("thread", FreshText, call.size)
  /\ UNCHANGED <<buffer, dma, cb, StopModeDisable>>

ThreadFindsNoRoom ==
  /\ ThreadRuns("alloc", "refused")
  /\ ~Fits(ctx, call.size)
  /\ UNCHANGED <<ctx, buffer, dma, cb, call, pending, StopModeDisable>>

(* ADV_TRACER_MEM_FULL: nothing is sent on the way out. *)
ThreadRefused ==
  /\ ThreadRuns("refused", IF call.polls THEN "retry" ELSE "idle")
  /\ ctx' = UnLock(ctx)
  /\ call' = IF call.polls THEN call ELSE NoCall
  /\ UNCHANGED <<buffer, dma, cb, pending, StopModeDisable>>

ThreadWrites ==
  /\ ThreadRuns("write", "unlock")
  /\ buffer' = Written(buffer, call.pos, "thread", call.text, call.size)
  /\ UNCHANGED <<ctx, dma, cb, call, pending, StopModeDisable>>

ThreadUnlocks ==
  /\ ThreadRuns("unlock", "send")
  /\ ctx' = UnLock(ctx)
  /\ call' = NoCall
  /\ UNCHANGED <<buffer, dma, cb, pending, StopModeDisable>>

(* The two tests of TRACE_Send(): nobody writes or sends, and there is     *)
(* something to send.                                                      *)
MaySend(c) == c.Lock = 0 /\ c.Rd # c.Wr

(* The critical section of TRACE_Send(). *)
ThreadSends ==
  /\ ThreadRuns("send", IF MaySend(ctx) THEN "presend" ELSE "idle")
  /\ ctx' = IF MaySend(ctx) THEN NextTransfer(Lock(ctx)) ELSE ctx
  /\ UNCHANGED <<buffer, dma, cb, call, pending, StopModeDisable>>

(* ADV_TRACER_PreSendHook() *)
ThreadPreSendHook ==
  /\ ThreadRuns("presend", "driver")
  /\ DisableStop("UART_TRACER")
  /\ UNCHANGED <<ctx, buffer, dma, cb, call, pending>>

ThreadStartsDma ==
  /\ ThreadRuns("driver", "idle")
  /\ DriverSend(ctx)
  /\ UNCHANGED <<ctx, buffer, cb, call, pending, StopModeDisable>>

ThreadStep ==
  \/ ThreadRetries \/ ThreadAllocates \/ ThreadFindsNoRoom \/ ThreadRefused
  \/ ThreadWrites \/ ThreadUnlocks \/ ThreadSends \/ ThreadPreSendHook
  \/ ThreadStartsDma

-----------------------------------------------------------------------------
(* TRACE_TxCpltCallback() in the interrupt of the UART *)

(* Mutant: the lock of the finished transfer is not counted. *)
MayContinueNever(c) == c.Rd # c.Wr /\ c.Lock = 0

(* Only the finished transfer itself may hold the lock. *)
MayContinue(c) == c.Rd # c.Wr /\ c.Lock = 1

(* Mutant: Stop mode stays forbidden while text is left in the FIFO. *)
PostSendHookWhenEmpty(c) ==
  IF c.Rd = c.Wr THEN EnableStop("UART_TRACER") ELSE UNCHANGED StopModeDisable

(* ADV_TRACER_PostSendHook() *)
PostSendHook(c) == EnableStop("UART_TRACER")

(* The UART has sent the bytes of the transfer.  Its interrupt advances    *)
(* the read position, and claims the next transfer or allows Stop mode     *)
(* again (ADV_TRACER_PostSendHook()), in one critical section.             *)
TransferCompletes ==
  /\ dma # NoDma /\ cb = "none" /\ mode = "run"
  /\ dma' = NoDma
  /\ buffer' = [x \in Cells |->
                  IF x \in dma.ptr .. dma.ptr + dma.len - 1 THEN Stale ELSE buffer[x]]
  /\ pending' = SubSeq(pending, dma.len + 1, Len(pending))
  /\ LET c == AfterTransfer(ctx)
     IN IF MayContinue(c)
        THEN ctx' = NextTransfer(c) /\ cb' = "driver" /\ UNCHANGED StopModeDisable
        ELSE ctx' = c /\ cb' = "unlock" /\ PostSendHook(c)
  /\ UNCHANGED <<isrTraces, thread, mode>>

CbStartsNext ==
  /\ cb = "driver" /\ cb' = "none"
  /\ DriverSend(ctx)
  /\ UNCHANGED <<isrTraces, ctx, buffer, thread, pending, lpmVars>>

CbUnlocks ==
  /\ cb = "unlock" /\ cb' = "none"
  /\ ctx' = UnLock(ctx)
  /\ UNCHANGED <<isrTraces, buffer, dma, thread, pending, lpmVars>>

-----------------------------------------------------------------------------
(* ADV_TRACER_COND_FSend() in the radio or the RTC interrupt.  A caller    *)
(* there never retries.  It lands anywhere in the other two contexts.      *)

IsrTraceOk(size) ==
  /\ isrTraces /\ mode = "run"
  /\ Fits(ctx, size)
  /\ LET c == AllocateBufer(ctx, size)      \* Lock and UnLock cancel out
     IN IF MaySend(c)
        THEN /\ ctx' = NextTransfer(Lock(c))
             /\ DisableStop("UART_TRACER")
             /\ DriverSend(ctx')
        ELSE ctx' = c /\ UNCHANGED <<StopModeDisable, dma>>
  /\ buffer' = Written(buffer, WritePos(ctx, size), "isr", FreshText, size)
  /\ pending' = pending \o TextOf("isr", FreshText, size)
  /\ UNCHANGED <<isrTraces, cb, thread, mode>>

(* The call of a radio or RTC interrupt that finds no room changes nothing *)
(* a lower context can see, and is left out.                               *)

-----------------------------------------------------------------------------
(* Idle: UTIL_SEQ_Idle(), and what ends it. *)

Idles == tpc = "idle" /\ cb = "none" /\ LPM_EnterLowPower
         /\ UNCHANGED <<isrTraces, ctx, buffer, dma, cb, thread, pending>>

(* A transfer goes on in sleep mode, and its interrupt wakes the core. *)
TransferWakes ==
  /\ mode = "sleep" /\ mode' = "run" /\ dma # NoDma
  /\ UNCHANGED <<isrTraces, ctx, buffer, dma, cb, thread, pending, StopModeDisable>>

(* Any other interrupt.  After Stop mode vcom_Resume() sets the UART and   *)
(* its DMA channel up again, which ends whatever they were doing.          *)
InterruptWakes ==
  /\ mode # "run" /\ mode' = "run"
  /\ dma' = IF mode = "stop" THEN NoDma ELSE dma
  /\ UNCHANGED <<isrTraces, ctx, buffer, cb, thread, pending, StopModeDisable>>

(* The buzzer of the free fall application runs from a timer and owns a    *)
(* bit of its own (freefall.c, ACC_Downlink_Callback()).                   *)
BuzzerOn ==
  /\ mode = "run" /\ "TIM_BUZZER" \notin StopModeDisable
  /\ DisableStop("TIM_BUZZER")
  /\ UNCHANGED <<isrTraces, ctx, buffer, dma, cb, thread, pending, mode>>

BuzzerOff ==
  /\ mode = "run" /\ "TIM_BUZZER" \in StopModeDisable
  /\ EnableStop("TIM_BUZZER")
  /\ UNCHANGED <<isrTraces, ctx, buffer, dma, cb, thread, pending, mode>>

Next ==
  \/ \E size \in 1 .. MaxText :
       \/ \E polls \in BOOLEAN : ThreadCalls(size, polls)
       \/ IsrTraceOk(size)
  \/ ThreadStep
  \/ TransferCompletes \/ CbStartsNext \/ CbUnlocks
  \/ Idles \/ TransferWakes \/ InterruptWakes
  \/ BuzzerOn \/ BuzzerOff

Spec == Init /\ [][Next]_vars

(* A started call runs on, the UART sends what it was given, and its       *)
(* interrupt is served: strong fairness, because a sleeping core, which    *)
(* the interrupt wakes, cannot take the step.  Nobody has to start a call. *)
Fairness ==
  /\ WF_vars(ThreadStep)
  /\ SF_vars(TransferCompletes) /\ WF_vars(CbStartsNext) /\ WF_vars(CbUnlocks)
  /\ WF_vars(TransferWakes)

FairSpec == Spec /\ Fairness

-----------------------------------------------------------------------------
(* Properties *)

(* While the UART sends, the bytes under its transfer are exactly the      *)
(* oldest accepted ones, whole, in order and written: no wrap, no full     *)
(* buffer and no nested writer loses, repeats or overwrites text.  One     *)
(* exception is real: the NUL of an interrupted writer lands on the first  *)
(* byte of a text that a radio or RTC interrupt allocated behind it.       *)
TransferIsOldestText ==
  dma # NoDma =>
    /\ dma.len <= Len(pending) /\ dma.ptr + dma.len <= FIFO_SIZE
    /\ \A i \in 1 .. dma.len :
         LET byte == buffer[dma.ptr + i - 1]
         IN \/ byte = pending[i]
            \/ byte = Nul /\ pending[i][1] = "isr" /\ pending[i][3] = 1

(* TraceLock counts the writer in the thread and the transfer, from its    *)
(* claim to the end of its callback, and nobody else.                      *)
LockIsBalanced ==
  LET writer == IF tpc \in {"alloc", "write", "unlock", "refused"} THEN 1 ELSE 0
      sender == IF dma # NoDma \/ cb # "none" \/ tpc \in {"presend", "driver"}
                THEN 1 ELSE 0
  IN ctx.Lock = writer + sender

(* vcom_Trace_DMA() drops the status of HAL_UART_Transmit_DMA(), so a      *)
(* second transfer while one is running would be lost with its lock.       *)
DriverIsFree == (tpc = "driver" \/ cb = "driver") => dma = NoDma

(* The NUL behind a text fits in the buffer: tiny_vsnprintf_like() is      *)
(* given the size of its own buffer as its limit, not what is left here.   *)
NulInBuffer == tpc = "write" => call.pos + call.size < FIFO_SIZE

(* Stop mode never cuts a transfer, whatever order the two hooks, the idle *)
(* task and the interrupts come in.                                        *)
NoStopWhileSending == mode = "stop" => dma = NoDma /\ cb = "none"

(* ADV_TRACER_MEM_FULL means a backlog: with the FIFO empty a text of any  *)
(* legal size is accepted wherever the positions stopped (512 > 2 * 255).  *)
RefusedForBacklogOnly == [][ThreadFindsNoRoom => pending # <<>>]_vars

Waits(t) == \E i \in DOMAIN pending : pending[i][2] = t

(* While no call of the thread is refused, a text it accepts and every     *)
(* text before it, those of the interrupts too, are sent: whoever finds    *)
(* the FIFO locked can rely on the holder to send what it leaves behind.   *)
SentIfNeverRefused ==
  [](tpc # "refused") =>
    \A t \in Texts : (Waits(t) /\ tpc = "write") ~> ~Waits(t)

(* When logging ends, Stop mode is allowed again for good: no order of the *)
(* hooks, of a race or a refused call leaves the tracer's bit set and the  *)
(* battery drained.                                                        *)
StopModeReturns ==
  (<>[](tpc = "idle") /\ <>[][\A size \in 1 .. MaxText : ~IsrTraceOk(size)]_vars)
    => <>[]("UART_TRACER" \notin StopModeDisable)
=============================================================================
