-------------------------- MODULE AdvTracerProofs --------------------------
(***************************************************************************)
(* Stop mode and the trace FIFO, for every size of the FIFO and of a text. *)
(*                                                                         *)
(* Stop mode is forbidden by one bit that several senders share, set       *)
(* before a transfer starts and cleared when one ends.  That the bit of a  *)
(* transfer is not cleared by the end of another, or set too late, rests   *)
(* on the lock: a sender claims it only when nobody holds it and keeps it  *)
(* until its callback has ended (LockInv, OneSender).                      *)
(*                                                                         *)
(* What is sent rests on where the accepted bytes lie: in one piece, or in *)
(* two around the end of the buffer (Layout).  Every byte has a cell of    *)
(* its own (LayoutFacts), a text that is allocated gets cells behind those *)
(* that wait (AllocateAppends), a transfer takes the first cells           *)
(* (ClaimTakesOldest) and gives them up at its end (TransferDropsOldest).  *)
(* The state adds the one text the thread may not have written yet         *)
(* (Contents), which no transfer has claimed because its writer holds the  *)
(* lock.                                                                   *)
(***************************************************************************)
EXTENDS AdvTracer, Integers, SequenceTheorems, FiniteSetTheorems, TLAPS

Ctx == [Rd : Int, Wr : Int, SentSize : Int, Lock : Int,
        unchunk : {"none", "detected", "transfer"}, enabled : Int]

Shape ==
  /\ ctx \in Ctx
  /\ "size" \in DOMAIN call /\ call.size \in Int
  /\ mode \in {"run", "sleep", "stop"}

(* The thread holds the lock to write, or to send. *)
Writing     == tpc \in {"alloc", "write", "unlock", "refused"}
ThreadSender == tpc \in {"presend", "driver"}
Transfers   == dma # NoDma \/ cb # "none"

OneSender ==
  /\ ~(ThreadSender /\ Transfers)
  /\ ~(dma # NoDma /\ cb # "none")

LockInv ==
  /\ ctx.Lock >= 0
  /\ Writing => ctx.Lock >= 1
  /\ ThreadSender \/ Transfers => ctx.Lock >= 1
  /\ Writing /\ Transfers => ctx.Lock >= 2

(* Whoever starts or runs a transfer has set the bit. *)
BitInv ==
  dma # NoDma \/ tpc = "driver" \/ cb = "driver" => "UART_TRACER" \in StopModeDisable

(* In Stop mode nobody forbids it, and every context is at rest. *)
StopInv == mode = "stop" => StopModeDisable = {} /\ tpc = "idle" /\ cb = "none"

Inv == Shape /\ OneSender /\ LockInv /\ BitInv /\ StopInv

-----------------------------------------------------------------------------
(* Allocating, sending and advancing move positions, not the lock.         *)
LEMMA PositionsOnly ==
  ASSUME NEW c \in Ctx, NEW size \in Int
  PROVE  /\ AllocateBufer(c, size) \in Ctx /\ AllocateBufer(c, size).Lock = c.Lock
         /\ NextTransfer(c) \in Ctx /\ NextTransfer(c).Lock = c.Lock
         /\ AfterTransfer(c) \in Ctx /\ AfterTransfer(c).Lock = c.Lock
<1>0. FIFO_SIZE \in Nat /\ FIFO_SIZE > 0 /\ 0 \in Int
  BY TracerAssumption DEF TracerAssumption
<1>1. AllocateBufer(c, size) \in Ctx /\ AllocateBufer(c, size).Lock = c.Lock
  <2> DEFINE w == IF Wraps(c, size)
                  THEN [c EXCEPT !.unchunk = "detected", !.enabled = c.Wr] ELSE c
             p == (WritePos(c, size) + size) % FIFO_SIZE
  <2>1. w \in Ctx /\ w.Lock = c.Lock
    BY DEF Ctx
  <2>2. p \in Int
    BY <1>0 DEF WritePos, Ctx
  <2>3. AllocateBufer(c, size) = [w EXCEPT !.Wr = p]
    BY DEF AllocateBufer
  <2> HIDE DEF w, p
  <2> QED BY <2>1, <2>2, <2>3 DEF Ctx
<1>2. NextTransfer(c) \in Ctx /\ NextTransfer(c).Lock = c.Lock
  <2> DEFINE u == CASE c.unchunk # "detected" -> c
                    [] c.unchunk = "detected" /\ c.enabled > c.Rd ->
                         [c EXCEPT !.unchunk = "transfer",
                                   !.SentSize = c.enabled - c.Rd, !.enabled = 0]
                    [] OTHER -> [c EXCEPT !.unchunk = "none", !.Rd = 0, !.enabled = 0]
             n == IF u.Wr > u.Rd THEN u.Wr - u.Rd ELSE FIFO_SIZE - u.Rd
  <2>1. u \in Ctx /\ u.Lock = c.Lock
    <3>1. ASSUME NEW a \in Int, NEW b \in Int
          PROVE  /\ [c EXCEPT !.unchunk = "transfer", !.SentSize = a, !.enabled = b] \in Ctx
                 /\ [c EXCEPT !.unchunk = "none", !.Rd = a, !.enabled = b] \in Ctx
      BY DEF Ctx
    <3>2. c.enabled - c.Rd \in Int
      BY DEF Ctx
    <3>3. CASE c.unchunk # "detected"
      BY <3>3
    <3>4. CASE c.unchunk = "detected" /\ c.enabled > c.Rd
      BY <1>0, <3>1, <3>2, <3>4 DEF Ctx
    <3>5. CASE c.unchunk = "detected" /\ ~(c.enabled > c.Rd)
      BY <1>0, <3>1, <3>5 DEF Ctx
    <3> QED BY <3>3, <3>4, <3>5
  <2>2. NextTransfer(c) = IF u.unchunk = "none" THEN [u EXCEPT !.SentSize = n] ELSE u
    BY DEF NextTransfer
  <2> HIDE DEF u
  <2>3. n \in Int
    BY <1>0, <2>1 DEF Ctx
  <2> HIDE DEF n
  <2> QED BY <2>1, <2>2, <2>3 DEF Ctx
<1>3. AfterTransfer(c) \in Ctx /\ AfterTransfer(c).Lock = c.Lock
  <2> DEFINE p == (c.Rd + c.SentSize) % FIFO_SIZE
  <2>1. p \in Int
    BY <1>0 DEF Ctx
  <2>2. AfterTransfer(c) = IF c.unchunk = "transfer"
                           THEN [c EXCEPT !.unchunk = "none", !.Rd = 0]
                           ELSE [c EXCEPT !.Rd = p]
    BY DEF AfterTransfer, Ctx
  <2>3. ASSUME NEW a \in Int
        PROVE  [c EXCEPT !.unchunk = "none", !.Rd = a] \in Ctx /\ [c EXCEPT !.Rd = a] \in Ctx
    BY DEF Ctx
  <2> HIDE DEF p
  <2> QED BY <1>0, <2>1, <2>2, <2>3 DEF Ctx
<1> QED BY <1>1, <1>2, <1>3

(* Locking counts. *)
LEMMA LockCounts ==
  ASSUME NEW c \in Ctx
  PROVE  /\ Lock(c) \in Ctx /\ Lock(c).Lock = c.Lock + 1
         /\ UnLock(c) \in Ctx /\ UnLock(c).Lock = c.Lock - 1
BY DEF Lock, UnLock, Ctx
-----------------------------------------------------------------------------
(* Every step keeps the invariant. *)

(* Nothing is sent at the start. *)
LEMMA InitInv == Init => Inv
<1> SUFFICES ASSUME Init PROVE Inv
  OBVIOUS
<1>1. /\ ctx = [Rd |-> 0, Wr |-> 0, SentSize |-> 0, Lock |-> 0,
                unchunk |-> "none", enabled |-> 0]
      /\ dma = NoDma /\ cb = "none" /\ tpc = "idle" /\ call.size = 0 /\ mode = "run"
  BY DEF Init, NoCall, LPM_Init
<1>2. ctx \in Ctx /\ ctx.Lock = 0
  BY <1>1 DEF Ctx
<1>3. Shape
  BY <1>1, <1>2 DEF Shape, Init, NoCall
<1>4. OneSender /\ LockInv /\ BitInv /\ StopInv
  BY <1>1, <1>2 DEF OneSender, LockInv, BitInv, StopInv, Writing, ThreadSender, Transfers
<1> QED BY <1>3, <1>4 DEF Inv

(* The calls of the thread: a writer, then a sender if the lock was free.  *)
LEMMA ThreadInv ==
  ASSUME Inv,
         ThreadStep \/ \E size \in 1 .. MaxText : \E polls \in BOOLEAN : ThreadCalls(size, polls)
  PROVE  Inv'
<1>1. ctx \in Ctx /\ ctx.Lock \in Int /\ call.size \in Int
  BY DEF Inv, Shape, Ctx
<1> USE DEF Inv, Shape, OneSender, LockInv, BitInv, StopInv, Writing, ThreadSender, Transfers,
        ThreadRuns
<1>2. ASSUME NEW size \in 1 .. MaxText, NEW polls \in BOOLEAN, ThreadCalls(size, polls)
      PROVE  Inv'
  <2>1. call' = [size |-> size, pos |-> 0, text |-> 0, polls |-> polls]
    BY <1>2 DEF ThreadCalls, NoCall
  <2>2. "size" \in DOMAIN call' /\ call'.size = size
    BY <2>1
  <2>3. size \in Int
    BY TracerAssumption DEF TracerAssumption
  <2>4. Shape'
    BY <1>1, <1>2, <2>2, <2>3, LockCounts DEF ThreadCalls
  <2>5. OneSender' /\ LockInv' /\ BitInv' /\ StopInv'
    <3>1. /\ tpc = "idle" /\ tpc' = "alloc" /\ cb = "none" /\ mode = "run"
          /\ UNCHANGED <<dma, cb, mode, StopModeDisable>> /\ ctx' = Lock(ctx)
      BY <1>2 DEF ThreadCalls
    <3>2. ctx'.Lock = ctx.Lock + 1
      BY <1>1, <3>1, LockCounts
    <3>3. LockInv'
      BY <1>1, <3>1, <3>2
    <3> QED BY <3>1, <3>3
  <2> QED BY <2>4, <2>5
<1>3. CASE ThreadRetries
  BY <1>1, <1>3, LockCounts DEF ThreadRetries
<1>4. CASE ThreadAllocates
  <2>1. "size" \in DOMAIN call' /\ call'.size = call.size
    BY <1>4 DEF ThreadAllocates
  <2> QED BY <1>1, <1>4, <2>1, PositionsOnly DEF ThreadAllocates
<1>5. CASE ThreadFindsNoRoom
  BY <1>1, <1>5 DEF ThreadFindsNoRoom
<1>6. CASE ThreadRefused
  BY <1>1, <1>6, LockCounts DEF ThreadRefused, NoCall
<1>7. CASE ThreadWrites
  BY <1>1, <1>7 DEF ThreadWrites
<1>8. CASE ThreadUnlocks
  BY <1>1, <1>8, LockCounts DEF ThreadUnlocks, NoCall
<1>9. CASE ThreadSends
  BY <1>1, <1>9, LockCounts, PositionsOnly DEF ThreadSends, MaySend
<1>10. CASE ThreadPreSendHook
  BY <1>1, <1>10 DEF ThreadPreSendHook, DisableStop
<1>11. CASE ThreadStartsDma
  BY <1>1, <1>11 DEF ThreadStartsDma
<1> QED
  BY <1>2, <1>3, <1>4, <1>5, <1>6, <1>7, <1>8, <1>9, <1>10, <1>11 DEF ThreadStep
(* The callback, the interrupts that trace, idle mode and the other client *)
(* of Stop mode.                                                           *)
LEMMA OthersInv ==
  ASSUME Inv,
         \/ TransferCompletes \/ CbStartsNext \/ CbUnlocks
         \/ \E size \in 1 .. MaxText : IsrTraceOk(size)
         \/ Idles \/ TransferWakes \/ InterruptWakes \/ BuzzerOn \/ BuzzerOff
  PROVE  Inv'
<1>1. ctx \in Ctx /\ ctx.Lock \in Int
  BY DEF Inv, Shape, Ctx
<1> USE DEF Inv, Shape, OneSender, LockInv, BitInv, StopInv, Writing, ThreadSender, Transfers,
        thread, lpmVars
<1>2. CASE TransferCompletes
  <2> DEFINE c == AfterTransfer(ctx)
  <2>1. c \in Ctx /\ c.Lock = ctx.Lock /\ NextTransfer(c) \in Ctx /\ NextTransfer(c).Lock = c.Lock
    BY <1>1, PositionsOnly
  <2>2. IF MayContinue(c)
        THEN ctx' = NextTransfer(c) /\ cb' = "driver" /\ UNCHANGED StopModeDisable
        ELSE ctx' = c /\ cb' = "unlock" /\ PostSendHook(c)
    BY <1>2 DEF TransferCompletes
  <2> HIDE DEF c
  <2>3. /\ dma # NoDma /\ dma' = NoDma /\ cb = "none" /\ mode = "run"
        /\ UNCHANGED <<tpc, call, mode>>
    BY <1>2 DEF TransferCompletes
  <2>4. CASE MayContinue(c)
    BY <1>1, <2>1, <2>2, <2>3, <2>4
  <2>5. CASE ~MayContinue(c)
    BY <1>1, <2>1, <2>2, <2>3, <2>5 DEF PostSendHook, EnableStop
  <2> QED BY <2>4, <2>5
<1>3. CASE CbStartsNext
  BY <1>1, <1>3 DEF CbStartsNext
<1>4. CASE CbUnlocks
  BY <1>1, <1>4, LockCounts DEF CbUnlocks
<1>5. ASSUME NEW size \in 1 .. MaxText, IsrTraceOk(size) PROVE Inv'
  <2> DEFINE c == AllocateBufer(ctx, size)
  <2>1. size \in Int
    BY TracerAssumption DEF TracerAssumption
  <2>2. c \in Ctx /\ c.Lock = ctx.Lock
    BY <1>1, <2>1, PositionsOnly
  <2>3. /\ IF MaySend(c)
           THEN /\ ctx' = NextTransfer(Lock(c))
                /\ DisableStop("UART_TRACER")
                /\ DriverSend(ctx')
           ELSE ctx' = c /\ UNCHANGED <<StopModeDisable, dma>>
        /\ mode = "run" /\ UNCHANGED <<cb, tpc, call, mode>>
    BY <1>5 DEF IsrTraceOk
  <2> HIDE DEF c
  <2>4. CASE MaySend(c)
    <3>1. c.Lock = 0 /\ ctx' \in Ctx /\ ctx'.Lock = 1
      BY <2>1, <2>2, <2>3, <2>4, LockCounts, PositionsOnly DEF MaySend
    <3>2. StopModeDisable' = StopModeDisable \cup {"UART_TRACER"}
      BY <2>3, <2>4 DEF DisableStop
    <3>3. ~Writing /\ ~ThreadSender /\ ~Transfers
      BY <1>1, <2>2, <3>1
    <3> QED BY <2>3, <3>1, <3>2, <3>3
  <2>5. CASE ~MaySend(c)
    BY <1>1, <2>2, <2>3, <2>5
  <2> QED BY <2>4, <2>5
<1>6. CASE Idles
  BY <1>1, <1>6 DEF Idles, LPM_EnterLowPower, DeepestMode
<1>7. CASE TransferWakes
  BY <1>1, <1>7 DEF TransferWakes
<1>8. CASE InterruptWakes
  BY <1>1, <1>8 DEF InterruptWakes
<1>9. CASE BuzzerOn
  BY <1>1, <1>9 DEF BuzzerOn, DisableStop
<1>10. CASE BuzzerOff
  BY <1>1, <1>10 DEF BuzzerOff, EnableStop
<1> QED
  BY <1>2, <1>3, <1>4, <1>5, <1>6, <1>7, <1>8, <1>9, <1>10

(* The invariant is inductive. *)
LEMMA StepInv == Inv /\ [Next]_vars => Inv'
<1> SUFFICES ASSUME Inv, [Next]_vars PROVE Inv'
  OBVIOUS
<1>1. CASE UNCHANGED vars
  BY <1>1 DEF vars, thread, lpmVars, Inv, Shape, OneSender, LockInv, BitInv, StopInv, Writing,
     ThreadSender, Transfers
<1>2. CASE Next
  BY <1>2, ThreadInv, OthersInv DEF Next
<1> QED BY <1>1, <1>2

(* It holds in every behaviour. *)
LEMMA Invariance == Spec => []Inv
BY InitInv, StepInv, PTL DEF Spec

(* Whatever order calls, transfers, interrupts and idle phases come in,    *)
(* and however large the FIFO: Stop mode, entered by the idle hook         *)
(* (GNSE_LPM_EnterLowPower()), never cuts a transfer of the UART.          *)
THEOREM StopModeIsSafe == Spec => []NoStopWhileSending
<1>1. Inv => NoStopWhileSending
  BY DEF Inv, BitInv, StopInv, NoStopWhileSending
<1> QED BY <1>1, Invariance, PTL

(* A second transfer is never started while one runs, so that the status   *)
(* vcom_Trace_DMA() drops is never HAL_BUSY.                               *)
THEOREM DriverStaysFree == Spec => []DriverIsFree
<1>1. Inv => DriverIsFree
  BY DEF Inv, OneSender, ThreadSender, Transfers, DriverIsFree
<1> QED BY <1>1, Invariance, PTL
-----------------------------------------------------------------------------
(* What the FIFO holds.  The accepted bytes lie in one piece from Rd to Wr *)
(* or, after a wrap, in two: from Rd to the end of the wrapped text, and   *)
(* from the start of the buffer to Wr.                                     *)
FirstPart(c) == IF c.unchunk = "none" THEN c.Wr - c.Rd
                ELSE IF c.unchunk = "detected" THEN c.enabled - c.Rd ELSE c.SentSize

Length(c) == IF c.unchunk = "none" THEN FirstPart(c) ELSE FirstPart(c) + c.Wr

(* The place of the i-th oldest byte. *)
Cell(c, i) == IF i <= FirstPart(c) THEN c.Rd + i - 1 ELSE i - FirstPart(c) - 1

Layout(c) ==
  /\ c.Rd \in Cells /\ c.Wr \in Cells /\ FirstPart(c) >= 0
  /\ c.unchunk # "none" =>
       1 <= c.Wr /\ c.Wr < c.Rd /\ c.Rd + FirstPart(c) < FIFO_SIZE

(* Positions in the buffer are small numbers.                              *)
LEMMA Positions ==
  /\ FIFO_SIZE \in Nat /\ FIFO_SIZE > 0 /\ MaxText \in Nat /\ MaxText > 0
  /\ \A x \in Cells : x \in Int /\ 0 <= x /\ x < FIFO_SIZE
  /\ \A x \in Int : 0 <= x /\ x < FIFO_SIZE => x \in Cells /\ x % FIFO_SIZE = x
BY TracerAssumption DEF Cells

(* Every waiting byte has a cell of its own, and one cell stays free.      *)
LEMMA LayoutFacts ==
  ASSUME NEW c \in Ctx, Layout(c)
  PROVE  /\ FirstPart(c) \in Nat /\ Length(c) \in Nat /\ FirstPart(c) <= Length(c)
         /\ Length(c) < FIFO_SIZE
         /\ \A i \in 1 .. Length(c) : Cell(c, i) \in Cells
         /\ \A i, j \in 1 .. Length(c) : Cell(c, i) = Cell(c, j) => i = j
         /\ \A i \in 1 .. FirstPart(c) : Cell(c, i) = c.Rd + i - 1
         /\ c.Rd + FirstPart(c) < FIFO_SIZE
         /\ Length(c) = 0 <=> c.Rd = c.Wr
<1>1. /\ c.Rd \in Int /\ c.Wr \in Int /\ c.SentSize \in Int /\ c.enabled \in Int
      /\ 0 <= c.Rd /\ c.Rd < FIFO_SIZE /\ 0 <= c.Wr /\ c.Wr < FIFO_SIZE
  BY Positions DEF Ctx, Layout
<1>2. FirstPart(c) \in Nat
  BY <1>1 DEF FirstPart, Layout
<1>3. /\ c.unchunk = "none" => FirstPart(c) = c.Wr - c.Rd
      /\ c.unchunk # "none" => 1 <= c.Wr /\ c.Wr < c.Rd /\ c.Rd + FirstPart(c) < FIFO_SIZE
  BY DEF FirstPart, Layout
<1>4. /\ c.unchunk = "none" => Length(c) = FirstPart(c)
      /\ c.unchunk # "none" => Length(c) = FirstPart(c) + c.Wr
  BY DEF Length
<1>5. /\ Length(c) \in Nat /\ FirstPart(c) <= Length(c) /\ Length(c) < FIFO_SIZE
      /\ c.Rd + FirstPart(c) < FIFO_SIZE /\ (Length(c) = 0 <=> c.Rd = c.Wr)
  BY <1>1, <1>2, <1>3, <1>4, Positions
<1>6. \A i \in 1 .. Length(c) : Cell(c, i) \in Int /\ 0 <= Cell(c, i) /\ Cell(c, i) < FIFO_SIZE
  BY <1>1, <1>2, <1>3, <1>4, Positions DEF Cell
<1>7. \A i, j \in 1 .. Length(c) : Cell(c, i) = Cell(c, j) => i = j
  BY <1>1, <1>2, <1>3, <1>4 DEF Cell
<1>8. \A i \in 1 .. FirstPart(c) : Cell(c, i) = c.Rd + i - 1
  BY <1>1, <1>2 DEF Cell
<1> QED BY <1>2, <1>5, <1>6, <1>7, <1>8, Positions

(* TRACE_AllocateBufer() appends a text: in one piece, with room for a NUL *)
(* behind it, and moves no byte that is there.                             *)
LEMMA AllocateAppends ==
  ASSUME NEW c \in Ctx, Layout(c), NEW size \in Nat, size > 0, Fits(c, size),
         NEW d, d = AllocateBufer(c, size)
  PROVE  /\ Layout(d) /\ Length(d) = Length(c) + size /\ FirstPart(c) <= FirstPart(d)
         /\ \A i \in 1 .. Length(c) : Cell(d, i) = Cell(c, i)
         /\ \A j \in 1 .. size : Cell(d, Length(c) + j) = WritePos(c, size) + j - 1
         /\ WritePos(c, size) \in Cells /\ WritePos(c, size) + size \in Cells
         /\ \A i \in 1 .. Length(d) : Cell(d, i) # WritePos(c, size) + size
         /\ d.Rd = c.Rd /\ d.SentSize = c.SentSize /\ d.Rd # d.Wr
         /\ d.unchunk = "transfer" <=> c.unchunk = "transfer"
<1> DEFINE p == WritePos(c, size)
<1>1. /\ c.Rd \in Int /\ c.Wr \in Int /\ c.SentSize \in Int /\ c.enabled \in Int
      /\ 0 <= c.Rd /\ c.Rd < FIFO_SIZE /\ 0 <= c.Wr /\ c.Wr < FIFO_SIZE
      /\ c.unchunk \in {"none", "detected", "transfer"}
  BY Positions DEF Ctx, Layout
<1>2. /\ FirstPart(c) \in Nat /\ Length(c) \in Nat /\ FirstPart(c) <= Length(c)
  BY LayoutFacts
<1>3. /\ Wraps(c, size) => c.unchunk = "none"
      /\ c.unchunk = "none" <=> c.Wr >= c.Rd
  BY <1>1 DEF Wraps, Layout, FirstPart
<1>4. p \in Int /\ 0 <= p /\ p + size < FIFO_SIZE
  BY <1>1, Positions DEF WritePos, Wraps, Fits, Freesize
<1>5. (p + size) % FIFO_SIZE = p + size /\ p \in Cells /\ p + size \in Cells
  BY <1>4, Positions
<1>6. /\ d.Wr = p + size /\ d.Rd = c.Rd /\ d.SentSize = c.SentSize
      /\ d.unchunk = IF Wraps(c, size) THEN "detected" ELSE c.unchunk
      /\ d.enabled = IF Wraps(c, size) THEN c.Wr ELSE c.enabled
  <2> DEFINE w == IF Wraps(c, size)
                  THEN [c EXCEPT !.unchunk = "detected", !.enabled = c.Wr] ELSE c
  <2>1. /\ w \in Ctx /\ w.Rd = c.Rd /\ w.SentSize = c.SentSize
        /\ w.unchunk = IF Wraps(c, size) THEN "detected" ELSE c.unchunk
        /\ w.enabled = IF Wraps(c, size) THEN c.Wr ELSE c.enabled
    BY DEF Ctx
  <2>2. d = [w EXCEPT !.Wr = p + size]
    BY <1>5 DEF AllocateBufer
  <2> HIDE DEF w, p
  <2> QED BY <2>1, <2>2 DEF Ctx
<1> HIDE DEF p
<1>7. CASE Wraps(c, size)
  <2>1. /\ c.Wr >= c.Rd /\ c.Rd > size /\ p = 0 /\ c.unchunk = "none"
        /\ FirstPart(c) = c.Wr - c.Rd /\ Length(c) = FirstPart(c)
    BY <1>3, <1>7 DEF Wraps, WritePos, p, FirstPart, Length
  <2>2. d.Wr = size /\ d.unchunk = "detected" /\ d.enabled = c.Wr
    BY <1>1, <1>6, <1>7, <2>1
  <2>3. FirstPart(d) = FirstPart(c) /\ Length(d) = Length(c) + size
    BY <1>6, <2>1, <2>2 DEF FirstPart, Length
  <2>4. Layout(d)
    BY <1>1, <1>5, <1>6, <2>1, <2>2, <2>3, <1>2 DEF Layout
  <2>5. \A i \in 1 .. Length(c) : Cell(d, i) = Cell(c, i)
    BY <1>1, <1>2, <1>6, <2>1, <2>3 DEF Cell
  <2>6. \A j \in 1 .. size : Cell(d, Length(c) + j) = p + j - 1
    BY <1>1, <1>2, <1>6, <2>1, <2>3 DEF Cell
  <2>7. \A i \in 1 .. Length(d) : Cell(d, i) # p + size
    BY <1>1, <1>2, <1>6, <2>1, <2>3 DEF Cell
  <2> QED BY <1>1, <1>2, <1>5, <1>6, <2>1, <2>2, <2>3, <2>4, <2>5, <2>6, <2>7 DEF p
<1>8. CASE ~Wraps(c, size)
  <2>1. p = c.Wr /\ d.unchunk = c.unchunk /\ d.enabled = c.enabled /\ d.Wr = c.Wr + size
    BY <1>6, <1>8 DEF WritePos, p
  <2>2. c.Wr < c.Rd => c.Wr + size < c.Rd
    BY <1>1, <1>8 DEF Fits, Freesize
  <2>3. CASE c.unchunk = "none"
    <3>1. FirstPart(c) = c.Wr - c.Rd /\ Length(c) = FirstPart(c)
          /\ FirstPart(d) = FirstPart(c) + size /\ Length(d) = FirstPart(d)
      BY <1>1, <1>6, <2>1, <2>3 DEF FirstPart, Length
    <3>2. Layout(d)
      BY <1>1, <1>2, <1>5, <1>6, <2>1, <2>3, <3>1 DEF Layout
    <3>3. \A i \in 1 .. Length(c) : Cell(d, i) = Cell(c, i)
      BY <1>1, <1>2, <1>6, <3>1 DEF Cell
    <3>4. \A j \in 1 .. size : Cell(d, Length(c) + j) = p + j - 1
      BY <1>1, <1>2, <1>6, <2>1, <3>1 DEF Cell
    <3>5. \A i \in 1 .. Length(d) : Cell(d, i) # p + size
      BY <1>1, <1>2, <1>6, <2>1, <3>1 DEF Cell
    <3> QED BY <1>1, <1>2, <1>3, <1>5, <1>6, <2>1, <2>3, <3>1, <3>2, <3>3, <3>4, <3>5 DEF p
  <2>4. CASE c.unchunk # "none"
    <3>1. FirstPart(d) = FirstPart(c) /\ Length(c) = FirstPart(c) + c.Wr
          /\ Length(d) = Length(c) + size
      BY <1>1, <1>2, <1>6, <2>1, <2>4 DEF FirstPart, Length
    <3>2. c.Wr + size < c.Rd /\ c.Rd + FirstPart(c) < FIFO_SIZE /\ 1 <= c.Wr
      BY <2>2, <2>4 DEF Layout
    <3>3. Layout(d)
      BY <1>1, <1>2, <1>5, <1>6, <2>1, <2>4, <3>1, <3>2 DEF Layout
    <3>4. \A i \in 1 .. Length(c) : Cell(d, i) = Cell(c, i)
      BY <1>1, <1>2, <1>6, <3>1 DEF Cell
    <3>5. \A j \in 1 .. size : Cell(d, Length(c) + j) = p + j - 1
      BY <1>1, <1>2, <1>6, <2>1, <3>1 DEF Cell
    <3>6. \A i \in 1 .. Length(d) : Cell(d, i) # p + size
      BY <1>1, <1>2, <1>6, <2>1, <3>1, <3>2 DEF Cell
    <3> QED BY <1>1, <1>2, <1>5, <1>6, <2>1, <3>1, <3>2, <3>3, <3>4, <3>5, <3>6 DEF p
  <2> QED BY <2>3, <2>4
<1> QED BY <1>7, <1>8

(* The next transfer is a piece of the oldest bytes; claiming it moves no  *)
(* byte.                                                                   *)
LEMMA ClaimTakesOldest ==
  ASSUME NEW c \in Ctx, Layout(c), c.unchunk # "transfer", c.Rd # c.Wr,
         NEW e, e = NextTransfer(c)
  PROVE  /\ Layout(e) /\ Length(e) = Length(c)
         /\ \A i \in 1 .. Length(c) : Cell(e, i) = Cell(c, i)
         /\ 1 <= e.SentSize /\ e.SentSize <= FirstPart(e)
<1>1. /\ c.Rd \in Int /\ c.Wr \in Int /\ c.SentSize \in Int /\ c.enabled \in Int
      /\ 0 <= c.Rd /\ c.Rd < FIFO_SIZE /\ 0 <= c.Wr /\ c.Wr < FIFO_SIZE
      /\ c.unchunk \in {"none", "detected"} /\ 0 \in Cells /\ 0 \in Int
  BY Positions DEF Ctx, Layout
<1>2. FirstPart(c) \in Nat /\ Length(c) \in Nat
  BY LayoutFacts
<1>3. CASE c.unchunk = "none"
  <2>1. c.Wr > c.Rd /\ FirstPart(c) = c.Wr - c.Rd
    BY <1>1, <1>3 DEF Layout, FirstPart
  <2>2. e = [c EXCEPT !.SentSize = c.Wr - c.Rd]
    BY <1>3, <2>1 DEF NextTransfer
  <2>3. e.Rd = c.Rd /\ e.Wr = c.Wr /\ e.unchunk = "none" /\ e.SentSize = c.Wr - c.Rd
    BY <1>3, <2>2 DEF Ctx
  <2>4. FirstPart(e) = FirstPart(c) /\ Length(e) = Length(c)
    BY <1>3, <2>3 DEF FirstPart, Length
  <2> QED BY <1>1, <1>2, <1>3, <2>1, <2>3, <2>4 DEF Layout, Cell
<1>4. CASE c.unchunk = "detected" /\ c.enabled > c.Rd
  <2>1. e = [c EXCEPT !.unchunk = "transfer", !.SentSize = c.enabled - c.Rd, !.enabled = 0]
    BY <1>4 DEF NextTransfer, Ctx
  <2>2. e.Rd = c.Rd /\ e.Wr = c.Wr /\ e.unchunk = "transfer" /\ e.SentSize = c.enabled - c.Rd
    BY <2>1 DEF Ctx
  <2>3. FirstPart(e) = FirstPart(c) /\ Length(e) = Length(c) /\ FirstPart(c) = c.enabled - c.Rd
    BY <1>1, <1>4, <2>2 DEF FirstPart, Length
  <2> QED BY <1>1, <1>2, <1>4, <2>2, <2>3 DEF Layout, Cell
<1>5. CASE c.unchunk = "detected" /\ ~(c.enabled > c.Rd)
  <2>1. FirstPart(c) = 0 /\ Length(c) = c.Wr /\ 1 <= c.Wr /\ c.Wr < c.Rd
    BY <1>1, <1>5 DEF FirstPart, Length, Layout
  <2> DEFINE u == [c EXCEPT !.unchunk = "none", !.Rd = 0, !.enabled = 0]
  <2>2. u \in Ctx /\ u.Rd = 0 /\ u.Wr = c.Wr /\ u.unchunk = "none"
    <3>1. ASSUME NEW a \in Int
          PROVE  /\ [c EXCEPT !.unchunk = "none", !.Rd = a, !.enabled = a] \in Ctx
                 /\ [c EXCEPT !.unchunk = "none", !.Rd = a, !.enabled = a].Rd = a
                 /\ [c EXCEPT !.unchunk = "none", !.Rd = a, !.enabled = a].Wr = c.Wr
                 /\ [c EXCEPT !.unchunk = "none", !.Rd = a, !.enabled = a].unchunk = "none"
      BY DEF Ctx
    <3> QED BY <3>1, <1>1
  <2>3. e = [u EXCEPT !.SentSize = c.Wr]
    <3> DEFINE v == CASE c.unchunk # "detected" -> c
                      [] c.unchunk = "detected" /\ c.enabled > c.Rd ->
                           [c EXCEPT !.unchunk = "transfer",
                                     !.SentSize = c.enabled - c.Rd, !.enabled = 0]
                      [] OTHER -> [c EXCEPT !.unchunk = "none", !.Rd = 0, !.enabled = 0]
               Piece(r) == IF r.Wr > r.Rd THEN r.Wr - r.Rd ELSE FIFO_SIZE - r.Rd
    <3>1. v = u
      BY <1>5
    <3>2. e = IF v.unchunk = "none" THEN [v EXCEPT !.SentSize = Piece(v)] ELSE v
      BY DEF NextTransfer
    <3> HIDE DEF u, v
    <3>3. Piece(u) = c.Wr
      BY <1>1, <2>1, <2>2
    <3> HIDE DEF Piece
    <3>4. e = [u EXCEPT !.SentSize = Piece(u)]
      BY <2>2, <3>1, <3>2
    <3> QED BY <3>3, <3>4
  <2> HIDE DEF u
  <2>4. e.Rd = 0 /\ e.Wr = c.Wr /\ e.unchunk = "none" /\ e.SentSize = c.Wr
    BY <2>2, <2>3 DEF Ctx
  <2>5. FirstPart(e) = c.Wr /\ Length(e) = c.Wr
    BY <1>1, <2>4 DEF FirstPart, Length
  <2>6. Layout(e)
    BY <1>1, <2>1, <2>4, <2>5, Positions DEF Layout
  <2>7. \A i \in 1 .. Length(c) : Cell(e, i) = Cell(c, i)
    BY <1>1, <2>1, <2>4, <2>5 DEF Cell
  <2> QED BY <1>1, <2>1, <2>4, <2>5, <2>6, <2>7
<1> QED BY <1>1, <1>3, <1>4, <1>5

(* TRACE_TxCpltCallback() drops the bytes of the transfer, and no other.   *)
LEMMA TransferDropsOldest ==
  ASSUME NEW c \in Ctx, Layout(c), 1 <= c.SentSize, c.SentSize <= FirstPart(c),
         NEW f, f = AfterTransfer(c)
  PROVE  /\ Layout(f) /\ Length(f) = Length(c) - c.SentSize
         /\ \A i \in 1 .. Length(f) : Cell(f, i) = Cell(c, i + c.SentSize)
         /\ f.unchunk # "transfer"
<1>1. /\ c.Rd \in Int /\ c.Wr \in Int /\ c.SentSize \in Int /\ c.enabled \in Int
      /\ 0 <= c.Rd /\ c.Rd < FIFO_SIZE /\ 0 <= c.Wr /\ c.Wr < FIFO_SIZE
      /\ c.unchunk \in {"none", "detected", "transfer"} /\ 0 \in Cells /\ 0 \in Int
  BY Positions DEF Ctx, Layout
<1>2. FirstPart(c) \in Nat /\ Length(c) \in Nat /\ c.Rd + FirstPart(c) < FIFO_SIZE
  BY LayoutFacts
<1>3. CASE c.unchunk = "transfer"
  <2>1. f = [c EXCEPT !.unchunk = "none", !.Rd = 0]
    BY <1>3 DEF AfterTransfer
  <2>2. f.Rd = 0 /\ f.Wr = c.Wr /\ f.unchunk = "none"
    BY <2>1 DEF Ctx
  <2>3. FirstPart(c) = c.SentSize /\ Length(c) = c.SentSize + c.Wr
    BY <1>3 DEF FirstPart, Length
  <2>4. FirstPart(f) = c.Wr /\ Length(f) = c.Wr
    BY <1>1, <2>2 DEF FirstPart, Length
  <2>5. Layout(f)
    BY <1>1, <2>2, <2>4, Positions DEF Layout
  <2>6. \A i \in 1 .. Length(f) : Cell(f, i) = Cell(c, i + c.SentSize)
    BY <1>1, <2>2, <2>3, <2>4 DEF Cell
  <2> QED BY <1>1, <2>2, <2>3, <2>4, <2>5, <2>6
<1>4. CASE c.unchunk # "transfer"
  <2>1. (c.Rd + c.SentSize) % FIFO_SIZE = c.Rd + c.SentSize /\ c.Rd + c.SentSize \in Cells
    BY <1>1, <1>2, Positions
  <2>2. f = [c EXCEPT !.Rd = c.Rd + c.SentSize]
    BY <1>4, <2>1 DEF AfterTransfer, Ctx
  <2>3. f.Rd = c.Rd + c.SentSize /\ f.Wr = c.Wr /\ f.unchunk = c.unchunk /\ f.enabled = c.enabled
    BY <1>1, <2>2 DEF Ctx
  <2>4. FirstPart(f) = FirstPart(c) - c.SentSize /\ Length(f) = Length(c) - c.SentSize
    BY <1>1, <1>2, <1>4, <2>3 DEF FirstPart, Length
  <2>5. Layout(f)
    BY <1>1, <1>2, <2>1, <2>3, <2>4 DEF Layout
  <2>6. \A i \in 1 .. Length(f) : Cell(f, i) = Cell(c, i + c.SentSize)
    BY <1>1, <1>2, <2>3, <2>4 DEF Cell, Length
  <2> QED BY <1>4, <2>3, <2>4, <2>5, <2>6
<1> QED BY <1>3, <1>4

-----------------------------------------------------------------------------
(* What the cells hold.                                                    *)
Byte == {"thread", "isr"} \X Texts \X Nat

(* The cell of an accepted byte holds it, or the NUL of a writer that a    *)
(* radio or RTC interrupt preempted.                                       *)
Sent(cell, byte) == cell = byte \/ (cell = Nul /\ byte[1] = "isr" /\ byte[3] = 1)

(* Every accepted byte is in its cell, but for those still to be written.  *)
Holds(c, b, q, hole) ==
  \A i \in 1 .. Len(q) : i \in hole \/ Sent(b[Cell(c, i)], q[i])

(* Locking moves nothing. *)
LEMMA SamePlaces ==
  ASSUME NEW c \in Ctx, NEW d \in Ctx, d.Rd = c.Rd, d.Wr = c.Wr, d.SentSize = c.SentSize,
         d.unchunk = c.unchunk, d.enabled = c.enabled
  PROVE  /\ FirstPart(d) = FirstPart(c) /\ Length(d) = Length(c)
         /\ \A i : Cell(d, i) = Cell(c, i)
         /\ Layout(d) <=> Layout(c)
<1>1. FirstPart(d) = FirstPart(c)
  BY DEF FirstPart
<1>2. Length(d) = Length(c)
  BY <1>1 DEF Length
<1>3. \A i : Cell(d, i) = Cell(c, i)
  BY <1>1 DEF Cell
<1> QED BY <1>1, <1>2, <1>3 DEF Layout

(* TRACE_Lock() and TRACE_UnLock(). *)
LEMMA LockMoves ==
  ASSUME NEW c \in Ctx, NEW d, d = Lock(c) \/ d = UnLock(c)
  PROVE  /\ d \in Ctx /\ d.Rd = c.Rd /\ d.Wr = c.Wr /\ d.SentSize = c.SentSize
         /\ d.unchunk = c.unchunk /\ d.enabled = c.enabled
BY DEF Lock, UnLock, Ctx

(* In the buffer, the cell behind a byte is that of the next byte or free. *)
LEMMA NextCell ==
  ASSUME NEW c \in Ctx, Layout(c), NEW i \in 1 .. Length(c), NEW k \in 1 .. Length(c),
         Cell(c, i) = Cell(c, k) + 1
  PROVE  i = k + 1
<1>1. /\ c.Rd \in Int /\ c.Wr \in Int /\ FirstPart(c) \in Nat /\ Length(c) \in Nat
  BY LayoutFacts DEF Ctx
<1>2. /\ c.unchunk = "none" => Length(c) = FirstPart(c)
      /\ c.unchunk # "none" => Length(c) = FirstPart(c) + c.Wr /\ c.Wr < c.Rd
  BY DEF Length, Layout
<1>3. i \in Int /\ k \in Int /\ 1 <= i /\ i <= Length(c) /\ 1 <= k /\ k <= Length(c)
  BY <1>1
<1> QED BY <1>1, <1>2, <1>3 DEF Cell

(* A number for a new text is left: every waiting text has a byte in the   *)
(* FIFO, and there are as many numbers as cells.                           *)
LEMMA FreshTextExists ==
  ASSUME pending \in Seq(Byte), Len(pending) < FIFO_SIZE
  PROVE  FreshText \in Texts
<1> DEFINE n    == Len(pending)
           f    == [i \in 1 .. n |-> pending[i][2]]
           used == {pending[i][2] : i \in 1 .. n}
<1>1. n \in Nat /\ n < FIFO_SIZE /\ FIFO_SIZE \in Nat /\ DOMAIN pending = 1 .. n
  BY LenProperties, Positions
<1>2. f \in Surjection(1 .. n, used)
  BY DEF Surjection
<1>3. IsFiniteSet(1 .. n) /\ Cardinality(1 .. n) <= n
  <2>1. n \in Int /\ 1 \in Int
    BY <1>1
  <2> HIDE DEF n
  <2>2. IsFiniteSet(1 .. n) /\ Cardinality(1 .. n) = IF 1 > n THEN 0 ELSE n - 1 + 1
    BY <2>1, FS_Interval
  <2> QED BY <1>1, <2>2
<1>4. IsFiniteSet(used) /\ Cardinality(used) <= n /\ Cardinality(used) \in Nat
  <2> HIDE DEF f, used, n
  <2>1. IsFiniteSet(used) /\ Cardinality(used) <= Cardinality(1 .. n)
    BY <1>2, <1>3, FS_Surjection
  <2>2. Cardinality(used) \in Nat /\ Cardinality(1 .. n) \in Nat
    BY <2>1, <1>3, FS_CardinalityType
  <2> QED BY <1>1, <1>3, <2>1, <2>2
<1>5. IsFiniteSet(Texts) /\ Cardinality(Texts) = FIFO_SIZE
  BY <1>1, Positions, FS_Interval DEF Texts
<1>6. ~(Texts \subseteq used)
  <2> SUFFICES ASSUME Texts \subseteq used PROVE FALSE
    OBVIOUS
  <2>1. Cardinality(Texts) <= Cardinality(used)
    BY <1>4, FS_Subset
  <2> HIDE DEF used
  <2> QED BY <1>1, <1>4, <1>5, <2>1
<1>7. PICK t \in Texts : t \notin used
  BY <1>6
<1>8. \A i \in DOMAIN pending : pending[i][2] # t
  BY <1>1, <1>7
<1> QED BY <1>8 DEF FreshText

(* The bytes of a new text join behind those that wait. *)
LEMMA TextJoins ==
  ASSUME NEW q \in Seq(Byte), NEW size \in Nat, NEW who \in {"thread", "isr"},
         NEW t \in Texts
  PROVE  /\ q \o TextOf(who, t, size) \in Seq(Byte)
         /\ Len(q \o TextOf(who, t, size)) = Len(q) + size
         /\ \A i \in 1 .. Len(q) : (q \o TextOf(who, t, size))[i] = q[i]
         /\ \A j \in 1 .. size : (q \o TextOf(who, t, size))[Len(q) + j] = <<who, t, j>>
<1> DEFINE x == TextOf(who, t, size)
           r == q \o x
<1>1. x \in Seq(Byte) /\ Len(x) = size /\ \A j \in 1 .. size : x[j] = <<who, t, j>>
  <2>1. \A j \in 1 .. size : <<who, t, j>> \in Byte
    BY DEF Byte
  <2>2. x \in [1 .. size -> Byte]
    BY <2>1 DEF TextOf
  <2> QED BY <2>2, SeqDef DEF TextOf
<1>2. Len(q) \in Nat
  BY LenProperties
<1> HIDE DEF x, r
<1>3. /\ q \o x \in Seq(Byte) /\ Len(q \o x) = Len(q) + Len(x)
      /\ \A i \in 1 .. Len(q) + Len(x) :
           (q \o x)[i] = IF i <= Len(q) THEN q[i] ELSE x[i - Len(q)]
  BY <1>1, ConcatProperties
<1>4. r = q \o x
  BY DEF r
<1>5. \A i \in 1 .. Len(q) : r[i] = q[i]
  BY <1>1, <1>2, <1>3, <1>4
<1>6. ASSUME NEW j \in 1 .. size PROVE r[Len(q) + j] = <<who, t, j>>
  <2>1. Len(q) + j \in 1 .. Len(q) + Len(x) /\ ~(Len(q) + j <= Len(q)) /\ Len(q) + j - Len(q) = j
    BY <1>1, <1>2
  <2>2. r[Len(q) + j] = x[Len(q) + j - Len(q)]
    BY <1>3, <1>4, <2>1
  <2> QED BY <1>1, <2>1, <2>2
<1> QED BY <1>1, <1>3, <1>4, <1>5, <1>6 DEF r, x

(* An interrupt that traces writes its own cells and the free one behind.  *)
LEMMA IsrKeepsBytes ==
  ASSUME NEW c \in Ctx, Layout(c), NEW q \in Seq(Byte), Len(q) = Length(c),
         NEW size \in Nat, size > 0, Fits(c, size), NEW d, d = AllocateBufer(c, size),
         NEW t \in Texts, NEW b, NEW hole, Holds(c, b, q, hole)
  PROVE  Holds(d, Written(b, WritePos(c, size), "isr", t, size),
               q \o TextOf("isr", t, size), hole)
<1> DEFINE p == WritePos(c, size)
           w == Written(b, p, "isr", t, size)
           r == q \o TextOf("isr", t, size)
<1>1. /\ Length(d) = Length(c) + size
      /\ \A i \in 1 .. Length(c) : Cell(d, i) = Cell(c, i)
      /\ \A j \in 1 .. size : Cell(d, Length(c) + j) = p + j - 1
      /\ p \in Cells /\ p + size \in Cells
      /\ \A i \in 1 .. Length(d) : Cell(d, i) # p + size
      /\ Layout(d)
  BY AllocateAppends
<1>2. d \in Ctx
  BY PositionsOnly
<1>3. /\ Length(c) \in Nat
      /\ \A i \in 1 .. Length(d) : Cell(d, i) \in Cells
      /\ \A i, j \in 1 .. Length(d) : Cell(d, i) = Cell(d, j) => i = j
  BY <1>1, <1>2, LayoutFacts
<1>4. /\ Len(r) = Length(d) /\ \A i \in 1 .. Length(c) : r[i] = q[i]
      /\ \A j \in 1 .. size : r[Length(c) + j] = <<"isr", t, j>>
  <2>1. "isr" \in {"thread", "isr"}
    OBVIOUS
  <2>2. /\ Len(r) = Len(q) + size /\ \A i \in 1 .. Len(q) : r[i] = q[i]
        /\ \A j \in 1 .. size : r[Len(q) + j] = <<"isr", t, j>>
    BY <2>1, TextJoins
  <2> HIDE DEF r
  <2> QED BY <1>1, <2>2
<1>5. \A x \in Cells : w[x] = IF x \in p .. p + size - 1 THEN <<"isr", t, x - p + 1>>
                              ELSE IF x = p + size THEN Nul ELSE b[x]
  BY DEF Written
<1>6. p \in Int /\ \A x \in Cells : x \in Int
  BY <1>1, Positions
<1> HIDE DEF p, w, r
<1>7. ASSUME NEW i \in 1 .. Length(c), i \notin hole PROVE Sent(w[Cell(d, i)], r[i])
  <2>1. i \in 1 .. Length(d) /\ Cell(d, i) \in Cells /\ Cell(d, i) # p + size
    BY <1>1, <1>3
  <2>2. Cell(d, i) \notin p .. p + size - 1
    <3> SUFFICES ASSUME Cell(d, i) \in p .. p + size - 1 PROVE FALSE
      OBVIOUS
    <3> DEFINE j == Cell(d, i) - p + 1
    <3>1. j \in 1 .. size /\ p + j - 1 = Cell(d, i) /\ Length(c) + j \in 1 .. Length(d)
          /\ Length(c) + j # i
      BY <1>1, <1>3, <1>6, <2>1
    <3>2. Cell(d, Length(c) + j) = Cell(d, i)
      BY <1>1, <3>1
    <3> QED BY <1>3, <2>1, <3>1, <3>2
  <2>3. w[Cell(d, i)] = b[Cell(c, i)]
    BY <1>1, <1>5, <2>1, <2>2
  <2>4. Sent(b[Cell(c, i)], q[i])
    BY <1>7 DEF Holds
  <2> QED BY <1>4, <2>3, <2>4
<1>8. ASSUME NEW j \in 1 .. size PROVE Sent(w[Cell(d, Length(c) + j)], r[Length(c) + j])
  <2>1. p + j - 1 \in p .. p + size - 1 /\ p + j - 1 - p + 1 = j
        /\ Length(c) + j \in 1 .. Length(d)
    BY <1>1, <1>3, <1>6
  <2>2. Cell(d, Length(c) + j) = p + j - 1 /\ p + j - 1 \in Cells
    BY <1>1, <1>3, <2>1
  <2>3. w[p + j - 1] = <<"isr", t, j>>
    <3> DEFINE x == p + j - 1
    <3>1. x \in Cells /\ x \in p .. p + size - 1 /\ x - p + 1 = j
      BY <1>6, <2>1, <2>2
    <3> HIDE DEF x
    <3>2. w[x] = <<"isr", t, x - p + 1>>
      BY <1>5, <3>1
    <3> QED BY <3>1, <3>2 DEF x
  <2> QED BY <1>4, <2>2, <2>3 DEF Sent
<1>9. ASSUME NEW i \in 1 .. Length(d), i \notin hole PROVE Sent(w[Cell(d, i)], r[i])
  <2>1. CASE i <= Length(c)
    BY <1>3, <1>7, <1>9, <2>1
  <2>2. CASE i > Length(c)
    <3> DEFINE j == i - Length(c)
    <3>1. j \in 1 .. size /\ Length(c) + j = i
      BY <1>1, <1>3, <2>2
    <3>2. Sent(w[Cell(d, Length(c) + j)], r[Length(c) + j])
      BY <1>8, <3>1
    <3> QED BY <3>1, <3>2
  <2> QED BY <1>3, <2>1, <2>2
<1> QED BY <1>4, <1>9 DEF Holds, w, r, p

(* The thread that writes the text it allocated fills its cells; its NUL   *)
(* lands on a free cell, or on the first byte of the text behind it, which *)
(* is an interrupt's.                                                      *)
LEMMA ThreadFillsHole ==
  ASSUME NEW c \in Ctx, Layout(c), NEW q \in Seq(Byte), Len(q) = Length(c),
         NEW a \in Nat, NEW size \in Nat, size > 0, NEW pos \in Cells, NEW t, NEW b,
         a + size <= Len(q),
         \A j \in 1 .. size : q[a + j] = <<"thread", t, j>> /\ Cell(c, a + j) = pos + j - 1,
         a + size < Len(q) => q[a + size + 1][1] = "isr" /\ q[a + size + 1][3] = 1,
         Holds(c, b, q, a + 1 .. a + size)
  PROVE  Holds(c, Written(b, pos, "thread", t, size), q, {})
<1> DEFINE w == Written(b, pos, "thread", t, size)
<1>1. /\ \A i \in 1 .. Len(q) : Cell(c, i) \in Cells
      /\ \A i, j \in 1 .. Len(q) : Cell(c, i) = Cell(c, j) => i = j
      /\ Len(q) \in Nat
  BY LayoutFacts
<1>2. pos \in Int /\ \A x \in Cells : x \in Int
  BY Positions
<1>3. \A x \in Cells : w[x] = IF x \in pos .. pos + size - 1 THEN <<"thread", t, x - pos + 1>>
                              ELSE IF x = pos + size THEN Nul ELSE b[x]
  BY DEF Written
<1> HIDE DEF w
<1>4. ASSUME NEW i \in 1 .. Len(q), i \in a + 1 .. a + size PROVE Sent(w[Cell(c, i)], q[i])
  <2> DEFINE j == i - a
  <2>1. j \in 1 .. size /\ a + j = i
    BY <1>1, <1>4
  <2>2. q[i] = <<"thread", t, j>> /\ Cell(c, i) = pos + j - 1
    BY <2>1
  <2>3. pos + j - 1 \in pos .. pos + size - 1 /\ pos + j - 1 - pos + 1 = j
    BY <1>2, <2>1
  <2> HIDE DEF j
  <2>4. w[Cell(c, i)] = <<"thread", t, j>>
    <3> DEFINE x == Cell(c, i)
    <3>1. x \in Cells /\ x \in pos .. pos + size - 1 /\ x - pos + 1 = j
      BY <1>1, <1>2, <2>1, <2>2, <2>3
    <3> HIDE DEF x
    <3>2. w[x] = <<"thread", t, x - pos + 1>>
      BY <1>3, <3>1
    <3> QED BY <3>1, <3>2 DEF x
  <2> QED BY <2>2, <2>4 DEF Sent
<1>5. ASSUME NEW i \in 1 .. Len(q), i \notin a + 1 .. a + size PROVE Sent(w[Cell(c, i)], q[i])
  <2>1. Sent(b[Cell(c, i)], q[i])
    BY <1>5 DEF Holds
  <2>2. Cell(c, i) \notin pos .. pos + size - 1
    <3> SUFFICES ASSUME Cell(c, i) \in pos .. pos + size - 1 PROVE FALSE
      OBVIOUS
    <3> DEFINE j == Cell(c, i) - pos + 1
    <3>1. j \in 1 .. size /\ pos + j - 1 = Cell(c, i) /\ a + j \in 1 .. Len(q) /\ a + j # i
      BY <1>1, <1>2, <1>5
    <3>2. Cell(c, a + j) = Cell(c, i)
      BY <3>1
    <3> QED BY <1>1, <3>1, <3>2
  <2>3. CASE Cell(c, i) # pos + size
    <3>1. w[Cell(c, i)] = b[Cell(c, i)]
      BY <1>1, <1>3, <2>2, <2>3
    <3> QED BY <2>1, <3>1
  <2>4. CASE Cell(c, i) = pos + size
    <3>1. w[Cell(c, i)] = Nul
      BY <1>1, <1>3, <2>2, <2>4
    <3>2. a + size \in 1 .. Length(c) /\ size \in 1 .. size
      BY <1>1
    <3>3. Cell(c, a + size) = pos + size - 1
      BY <3>2
    <3>4. Cell(c, i) = Cell(c, a + size) + 1
      BY <1>2, <2>4, <3>3
    <3>5. i = a + size + 1
      BY <3>2, <3>4, NextCell
    <3>6. a + size < Len(q)
      BY <1>1, <3>5
    <3> QED BY <3>1, <3>5, <3>6 DEF Sent
  <2> QED BY <2>3, <2>4
<1> QED BY <1>4, <1>5 DEF Holds, w

(* What a transfer of n cells leaves of the buffer. *)
Cleared(b, from, n) ==
  [x \in Cells |-> IF x \in from .. from + n - 1 THEN Stale ELSE b[x]]

(* A finished transfer clears the cells it sent, and no other.             *)
LEMMA TransferKeepsBytes ==
  ASSUME NEW c \in Ctx, Layout(c), 1 <= c.SentSize, c.SentSize <= FirstPart(c),
         NEW q \in Seq(Byte), Len(q) = Length(c), NEW b, NEW hole, Holds(c, b, q, hole)
  PROVE  LET r == SubSeq(q, c.SentSize + 1, Len(q))
             f == AfterTransfer(c)
         IN  /\ r \in Seq(Byte) /\ Len(r) = Length(f)
             /\ \A i \in 1 .. Len(r) : r[i] = q[i + c.SentSize] /\ i + c.SentSize \in 1 .. Len(q)
             /\ \A h : (\A i \in 1 .. Len(r) : i + c.SentSize \in hole => i \in h)
                      => Holds(f, Cleared(b, c.Rd, c.SentSize), r, h)
<1> DEFINE s == c.SentSize
           r == SubSeq(q, c.SentSize + 1, Len(q))
           f == AfterTransfer(c)
           w == Cleared(b, c.Rd, c.SentSize)
<1>0. w = [x \in Cells |-> IF x \in c.Rd .. c.Rd + s - 1 THEN Stale ELSE b[x]]
      /\ r = SubSeq(q, s + 1, Len(q))
  BY DEF Cleared
<1>1. /\ Length(f) = Length(c) - s
      /\ \A i \in 1 .. Length(f) : Cell(f, i) = Cell(c, i + s)
  BY TransferDropsOldest
<1>2. /\ FirstPart(c) \in Nat /\ Length(c) \in Nat /\ FirstPart(c) <= Length(c)
      /\ \A i \in 1 .. Length(c) : Cell(c, i) \in Cells
      /\ \A i, j \in 1 .. Length(c) : Cell(c, i) = Cell(c, j) => i = j
      /\ \A i \in 1 .. FirstPart(c) : Cell(c, i) = c.Rd + i - 1
  BY LayoutFacts
<1>3. s \in Int /\ c.Rd \in Int /\ 1 <= s /\ s <= FirstPart(c)
  BY DEF Ctx
<1> HIDE DEF s, r, f, w
<1>4. /\ r \in Seq(Byte) /\ Len(r) = Length(f)
      /\ \A i \in 1 .. Length(f) : r[i] = q[i + s]
  <2>1. s + 1 \in 1 .. Len(q) + 1 /\ Len(q) \in Nat
    BY <1>2, <1>3
  <2>2. \A i \in s + 1 .. Len(q) : q[i] \in Byte
    BY <2>1, <1>3, ElementOfSeq
  <2>3. /\ r \in Seq(Byte)
        /\ Len(r) = IF s + 1 <= Len(q) THEN Len(q) - (s + 1) + 1 ELSE 0
        /\ \A i \in 1 .. Len(q) - (s + 1) + 1 : r[i] = q[s + 1 + i - 1]
    <3> DEFINE m == s + 1
               n == Len(q)
    <3>1. m \in Int /\ n \in Int /\ r = SubSeq(q, m, n) /\ \A i \in m .. n : q[i] \in Byte
      BY <1>0, <2>1, <2>2, <1>3
    <3> HIDE DEF m, n
    <3>2. /\ SubSeq(q, m, n) \in Seq(Byte)
          /\ Len(SubSeq(q, m, n)) = IF m <= n THEN n - m + 1 ELSE 0
          /\ \A i \in 1 .. n - m + 1 : SubSeq(q, m, n)[i] = q[m + i - 1]
      BY <3>1, SubSeqProperties
    <3> QED BY <3>1, <3>2 DEF m, n
  <2>4. \A i \in 1 .. Length(f) : i \in 1 .. Len(q) - (s + 1) + 1 /\ s + 1 + i - 1 = i + s
    BY <1>1, <1>2, <1>3
  <2>5. Len(r) = Length(f)
    BY <1>1, <1>2, <1>3, <2>3
  <2> QED BY <2>3, <2>4, <2>5
<1>5. ASSUME NEW i \in 1 .. Length(f), i + s \notin hole PROVE Sent(w[Cell(f, i)], r[i])
  <2>1. i + s \in 1 .. Length(c) /\ Cell(f, i) = Cell(c, i + s) /\ Cell(c, i + s) \in Cells
    BY <1>1, <1>2, <1>3
  <2>2. Cell(c, i + s) \notin c.Rd .. c.Rd + s - 1
    <3> SUFFICES ASSUME Cell(c, i + s) \in c.Rd .. c.Rd + s - 1 PROVE FALSE
      OBVIOUS
    <3> DEFINE j == Cell(c, i + s) - c.Rd + 1
    <3>1. Cell(c, i + s) \in Int
      BY <2>1, Positions
    <3>2. j \in 1 .. FirstPart(c) /\ j \in 1 .. Length(c) /\ c.Rd + j - 1 = Cell(c, i + s)
          /\ j # i + s
      BY <1>1, <1>2, <1>3, <3>1
    <3>3. Cell(c, j) = Cell(c, i + s)
      BY <1>2, <3>2
    <3> QED BY <1>2, <2>1, <3>2, <3>3
  <2>3. w[Cell(f, i)] = b[Cell(c, i + s)]
    BY <1>0, <2>1, <2>2
  <2>4. Sent(b[Cell(c, i + s)], q[i + s])
    BY <1>5, <2>1 DEF Holds
  <2> QED BY <1>4, <2>3, <2>4
<1>6. \A i \in 1 .. Length(f) : i + s \in 1 .. Len(q)
  BY <1>1, <1>2, <1>3
<1> QED BY <1>4, <1>5, <1>6 DEF Holds, s, r, f, w

-----------------------------------------------------------------------------
(* The invariant of the FIFO.                                              *)

(* A sender has claimed a piece and has not yet dropped it. *)
Claimed == ThreadSender \/ dma # NoDma \/ cb = "driver"

ClaimInv ==
  /\ IF Claimed THEN 1 <= ctx.SentSize /\ ctx.SentSize <= FirstPart(ctx)
                ELSE ctx.unchunk # "transfer"
  /\ dma # NoDma => dma = [ptr |-> ctx.Rd, len |-> ctx.SentSize]

Call == [size : 0 .. MaxText, pos : Cells, text : {0} \cup Texts, polls : BOOLEAN]

CallInv ==
  /\ call \in Call
  /\ tpc \in {"retry", "alloc", "write", "refused"} => call.size >= 1

(* The text the thread has allocated and not written waits behind the      *)
(* first a bytes, and an interrupt's text, if any, is next to it.          *)
WaitsBehind(a) ==
  /\ a + call.size <= Len(pending)
  /\ call.pos \in Cells /\ call.pos + call.size < FIFO_SIZE
  /\ \A j \in 1 .. call.size : /\ pending[a + j] = <<"thread", call.text, j>>
                               /\ Cell(ctx, a + j) = call.pos + j - 1
  /\ a + call.size < Len(pending) => /\ pending[a + call.size + 1][1] = "isr"
                                     /\ pending[a + call.size + 1][3] = 1
  /\ Claimed => ctx.SentSize <= a

Unwritten(a) == a + 1 .. a + call.size

Contents ==
  IF tpc = "write"
  THEN \E a \in Nat : WaitsBehind(a) /\ Holds(ctx, buffer, pending, Unwritten(a))
  ELSE Holds(ctx, buffer, pending, {})

Stored ==
  /\ Layout(ctx) /\ pending \in Seq(Byte) /\ Len(pending) = Length(ctx)

FifoInv == Stored /\ ClaimInv /\ CallInv /\ Contents

-----------------------------------------------------------------------------
(* What the steps have in common.                                          *)

(* Steps that move neither the read and write positions nor a byte.        *)
LEMMA QuietStep ==
  ASSUME Inv, FifoInv, ctx' \in Ctx,
         ctx'.Rd = ctx.Rd, ctx'.Wr = ctx.Wr, ctx'.SentSize = ctx.SentSize,
         ctx'.unchunk = ctx.unchunk, ctx'.enabled = ctx.enabled,
         UNCHANGED <<buffer, pending>>, Claimed' = Claimed,
         dma' # NoDma => dma' = [ptr |-> ctx.Rd, len |-> ctx.SentSize],
         CallInv',
         \/ tpc # "write" /\ tpc' # "write"
         \/ UNCHANGED <<tpc, call>>
  PROVE  FifoInv'
<1> USE DEF FifoInv, Stored, ClaimInv
<1>1. ctx \in Ctx
  BY DEF Inv, Shape
<1>2. /\ FirstPart(ctx') = FirstPart(ctx) /\ Length(ctx') = Length(ctx)
      /\ \A i : Cell(ctx', i) = Cell(ctx, i)
      /\ Layout(ctx') <=> Layout(ctx)
  BY <1>1, SamePlaces
<1>3. Stored'
  BY <1>2
<1>4. ClaimInv'
  BY <1>2
<1>5. \A hole : Holds(ctx, buffer, pending, hole) => Holds(ctx', buffer', pending', hole)
  BY <1>2 DEF Holds
<1>6. CASE tpc # "write" /\ tpc' # "write"
  BY <1>3, <1>4, <1>5, <1>6 DEF Contents
<1>7. CASE tpc = "write" /\ UNCHANGED <<tpc, call>>
  <2>1. PICK a \in Nat : WaitsBehind(a) /\ Holds(ctx, buffer, pending, Unwritten(a))
    BY <1>7 DEF Contents
  <2>2. WaitsBehind(a)'
    BY <1>2, <1>7, <2>1 DEF WaitsBehind
  <2>3. Holds(ctx', buffer', pending', Unwritten(a))
    BY <1>5, <2>1
  <2>4. Unwritten(a)' = Unwritten(a)
    BY <1>7 DEF Unwritten
  <2>5. Contents'
    BY <1>7, <2>2, <2>3, <2>4 DEF Contents
  <2> QED BY <1>3, <1>4, <2>5
<1> QED BY <1>6, <1>7

(* A free lock: nobody writes and nobody has claimed anything. *)
LEMMA FreeLock ==
  ASSUME Inv, ctx.Lock = 0
  PROVE  ~Writing /\ ~Claimed /\ ~Transfers
BY DEF Inv, LockInv, Claimed, Transfers, Shape, Ctx

(* What the invariant says of the FIFO. *)
LEMMA StoredFacts ==
  ASSUME Inv, FifoInv
  PROVE  /\ ctx \in Ctx /\ Layout(ctx) /\ pending \in Seq(Byte)
         /\ Len(pending) = Length(ctx) /\ Len(pending) \in Nat
         /\ FirstPart(ctx) \in Nat /\ FirstPart(ctx) <= Len(pending)
         /\ FreshText \in Texts
<1>1. ctx \in Ctx /\ Layout(ctx) /\ pending \in Seq(Byte) /\ Len(pending) = Length(ctx)
  BY DEF Inv, Shape, FifoInv, Stored
<1>2. /\ Length(ctx) \in Nat /\ FirstPart(ctx) \in Nat /\ FirstPart(ctx) <= Length(ctx)
      /\ Length(ctx) < FIFO_SIZE
  BY <1>1, LayoutFacts
<1> QED BY <1>1, <1>2, FreshTextExists

(* Claiming the next transfer moves no byte. *)
LEMMA ClaimKeepsBytes ==
  ASSUME NEW c \in Ctx, Layout(c), c.unchunk # "transfer", c.Rd # c.Wr,
         NEW q, Len(q) = Length(c), NEW b, NEW hole, Holds(c, b, q, hole)
  PROVE  LET e == NextTransfer(c)
         IN  /\ Layout(e) /\ Length(e) = Length(c) /\ Holds(e, b, q, hole)
             /\ 1 <= e.SentSize /\ e.SentSize <= FirstPart(e)
<1>1. /\ Layout(NextTransfer(c)) /\ Length(NextTransfer(c)) = Length(c)
      /\ \A i \in 1 .. Length(c) : Cell(NextTransfer(c), i) = Cell(c, i)
      /\ 1 <= NextTransfer(c).SentSize /\ NextTransfer(c).SentSize <= FirstPart(NextTransfer(c))
  BY ClaimTakesOldest
<1> QED BY <1>1 DEF Holds

-----------------------------------------------------------------------------
(* The thread *)

(* The locals of a call that has ended. *)
LEMMA NoCallTyped == NoCall \in Call /\ NoCall.size = 0
<1>1. 0 \in Cells /\ 0 \in 0 .. MaxText /\ 0 \in {0} \cup Texts
  BY Positions
<1> QED BY <1>1 DEF NoCall, Call

(* The FIFO is empty at the start. *)
LEMMA InitFifo == Init => FifoInv
<1> SUFFICES ASSUME Init PROVE FifoInv
  OBVIOUS
<1>1. /\ ctx = [Rd |-> 0, Wr |-> 0, SentSize |-> 0, Lock |-> 0,
                unchunk |-> "none", enabled |-> 0]
      /\ dma = NoDma /\ cb = "none" /\ tpc = "idle" /\ pending = <<>>
      /\ call = NoCall
  BY DEF Init
<1>2. FirstPart(ctx) = 0 /\ Length(ctx) = 0
  BY <1>1 DEF FirstPart, Length
<1>3. 0 \in Cells
  BY Positions
<1>4. Layout(ctx)
  BY <1>1, <1>2, <1>3 DEF Layout
<1>5. pending \in Seq(Byte) /\ Len(pending) = 0
  BY <1>1, EmptySeq
<1>6. ClaimInv /\ CallInv
  BY <1>1, <1>2, NoCallTyped DEF ClaimInv, Claimed, ThreadSender, CallInv
<1>7. Contents
  BY <1>1, <1>5 DEF Contents, Holds
<1> QED BY <1>2, <1>4, <1>5, <1>6, <1>7 DEF FifoInv, Stored

(* TRACE_Lock(), TRACE_UnLock(), the hook and the driver call. *)
LEMMA QuietThread ==
  ASSUME Inv, FifoInv,
         \/ \E size \in 1 .. MaxText : \E polls \in BOOLEAN : ThreadCalls(size, polls)
         \/ ThreadRetries \/ ThreadFindsNoRoom \/ ThreadRefused \/ ThreadUnlocks
         \/ ThreadPreSendHook \/ ThreadStartsDma
         \/ ThreadSends /\ ~MaySend(ctx)
  PROVE  FifoInv'
<1>1. ctx \in Ctx
  BY DEF Inv, Shape
<1>2. ctx' \in Ctx /\ ctx'.Rd = ctx.Rd /\ ctx'.Wr = ctx.Wr /\ ctx'.SentSize = ctx.SentSize
      /\ ctx'.unchunk = ctx.unchunk /\ ctx'.enabled = ctx.enabled
  <2>1. ctx' = Lock(ctx) \/ ctx' = UnLock(ctx) \/ ctx' = ctx
    BY DEF ThreadCalls, ThreadRetries, ThreadFindsNoRoom, ThreadRefused, ThreadUnlocks,
           ThreadPreSendHook, ThreadStartsDma, ThreadSends
  <2> QED BY <1>1, <2>1, LockMoves
<1>3. UNCHANGED <<buffer, pending>>
  BY DEF ThreadCalls, ThreadRetries, ThreadFindsNoRoom, ThreadRefused, ThreadUnlocks,
         ThreadPreSendHook, ThreadStartsDma, ThreadSends
<1>4. tpc # "write" /\ tpc' # "write"
  BY DEF ThreadCalls, ThreadRetries, ThreadFindsNoRoom, ThreadRefused, ThreadUnlocks,
         ThreadPreSendHook, ThreadStartsDma, ThreadSends, ThreadRuns
<1>5. CallInv'
  <2>0. 0 \in Cells /\ NoCall \in Call
    BY Positions, NoCallTyped
  <2>1. ASSUME NEW size \in 1 .. MaxText, NEW polls \in BOOLEAN, ThreadCalls(size, polls)
        PROVE  CallInv'
    <3>1. call' = [size |-> size, pos |-> 0, text |-> 0, polls |-> polls]
      BY <2>1 DEF ThreadCalls, NoCall
    <3>2. size \in 0 .. MaxText /\ size >= 1
      BY Positions
    <3>3. call' \in Call /\ call'.size = size
      BY <2>0, <3>1, <3>2 DEF Call
    <3> QED BY <3>2, <3>3 DEF CallInv
  <2>2. CASE ThreadRetries \/ ThreadFindsNoRoom
    BY <2>2 DEF CallInv, FifoInv, ThreadRetries, ThreadFindsNoRoom, ThreadRuns
  <2>3. CASE ThreadRefused
    BY <2>0, <2>3 DEF CallInv, FifoInv, ThreadRefused, ThreadRuns
  <2>4. CASE ThreadUnlocks
    BY <2>0, <2>4 DEF CallInv, ThreadUnlocks, ThreadRuns
  <2>5. CASE ThreadPreSendHook \/ ThreadStartsDma \/ (ThreadSends /\ ~MaySend(ctx))
    BY <2>5 DEF CallInv, FifoInv, ThreadPreSendHook, ThreadStartsDma, ThreadSends, ThreadRuns
  <2> QED BY <2>1, <2>2, <2>3, <2>4, <2>5
<1>6. CASE ThreadStartsDma
  <2>1. /\ tpc = "driver" /\ tpc' = "idle" /\ cb = "none"
        /\ dma' = [ptr |-> ctx.Rd, len |-> ctx.SentSize]
    BY <1>6 DEF ThreadStartsDma, ThreadRuns, DriverSend
  <2>2. Claimed
    BY <2>1 DEF Claimed, ThreadSender
  <2>3. ctx.SentSize >= 1 /\ ctx.SentSize \in Int
    BY <1>1, <2>2 DEF FifoInv, ClaimInv, Ctx
  <2>4. dma'.len = ctx.SentSize /\ NoDma.len = 0
    BY <2>1 DEF NoDma
  <2>5. dma' # NoDma
    BY <2>3, <2>4
  <2>6. Claimed'
    BY <2>5 DEF Claimed
  <2>7. Claimed' = Claimed
    BY <2>2, <2>6
  <2> QED BY <1>2, <1>3, <1>4, <1>5, <2>1, <2>7, QuietStep
<1>7. CASE ~ThreadStartsDma
  <2>1. dma' = dma /\ cb' = cb
    BY <1>7 DEF ThreadCalls, ThreadRetries, ThreadFindsNoRoom, ThreadRefused, ThreadUnlocks,
           ThreadPreSendHook, ThreadSends
  <2>2. ThreadSender' = ThreadSender
    <3>1. CASE ThreadSends /\ ~MaySend(ctx)
      BY <3>1 DEF ThreadSends, ThreadRuns, ThreadSender
    <3>2. CASE ThreadRefused
      BY <3>2 DEF ThreadRefused, ThreadRuns, ThreadSender
    <3>3. CASE ThreadRetries \/ ThreadFindsNoRoom \/ ThreadUnlocks
      BY <3>3 DEF ThreadRetries, ThreadFindsNoRoom, ThreadUnlocks, ThreadRuns, ThreadSender
    <3>4. CASE ThreadPreSendHook
      BY <3>4 DEF ThreadPreSendHook, ThreadRuns, ThreadSender
    <3>5. ASSUME NEW size \in 1 .. MaxText, NEW polls \in BOOLEAN, ThreadCalls(size, polls)
          PROVE  ThreadSender' = ThreadSender
      <4>1. tpc = "idle" /\ tpc' = "alloc"
        BY <3>5 DEF ThreadCalls, ThreadRuns
      <4> QED BY <4>1 DEF ThreadSender
    <3> QED BY <1>7, <3>1, <3>2, <3>3, <3>4, <3>5
  <2>3. Claimed' = Claimed
    BY <2>1, <2>2 DEF Claimed
  <2>4. dma' # NoDma => dma' = [ptr |-> ctx.Rd, len |-> ctx.SentSize]
    BY <2>1 DEF FifoInv, ClaimInv
  <2> QED BY <1>2, <1>3, <1>4, <1>5, <2>3, <2>4, QuietStep
<1> QED BY <1>6, <1>7

(* TRACE_AllocateBuffer() leaves a hole behind all that waits. *)
LEMMA AllocatesFifo ==
  ASSUME Inv, FifoInv, ThreadAllocates PROVE FifoInv'
<1> DEFINE size == call.size
           p    == WritePos(ctx, size)
           t    == FreshText
<1>1. /\ ctx \in Ctx /\ Layout(ctx) /\ pending \in Seq(Byte) /\ Len(pending) = Length(ctx)
      /\ Len(pending) \in Nat /\ FirstPart(ctx) \in Nat /\ FirstPart(ctx) <= Len(pending)
      /\ t \in Texts
  BY StoredFacts
<1>2. /\ tpc = "alloc" /\ tpc' = "write" /\ Fits(ctx, size) /\ ctx' = AllocateBufer(ctx, size)
      /\ call' = [call EXCEPT !.pos = p, !.text = t]
      /\ pending' = pending \o TextOf("thread", t, size)
      /\ UNCHANGED <<buffer, dma, cb>> /\ cb = "none"
  BY DEF ThreadAllocates, ThreadRuns
<1>3. size \in Nat /\ size > 0 /\ size \in 1 .. MaxText
  BY <1>2, Positions DEF FifoInv, CallInv, Call
<1>4. call'.size = size /\ call'.pos = p /\ call'.text = t
  <2>1. call \in Call
    BY DEF FifoInv, CallInv
  <2> HIDE DEF size, p, t
  <2>2. call.size = size
    BY DEF size
  <2> QED BY <1>2, <2>1, <2>2 DEF Call
<1>5. /\ Layout(ctx') /\ Length(ctx') = Length(ctx) + size
      /\ FirstPart(ctx) <= FirstPart(ctx')
      /\ \A i \in 1 .. Length(ctx) : Cell(ctx', i) = Cell(ctx, i)
      /\ \A j \in 1 .. size : Cell(ctx', Length(ctx) + j) = p + j - 1
      /\ p \in Cells /\ p + size \in Cells
      /\ ctx'.Rd = ctx.Rd /\ ctx'.SentSize = ctx.SentSize
      /\ ctx'.unchunk = "transfer" <=> ctx.unchunk = "transfer"
  BY <1>1, <1>2, <1>3, AllocateAppends
<1>6. /\ pending' \in Seq(Byte) /\ Len(pending') = Len(pending) + size
      /\ \A i \in 1 .. Len(pending) : pending'[i] = pending[i]
      /\ \A j \in 1 .. size : pending'[Len(pending) + j] = <<"thread", t, j>>
  <2>1. "thread" \in {"thread", "isr"}
    OBVIOUS
  <2> HIDE DEF t, size
  <2> QED BY <1>1, <1>2, <1>3, <2>1, TextJoins
<1> HIDE DEF size, p, t
<1>7. Stored'
  BY <1>1, <1>5, <1>6 DEF Stored
<1>8. Claimed' = Claimed
  BY <1>2 DEF Claimed, ThreadSender
<1>9. ClaimInv'
  <2>1. ctx' \in Ctx /\ FirstPart(ctx') \in Nat /\ ctx.SentSize \in Int
    <3>1. ctx' \in Ctx
      <4>1. size \in Int
        BY <1>3
      <4>2. AllocateBufer(ctx, size) \in Ctx
        BY <1>1, <4>1, PositionsOnly
      <4> QED BY <1>2, <4>2
    <3>3. ctx.SentSize \in Int
      BY <1>1 DEF Ctx
    <3>2. Layout(ctx')
      BY <1>5
    <3> QED BY <3>1, <3>2, <3>3, LayoutFacts
  <2>2. ClaimInv
    BY DEF FifoInv
  <2> QED BY <1>1, <1>2, <1>5, <1>8, <2>1, <2>2 DEF ClaimInv
<1>10. CallInv'
  <2>1. call \in Call
    BY DEF FifoInv, CallInv
  <2>2. call' \in Call
    BY <1>1, <1>2, <1>5, <2>1 DEF Call
  <2> QED BY <1>3, <1>4, <2>2 DEF CallInv
<1>11. PICK a \in Nat : a = Len(pending)
  BY <1>1
<1>12. WaitsBehind(a)'
  <2>1. Claimed => ctx.SentSize <= a /\ ctx.SentSize \in Int
    BY <1>1, <1>11 DEF FifoInv, ClaimInv, Ctx
  <2>2. p + size < FIFO_SIZE
    BY <1>5, Positions
  <2>3. ~(a + size < Len(pending'))
    BY <1>3, <1>6, <1>11
  <2> QED BY <1>1, <1>3, <1>4, <1>5, <1>6, <1>8, <1>11, <2>1, <2>2, <2>3 DEF WaitsBehind
<1>13. Holds(ctx', buffer', pending', Unwritten(a)')
  <2>1. Holds(ctx, buffer, pending, {})
    BY <1>2 DEF FifoInv, Contents
  <2>2. Unwritten(a)' = a + 1 .. a + size
    BY <1>4 DEF Unwritten
  <2>3. ASSUME NEW i \in 1 .. Len(pending'), i \notin a + 1 .. a + size
        PROVE  Sent(buffer'[Cell(ctx', i)], pending'[i])
    <3>1. i \in 1 .. Len(pending)
      BY <1>1, <1>3, <1>6, <1>11, <2>3
    <3> QED BY <1>1, <1>2, <1>5, <1>6, <2>1, <3>1 DEF Holds
  <2> QED BY <2>2, <2>3 DEF Holds
<1> QED BY <1>1, <1>2, <1>7, <1>9, <1>10, <1>12, <1>13 DEF FifoInv, Contents

(* tiny_vsnprintf_like() fills the hole. *)
LEMMA WritesFifo ==
  ASSUME Inv, FifoInv, ThreadWrites PROVE FifoInv'
<1>1. /\ ctx \in Ctx /\ Layout(ctx) /\ pending \in Seq(Byte) /\ Len(pending) = Length(ctx)
  BY StoredFacts
<1>2. /\ tpc = "write" /\ tpc' = "unlock"
      /\ buffer' = Written(buffer, call.pos, "thread", call.text, call.size)
      /\ UNCHANGED <<ctx, dma, cb, call, pending>>
  BY DEF ThreadWrites, ThreadRuns
<1>3. call.size \in Nat /\ call.size > 0
  BY <1>2, Positions DEF FifoInv, CallInv, Call
<1>4. PICK a \in Nat : WaitsBehind(a) /\ Holds(ctx, buffer, pending, Unwritten(a))
  BY <1>2 DEF FifoInv, Contents
<1>5. Holds(ctx, Written(buffer, call.pos, "thread", call.text, call.size), pending, {})
  <2>1. /\ a + call.size <= Len(pending) /\ call.pos \in Cells
        /\ \A j \in 1 .. call.size : /\ pending[a + j] = <<"thread", call.text, j>>
                                     /\ Cell(ctx, a + j) = call.pos + j - 1
        /\ a + call.size < Len(pending) => /\ pending[a + call.size + 1][1] = "isr"
                                           /\ pending[a + call.size + 1][3] = 1
    BY <1>4 DEF WaitsBehind
  <2>2. Holds(ctx, buffer, pending, a + 1 .. a + call.size)
    BY <1>4 DEF Unwritten
  <2> QED BY <1>1, <1>3, <2>1, <2>2, ThreadFillsHole
<1>6. Contents'
  BY <1>2, <1>5 DEF Contents
<1>7. Stored' /\ CallInv' /\ ClaimInv'
  <2>1. Stored /\ CallInv /\ ClaimInv
    BY DEF FifoInv
  <2>2. Claimed' = Claimed
    BY <1>2 DEF Claimed, ThreadSender
  <2> QED BY <1>2, <2>1, <2>2 DEF Stored, CallInv, ClaimInv
<1> QED BY <1>6, <1>7 DEF FifoInv

(* TRACE_Send() claims the oldest piece. *)
LEMMA SendsFifo ==
  ASSUME Inv, FifoInv, ThreadSends, MaySend(ctx) PROVE FifoInv'
<1> DEFINE c == Lock(ctx)
<1>1. /\ ctx \in Ctx /\ Layout(ctx) /\ pending \in Seq(Byte) /\ Len(pending) = Length(ctx)
  BY StoredFacts
<1>2. /\ tpc = "send" /\ tpc' = "presend" /\ ctx' = NextTransfer(c) /\ cb = "none"
      /\ UNCHANGED <<buffer, dma, cb, call, pending>>
  BY DEF ThreadSends, ThreadRuns
<1>3. /\ c \in Ctx /\ c.Rd = ctx.Rd /\ c.Wr = ctx.Wr /\ c.SentSize = ctx.SentSize
      /\ c.unchunk = ctx.unchunk /\ c.enabled = ctx.enabled
  BY <1>1, LockMoves
<1> HIDE DEF c
<1>4. /\ Layout(c) /\ Length(c) = Length(ctx) /\ \A i : Cell(c, i) = Cell(ctx, i)
  BY <1>1, <1>3, SamePlaces
<1>5. ~Claimed /\ dma = NoDma
  BY FreeLock DEF MaySend, Transfers
<1>6. c.unchunk # "transfer" /\ c.Rd # c.Wr
  BY <1>3, <1>5 DEF FifoInv, ClaimInv, MaySend
<1>7. Holds(c, buffer, pending, {})
  BY <1>2, <1>4 DEF FifoInv, Contents, Holds
<1>8. /\ Layout(ctx') /\ Length(ctx') = Length(c) /\ Holds(ctx', buffer, pending, {})
      /\ 1 <= ctx'.SentSize /\ ctx'.SentSize <= FirstPart(ctx')
  BY <1>1, <1>2, <1>3, <1>4, <1>6, <1>7, ClaimKeepsBytes
<1>9. Stored' /\ Contents'
  BY <1>1, <1>2, <1>4, <1>8 DEF Stored, Contents
<1>10. ClaimInv'
  BY <1>2, <1>5, <1>8 DEF ClaimInv, Claimed, ThreadSender
<1>11. CallInv'
  BY <1>2 DEF FifoInv, CallInv
<1> QED BY <1>9, <1>10, <1>11 DEF FifoInv

-----------------------------------------------------------------------------
(* The callback and the interrupts *)

(* TRACE_TxCpltCallback() drops what was sent and claims the next piece. *)
LEMMA CompletesFifo ==
  ASSUME Inv, FifoInv, TransferCompletes PROVE FifoInv'
<1> DEFINE f == AfterTransfer(ctx)
           s == ctx.SentSize
<1>1. /\ ctx \in Ctx /\ Layout(ctx) /\ pending \in Seq(Byte) /\ Len(pending) = Length(ctx)
      /\ Len(pending) \in Nat /\ s \in Int
  BY StoredFacts DEF Ctx
<1>2. /\ dma # NoDma /\ dma' = NoDma /\ cb = "none" /\ UNCHANGED <<tpc, call>>
      /\ buffer' = [x \in Cells |->
                      IF x \in dma.ptr .. dma.ptr + dma.len - 1 THEN Stale ELSE buffer[x]]
      /\ pending' = SubSeq(pending, dma.len + 1, Len(pending))
      /\ IF MayContinue(f) THEN ctx' = NextTransfer(f) /\ cb' = "driver"
         ELSE ctx' = f /\ cb' = "unlock"
  BY DEF TransferCompletes, thread
<1>3. /\ dma = [ptr |-> ctx.Rd, len |-> s] /\ 1 <= s /\ s <= FirstPart(ctx)
  BY <1>2 DEF FifoInv, ClaimInv, Claimed
<1>4. /\ buffer' = Cleared(buffer, ctx.Rd, ctx.SentSize)
      /\ pending' = SubSeq(pending, ctx.SentSize + 1, Len(pending))
  BY <1>2, <1>3 DEF Cleared
<1>5. f \in Ctx /\ f.Lock = ctx.Lock
  BY <1>1, PositionsOnly
<1>6. Layout(f) /\ Length(f) = Length(ctx) - s /\ f.unchunk # "transfer"
      /\ \A i \in 1 .. Length(f) : Cell(f, i) = Cell(ctx, i + s)
  BY <1>1, <1>3, TransferDropsOldest
<1>7. ASSUME NEW hole, Holds(ctx, buffer, pending, hole)
      PROVE  /\ pending' \in Seq(Byte) /\ Len(pending') = Length(f)
             /\ \A i \in 1 .. Len(pending') : /\ pending'[i] = pending[i + s]
                                              /\ i + s \in 1 .. Len(pending)
             /\ \A h : (\A i \in 1 .. Len(pending') : i + s \in hole => i \in h)
                      => Holds(f, buffer', pending', h)
  BY <1>1, <1>3, <1>4, <1>7, TransferKeepsBytes
<1> HIDE DEF f, s
<1>8. ~ThreadSender
  BY <1>2 DEF Inv, OneSender, Transfers
<1>9. CallInv'
  BY <1>2 DEF FifoInv, CallInv
<1>10. CASE tpc # "write"
  <2>1. Holds(ctx, buffer, pending, {})
    BY <1>10 DEF FifoInv, Contents
  <2>2. /\ pending' \in Seq(Byte) /\ Len(pending') = Length(f)
        /\ Holds(f, buffer', pending', {})
    <3>1. \A i \in 1 .. Len(pending') : i + s \in {} => i \in {}
      OBVIOUS
    <3> QED BY <1>7, <2>1, <3>1
  <2>3. CASE MayContinue(f)
    <3>1. /\ Layout(ctx') /\ Length(ctx') = Length(f) /\ Holds(ctx', buffer', pending', {})
          /\ 1 <= ctx'.SentSize /\ ctx'.SentSize <= FirstPart(ctx')
      BY <1>2, <1>5, <1>6, <2>2, <2>3, ClaimKeepsBytes DEF MayContinue
    <3>2. Stored' /\ Contents'
      BY <1>2, <1>10, <2>2, <3>1 DEF Stored, Contents
    <3>3. ClaimInv'
      BY <1>2, <2>3, <3>1 DEF ClaimInv, Claimed
    <3> QED BY <1>9, <3>2, <3>3 DEF FifoInv
  <2>4. CASE ~MayContinue(f)
    <3>1. ctx' = f /\ cb' = "unlock"
      BY <1>2, <2>4
    <3>2. Stored' /\ Contents'
      BY <1>2, <1>6, <1>10, <2>2, <3>1 DEF Stored, Contents
    <3>3. ClaimInv'
      BY <1>2, <1>6, <1>8, <3>1 DEF ClaimInv, Claimed, ThreadSender
    <3> QED BY <1>9, <3>2, <3>3 DEF FifoInv
  <2> QED BY <2>3, <2>4
<1>11. CASE tpc = "write"
  <2>1. PICK a \in Nat : WaitsBehind(a) /\ Holds(ctx, buffer, pending, Unwritten(a))
    BY <1>11 DEF FifoInv, Contents
  <2>2. ctx' = f /\ cb' = "unlock"
    <3>1. ctx.Lock >= 2 /\ ctx.Lock \in Int
      BY <1>1, <1>2, <1>11 DEF Inv, LockInv, Writing, Transfers, Ctx
    <3> QED BY <1>2, <1>5, <3>1 DEF MayContinue
  <2>3. s <= a
    BY <1>2, <2>1 DEF WaitsBehind, Claimed, s
  <2>4. PICK b \in Nat : b = a - s
    BY <1>1, <2>3
  <2>5. /\ pending' \in Seq(Byte) /\ Len(pending') = Length(f)
        /\ \A i \in 1 .. Len(pending') : pending'[i] = pending[i + s]
        /\ \A h : (\A i \in 1 .. Len(pending') : i + s \in Unwritten(a) => i \in h)
                 => Holds(f, buffer', pending', h)
    BY <1>7, <2>1
  <2>6. Len(pending') = Len(pending) - s /\ call.size \in Nat /\ call.size > 0
    BY <1>1, <1>6, <1>11, <2>5, Positions DEF FifoInv, CallInv, Call
  <2>7. Holds(ctx', buffer', pending', Unwritten(b)')
    <3>1. \A i \in 1 .. Len(pending') : i + s \in Unwritten(a) => i \in Unwritten(b)'
      BY <1>1, <1>2, <2>4, <2>6 DEF Unwritten
    <3> QED BY <2>2, <2>5, <3>1
  <2>8. WaitsBehind(b)'
    <3>1. /\ a + call.size <= Len(pending) /\ call.pos \in Cells
          /\ call.pos + call.size < FIFO_SIZE
          /\ \A j \in 1 .. call.size : /\ pending[a + j] = <<"thread", call.text, j>>
                                       /\ Cell(ctx, a + j) = call.pos + j - 1
          /\ a + call.size < Len(pending) => /\ pending[a + call.size + 1][1] = "isr"
                                             /\ pending[a + call.size + 1][3] = 1
      BY <2>1 DEF WaitsBehind
    <3>2. \A j \in 1 .. call.size : b + j \in 1 .. Len(pending') /\ b + j + s = a + j
      <4>1. a + call.size <= Len(pending)
        BY <3>1
      <4> QED BY <1>1, <2>4, <2>6, <4>1
    <3>3. \A j \in 1 .. call.size : /\ pending'[b + j] = <<"thread", call.text, j>>
                                   /\ Cell(f, b + j) = call.pos + j - 1
      BY <1>6, <2>5, <3>1, <3>2
    <3>4. b + call.size < Len(pending') =>
            /\ pending'[b + call.size + 1] = pending[a + call.size + 1]
            /\ a + call.size < Len(pending)
      <4>1. SUFFICES ASSUME b + call.size < Len(pending')
            PROVE  /\ pending'[b + call.size + 1] = pending[a + call.size + 1]
                   /\ a + call.size < Len(pending)
        OBVIOUS
      <4>2. b + call.size + 1 \in 1 .. Len(pending') /\ b + call.size + 1 + s = a + call.size + 1
        BY <1>1, <2>4, <2>6, <4>1
      <4>3. pending'[b + call.size + 1] = pending[b + call.size + 1 + s]
        BY <2>5, <4>2
      <4> QED BY <1>1, <2>4, <2>6, <4>1, <4>2, <4>3
    <3>5. ~Claimed'
      BY <1>2, <1>8, <2>2 DEF Claimed, ThreadSender
    <3>6. b + call.size <= Len(pending')
      BY <1>1, <2>4, <2>6, <3>1
    <3> QED BY <1>2, <2>2, <3>1, <3>3, <3>4, <3>5, <3>6 DEF WaitsBehind
  <2>9. Stored' /\ Contents'
    BY <1>2, <1>6, <1>11, <2>2, <2>5, <2>7, <2>8 DEF Stored, Contents
  <2>10. ClaimInv'
    BY <1>2, <1>6, <1>8, <2>2 DEF ClaimInv, Claimed, ThreadSender
  <2> QED BY <1>9, <2>9, <2>10 DEF FifoInv
<1> QED BY <1>10, <1>11

(* A radio or RTC interrupt appends, and claims if the lock is free. *)
LEMMA IsrFifo ==
  ASSUME Inv, FifoInv, NEW size \in 1 .. MaxText, IsrTraceOk(size)
  PROVE  FifoInv' /\ (MaySend(AllocateBufer(ctx, size)) => dma' # NoDma)
<1> DEFINE d == AllocateBufer(ctx, size)
           e == Lock(d)
           t == FreshText
           p == WritePos(ctx, size)
<1>1. /\ ctx \in Ctx /\ Layout(ctx) /\ pending \in Seq(Byte) /\ Len(pending) = Length(ctx)
      /\ Len(pending) \in Nat /\ FirstPart(ctx) \in Nat /\ t \in Texts
  BY StoredFacts
<1>2. size \in Nat /\ size > 0 /\ size \in Int
  BY Positions
<1>3. /\ Fits(ctx, size) /\ mode = "run" /\ UNCHANGED <<cb, tpc, call>>
      /\ IF MaySend(d) THEN ctx' = NextTransfer(e) /\ DriverSend(ctx')
         ELSE ctx' = d /\ UNCHANGED dma
      /\ buffer' = Written(buffer, p, "isr", t, size)
      /\ pending' = pending \o TextOf("isr", t, size)
  BY DEF IsrTraceOk, thread
<1>4. d \in Ctx /\ d.Lock = ctx.Lock
  BY <1>1, <1>2, PositionsOnly
<1>5. /\ Layout(d) /\ Length(d) = Length(ctx) + size /\ FirstPart(ctx) <= FirstPart(d)
      /\ \A i \in 1 .. Length(ctx) : Cell(d, i) = Cell(ctx, i)
      /\ d.Rd = ctx.Rd /\ d.SentSize = ctx.SentSize /\ d.Rd # d.Wr
      /\ d.unchunk = "transfer" <=> ctx.unchunk = "transfer"
  BY <1>1, <1>2, <1>3, AllocateAppends
<1>6. ASSUME NEW hole, Holds(ctx, buffer, pending, hole)
      PROVE  Holds(d, buffer', pending', hole)
  BY <1>1, <1>2, <1>3, <1>6, IsrKeepsBytes
<1>7. /\ pending' \in Seq(Byte) /\ Len(pending') = Len(pending) + size
      /\ \A i \in 1 .. Len(pending) : pending'[i] = pending[i]
      /\ \A j \in 1 .. size : pending'[Len(pending) + j] = <<"isr", t, j>>
  <2>1. "isr" \in {"thread", "isr"}
    OBVIOUS
  <2> HIDE DEF t
  <2> QED BY <1>1, <1>2, <1>3, <2>1, TextJoins
<1>8. /\ e \in Ctx /\ e.Rd = d.Rd /\ e.Wr = d.Wr /\ e.SentSize = d.SentSize
      /\ e.unchunk = d.unchunk /\ e.enabled = d.enabled
  BY <1>4, LockMoves
<1> HIDE DEF d, e, t, p
<1>9. CallInv'
  BY <1>3 DEF FifoInv, CallInv
<1>10. CASE MaySend(d)
  <2>1. ~Writing /\ ~Claimed /\ ~Transfers
    BY <1>4, <1>10, FreeLock DEF MaySend
  <2>2. tpc # "write" /\ ctx.unchunk # "transfer"
    BY <2>1 DEF Writing, FifoInv, ClaimInv
  <2>3. Holds(d, buffer', pending', {})
    BY <1>6, <2>2 DEF FifoInv, Contents
  <2>4. /\ Layout(e) /\ Length(e) = Length(d) /\ \A i : Cell(e, i) = Cell(d, i)
    BY <1>4, <1>5, <1>8, SamePlaces
  <2>5. Holds(e, buffer', pending', {})
    BY <2>3, <2>4 DEF Holds
  <2>6. e.unchunk # "transfer" /\ e.Rd # e.Wr /\ Len(pending') = Length(e)
    BY <1>1, <1>5, <1>7, <1>8, <2>2, <2>4
  <2>7. /\ Layout(ctx') /\ Length(ctx') = Length(e) /\ Holds(ctx', buffer', pending', {})
        /\ 1 <= ctx'.SentSize /\ ctx'.SentSize <= FirstPart(ctx')
    BY <1>3, <1>8, <1>10, <2>4, <2>5, <2>6, ClaimKeepsBytes
  <2>8. Stored' /\ Contents'
    BY <1>3, <1>7, <2>2, <2>6, <2>7 DEF Stored, Contents
  <2>9. dma' = [ptr |-> ctx'.Rd, len |-> ctx'.SentSize]
    BY <1>3, <1>10 DEF DriverSend
  <2>10. dma' # NoDma
    <3>1. dma'.len >= 1 /\ NoDma.len = 0
      BY <2>7, <2>9 DEF NoDma
    <3> QED BY <3>1
  <2>11. ClaimInv'
    BY <2>7, <2>9, <2>10 DEF ClaimInv, Claimed
  <2> QED BY <1>9, <2>8, <2>10, <2>11 DEF FifoInv
<1>11. CASE ~MaySend(d)
  <2>1. ctx' = d /\ UNCHANGED <<dma, cb, tpc, call>>
    BY <1>3, <1>11
  <2>2. Claimed' = Claimed
    BY <2>1 DEF Claimed, ThreadSender
  <2>3. Stored'
    BY <1>1, <1>5, <1>7, <2>1 DEF Stored
  <2>4. ClaimInv'
    <3>1. FirstPart(d) \in Nat /\ ctx.SentSize \in Int
      BY <1>1, <1>4, <1>5, LayoutFacts DEF Ctx
    <3>2. ClaimInv
      BY DEF FifoInv
    <3> QED BY <1>1, <1>5, <2>1, <2>2, <3>1, <3>2 DEF ClaimInv
  <2>5. CASE tpc # "write"
    <3>1. Contents'
      BY <1>6, <2>1, <2>5 DEF FifoInv, Contents
    <3> QED BY <1>9, <1>11, <2>3, <2>4, <3>1 DEF FifoInv, d
  <2>6. CASE tpc = "write"
    <3>1. PICK a \in Nat : WaitsBehind(a) /\ Holds(ctx, buffer, pending, Unwritten(a))
      BY <2>6 DEF FifoInv, Contents
    <3>2. /\ a + call.size <= Len(pending) /\ call.pos \in Cells
          /\ call.pos + call.size < FIFO_SIZE
          /\ \A j \in 1 .. call.size : /\ pending[a + j] = <<"thread", call.text, j>>
                                       /\ Cell(ctx, a + j) = call.pos + j - 1
          /\ a + call.size < Len(pending) => /\ pending[a + call.size + 1][1] = "isr"
                                             /\ pending[a + call.size + 1][3] = 1
          /\ Claimed => ctx.SentSize <= a
      BY <3>1 DEF WaitsBehind
    <3>3. call.size \in Nat
      BY Positions DEF FifoInv, CallInv, Call
    <3>4. \A j \in 1 .. call.size : a + j \in 1 .. Len(pending)
      BY <1>1, <3>2, <3>3
    <3>5. \A j \in 1 .. call.size : /\ pending'[a + j] = <<"thread", call.text, j>>
                                   /\ Cell(d, a + j) = call.pos + j - 1
      BY <1>1, <1>5, <1>7, <3>2, <3>4
    <3>6. a + call.size < Len(pending') => /\ pending'[a + call.size + 1][1] = "isr"
                                           /\ pending'[a + call.size + 1][3] = 1
      <4>1. CASE a + call.size < Len(pending)
        <5>1. a + call.size + 1 \in 1 .. Len(pending)
          BY <1>1, <3>3, <4>1
        <5> QED BY <1>7, <3>2, <4>1, <5>1
      <4>2. CASE a + call.size = Len(pending)
        <5>1. pending'[Len(pending) + 1] = <<"isr", t, 1>>
          BY <1>2, <1>7
        <5> QED BY <4>2, <5>1
      <4> QED BY <1>1, <3>2, <3>3, <4>1, <4>2
    <3>7. a + call.size <= Len(pending')
      BY <1>1, <1>2, <1>7, <3>2, <3>3
    <3>8. WaitsBehind(a)'
      BY <1>5, <2>1, <2>2, <3>2, <3>5, <3>6, <3>7 DEF WaitsBehind
    <3>9. Holds(ctx', buffer', pending', Unwritten(a)')
      BY <1>6, <2>1, <3>1 DEF Unwritten
    <3>10. Contents'
      BY <2>1, <2>6, <3>8, <3>9 DEF Contents
    <3> QED BY <1>9, <1>11, <2>3, <2>4, <3>10 DEF FifoInv, d
  <2> QED BY <2>5, <2>6
<1> QED BY <1>10, <1>11

(* The rest of the callback, idle mode and the other client of Stop mode.  *)
LEMMA QuietOthers ==
  ASSUME Inv, FifoInv,
         \/ CbStartsNext \/ CbUnlocks \/ Idles \/ TransferWakes \/ InterruptWakes
         \/ BuzzerOn \/ BuzzerOff \/ UNCHANGED vars
  PROVE  FifoInv'
<1>1. ctx \in Ctx
  BY DEF Inv, Shape
<1>2. UNCHANGED <<buffer, pending, tpc, call>>
  BY DEF CbStartsNext, CbUnlocks, Idles, TransferWakes, InterruptWakes, BuzzerOn, BuzzerOff,
         vars, thread
<1>3. CallInv'
  BY <1>2 DEF FifoInv, CallInv
<1>4. /\ ctx' \in Ctx /\ ctx'.Rd = ctx.Rd /\ ctx'.Wr = ctx.Wr /\ ctx'.SentSize = ctx.SentSize
      /\ ctx'.unchunk = ctx.unchunk /\ ctx'.enabled = ctx.enabled
  <2>1. ctx' = UnLock(ctx) \/ ctx' = ctx
    BY DEF CbStartsNext, CbUnlocks, Idles, TransferWakes, InterruptWakes, BuzzerOn, BuzzerOff,
           vars, thread
  <2> QED BY <1>1, <2>1, LockMoves
<1>5. Claimed' = Claimed /\ (dma' # NoDma => dma' = [ptr |-> ctx.Rd, len |-> ctx.SentSize])
  <2>1. ClaimInv
    BY DEF FifoInv
  <2>2. CASE CbStartsNext
    <3>1. /\ cb = "driver" /\ cb' = "none" /\ dma' = [ptr |-> ctx.Rd, len |-> ctx.SentSize]
      BY <2>2 DEF CbStartsNext, DriverSend
    <3>2. Claimed /\ ctx.SentSize >= 1
      BY <2>1, <3>1 DEF Claimed, ClaimInv
    <3>3. dma'.len = ctx.SentSize /\ NoDma.len = 0
      BY <3>1 DEF NoDma
    <3>4. dma' # NoDma
      BY <1>1, <3>2, <3>3 DEF Ctx
    <3>5. Claimed'
      BY <3>4 DEF Claimed
    <3> QED BY <3>1, <3>2, <3>5
  <2>3. CASE CbUnlocks
    <3>1. cb = "unlock" /\ cb' = "none" /\ UNCHANGED <<dma, tpc>>
      BY <2>3 DEF CbUnlocks, thread
    <3> QED BY <2>1, <3>1 DEF Claimed, ThreadSender, ClaimInv
  <2>4. CASE InterruptWakes
    <3>1. mode = "stop" => dma = NoDma
      BY DEF Inv, StopInv, BitInv
    <3>2. dma' = dma /\ UNCHANGED <<cb, tpc>>
      BY <2>4, <3>1 DEF InterruptWakes, thread
    <3> QED BY <2>1, <3>2 DEF Claimed, ThreadSender, ClaimInv
  <2>5. CASE Idles \/ TransferWakes \/ BuzzerOn \/ BuzzerOff \/ UNCHANGED vars
    <3>1. UNCHANGED <<dma, cb, tpc>>
      BY <2>5 DEF Idles, TransferWakes, BuzzerOn, BuzzerOff, vars, thread
    <3> QED BY <2>1, <3>1 DEF Claimed, ThreadSender, ClaimInv
  <2> QED BY <2>2, <2>3, <2>4, <2>5
<1> QED BY <1>2, <1>3, <1>4, <1>5, QuietStep

-----------------------------------------------------------------------------
(* Both invariants are inductive together. *)
LEMMA StepFifo == Inv /\ FifoInv /\ [Next]_vars => FifoInv'
<1> SUFFICES ASSUME Inv, FifoInv, [Next]_vars PROVE FifoInv'
  OBVIOUS
<1>1. CASE UNCHANGED vars
  BY <1>1, QuietOthers
<1>2. CASE \E size \in 1 .. MaxText : \E polls \in BOOLEAN : ThreadCalls(size, polls)
  BY <1>2, QuietThread
<1>3. ASSUME NEW size \in 1 .. MaxText, IsrTraceOk(size) PROVE FifoInv'
  BY <1>3, IsrFifo
<1>4. CASE ThreadStep
  BY <1>4, QuietThread, AllocatesFifo, WritesFifo, SendsFifo DEF ThreadStep
<1>5. CASE TransferCompletes
  BY <1>5, CompletesFifo
<1>6. CASE CbStartsNext \/ CbUnlocks \/ Idles \/ TransferWakes \/ InterruptWakes
           \/ BuzzerOn \/ BuzzerOff
  BY <1>6, QuietOthers
<1> QED BY <1>1, <1>2, <1>3, <1>4, <1>5, <1>6 DEF Next

(* The FIFO stays in order in every behaviour. *)
LEMMA FifoInvariance == Spec => [](Inv /\ FifoInv)
<1>1. Init => Inv /\ FifoInv
  BY InitInv, InitFifo
<1>2. Inv /\ FifoInv /\ [Next]_vars => (Inv /\ FifoInv)'
  BY StepInv, StepFifo
<1> QED BY <1>1, <1>2, PTL DEF Spec

(* The bytes under a transfer are the oldest accepted ones, in order and   *)
(* written, whatever the sizes of texts and buffer: TRACE_AllocateBuffer() *)
(* and the unchunk logic of TRACE_Send() lose, repeat or overwrite no byte *)
(* but the one the NUL of a preempted writer lands on.                     *)
THEOREM OldestTextFirst == Spec => []TransferIsOldestText
<1>1. ASSUME Inv, FifoInv PROVE TransferIsOldestText
  <2> SUFFICES ASSUME dma # NoDma
               PROVE  /\ dma.len <= Len(pending) /\ dma.ptr + dma.len <= FIFO_SIZE
                      /\ \A i \in 1 .. dma.len :
                           LET byte == buffer[dma.ptr + i - 1]
                           IN \/ byte = pending[i]
                              \/ byte = Nul /\ pending[i][1] = "isr" /\ pending[i][3] = 1
    BY DEF TransferIsOldestText
  <2>1. /\ ctx \in Ctx /\ Layout(ctx) /\ Len(pending) = Length(ctx) /\ Len(pending) \in Nat
        /\ FirstPart(ctx) \in Nat /\ FirstPart(ctx) <= Len(pending)
    BY <1>1, StoredFacts
  <2>2. /\ \A i \in 1 .. FirstPart(ctx) : Cell(ctx, i) = ctx.Rd + i - 1
        /\ ctx.Rd + FirstPart(ctx) < FIFO_SIZE
    BY <2>1, LayoutFacts
  <2>3. /\ dma.ptr = ctx.Rd /\ dma.len = ctx.SentSize
        /\ 1 <= ctx.SentSize /\ ctx.SentSize <= FirstPart(ctx)
    BY <1>1 DEF FifoInv, ClaimInv, Claimed
  <2>4. ctx.SentSize \in Int /\ ctx.Rd \in Int /\ FIFO_SIZE \in Int
    BY <2>1, Positions DEF Ctx
  <2>5. \A i \in 1 .. ctx.SentSize : Sent(buffer[Cell(ctx, i)], pending[i])
    <3>1. \A i \in 1 .. ctx.SentSize : i \in 1 .. Len(pending)
      BY <2>1, <2>3, <2>4
    <3>2. CASE tpc # "write"
      BY <1>1, <3>1, <3>2 DEF FifoInv, Contents, Holds
    <3>3. CASE tpc = "write"
      <4>1. PICK a \in Nat : WaitsBehind(a) /\ Holds(ctx, buffer, pending, Unwritten(a))
        BY <1>1, <3>3 DEF FifoInv, Contents
      <4>2. ctx.SentSize <= a
        BY <4>1 DEF WaitsBehind, Claimed
      <4>3. \A i \in 1 .. ctx.SentSize : i \notin Unwritten(a)
        BY <2>4, <4>2 DEF Unwritten
      <4> QED BY <3>1, <4>1, <4>3 DEF Holds
    <3> QED BY <3>2, <3>3
  <2>6. \A i \in 1 .. dma.len : dma.ptr + i - 1 = Cell(ctx, i)
    BY <2>1, <2>2, <2>3, <2>4
  <2>7. \A i \in 1 .. dma.len : Sent(buffer[dma.ptr + i - 1], pending[i])
    BY <2>3, <2>5, <2>6
  <2>8. dma.len <= Len(pending) /\ dma.ptr + dma.len <= FIFO_SIZE
    BY <2>1, <2>2, <2>3, <2>4
  <2> QED BY <2>7, <2>8 DEF Sent
<1> QED BY <1>1, FifoInvariance, PTL

(* The NUL that tiny_vsnprintf_like() puts behind a text stays inside      *)
(* ADV_TRACER_Buffer.                                                      *)
THEOREM NulStaysInBuffer == Spec => []NulInBuffer
<1>1. FifoInv => NulInBuffer
  BY DEF FifoInv, Contents, WaitsBehind, NulInBuffer
<1> QED BY <1>1, FifoInvariance, PTL

(* With nothing waiting, TRACE_AllocateBuffer() finds room for a text of   *)
(* any legal size, wherever the positions stopped: this is where           *)
(* FIFO_SIZE > 2 * MaxText is needed.                                      *)
THEOREM RefusalMeansBacklog == Spec => RefusedForBacklogOnly
<1>1. ASSUME Inv, FifoInv, ThreadFindsNoRoom PROVE pending # <<>>
  <2> SUFFICES ASSUME pending = <<>> PROVE FALSE
    OBVIOUS
  <2>1. ctx \in Ctx /\ Layout(ctx) /\ Len(pending) = Length(ctx)
    BY <1>1, StoredFacts
  <2>2. Length(ctx) = 0
    BY <2>1
  <2>3. ctx.Rd = ctx.Wr
    BY <2>1, <2>2, LayoutFacts
  <2>4. tpc = "alloc" /\ ~Fits(ctx, call.size)
    BY <1>1 DEF ThreadFindsNoRoom, ThreadRuns
  <2>5. call.size \in Nat /\ 1 <= call.size /\ call.size <= MaxText
    BY <1>1, <2>4, Positions DEF FifoInv, CallInv, Call
  <2>6. FIFO_SIZE > 2 * MaxText /\ ctx.Rd \in Int /\ ctx.Wr \in Int /\ 0 <= ctx.Rd /\ ctx.Rd < FIFO_SIZE
    BY <2>1, Positions, TracerAssumption DEF Layout
  <2> QED BY <2>3, <2>4, <2>5, <2>6, Positions DEF Fits, Freesize, Wraps
<1>2. Inv /\ FifoInv /\ [Next]_vars => [ThreadFindsNoRoom => pending # <<>>]_vars
  BY <1>1
<1> QED BY <1>2, FifoInvariance, PTL DEF Spec, RefusedForBacklogOnly

-----------------------------------------------------------------------------
(* The lock counts the writer and the sender, and nobody else.             *)
Sender == dma # NoDma \/ cb # "none" \/ ThreadSender

Balanced == ctx.Lock = (IF Writing THEN 1 ELSE 0) + (IF Sender THEN 1 ELSE 0)

(* No step but those that lock and unlock starts or ends a writer or a     *)
(* sender.                                                                 *)
LEMMA StepBalanced == Inv /\ FifoInv /\ Balanced /\ [Next]_vars => Balanced'
<1> SUFFICES ASSUME Inv, FifoInv, Balanced, [Next]_vars PROVE Balanced'
  OBVIOUS
<1>1. ctx \in Ctx /\ ctx.Lock \in Int
  BY DEF Inv, Shape, Ctx
<1>2. \A c \in Ctx : /\ Lock(c) \in Ctx /\ Lock(c).Lock = c.Lock + 1
                     /\ UnLock(c) \in Ctx /\ UnLock(c).Lock = c.Lock - 1
                     /\ NextTransfer(c).Lock = c.Lock
                     /\ AfterTransfer(c) \in Ctx /\ AfterTransfer(c).Lock = c.Lock
                     /\ \A size \in Int : /\ AllocateBufer(c, size) \in Ctx
                                          /\ AllocateBufer(c, size).Lock = c.Lock
  BY LockCounts, PositionsOnly
<1>3. ASSUME UNCHANGED <<dma, cb>>, ThreadSender' = ThreadSender
      PROVE  Sender' = Sender
  BY <1>3 DEF Sender
<1> USE DEF Balanced
<1>4. ASSUME NEW size \in 1 .. MaxText, NEW polls \in BOOLEAN, ThreadCalls(size, polls)
      PROVE  Balanced'
  <2>1. /\ tpc = "idle" /\ tpc' = "alloc" /\ ctx' = Lock(ctx) /\ UNCHANGED <<dma, cb>>
    BY <1>4 DEF ThreadCalls, ThreadRuns
  <2> QED BY <1>1, <1>2, <1>3, <2>1 DEF Writing, ThreadSender
<1>5. CASE ThreadRetries
  BY <1>1, <1>2, <1>3, <1>5 DEF ThreadRetries, ThreadRuns, Writing, ThreadSender
<1>6. CASE ThreadAllocates
  <2>1. call.size \in Int
    BY DEF Inv, Shape
  <2>2. ctx'.Lock = ctx.Lock
    BY <1>1, <1>2, <1>6, <2>1 DEF ThreadAllocates
  <2> QED BY <1>1, <1>3, <1>6, <2>2 DEF ThreadAllocates, ThreadRuns, Writing, ThreadSender
<1>7. CASE ThreadFindsNoRoom
  BY <1>1, <1>3, <1>7 DEF ThreadFindsNoRoom, ThreadRuns, Writing, ThreadSender
<1>8. CASE ThreadRefused
  BY <1>1, <1>2, <1>3, <1>8 DEF ThreadRefused, ThreadRuns, Writing, ThreadSender
<1>9. CASE ThreadWrites
  BY <1>1, <1>3, <1>9 DEF ThreadWrites, ThreadRuns, Writing, ThreadSender
<1>10. CASE ThreadUnlocks
  BY <1>1, <1>2, <1>3, <1>10 DEF ThreadUnlocks, ThreadRuns, Writing, ThreadSender
<1>11. CASE ThreadSends
  <2>1. CASE MaySend(ctx)
    <3>1. tpc' = "presend" /\ ctx' = NextTransfer(Lock(ctx)) /\ ctx.Lock = 0
      BY <1>11, <2>1 DEF ThreadSends, ThreadRuns, MaySend
    <3>2. ctx'.Lock = 1
      BY <1>1, <1>2, <3>1
    <3> QED BY <3>1, <3>2 DEF Writing, Sender, ThreadSender
  <2>2. CASE ~MaySend(ctx)
    BY <1>1, <1>3, <1>11, <2>2 DEF ThreadSends, ThreadRuns, Writing, ThreadSender
  <2> QED BY <2>1, <2>2
<1>12. CASE ThreadPreSendHook
  BY <1>1, <1>3, <1>12 DEF ThreadPreSendHook, ThreadRuns, Writing, ThreadSender
<1>13. CASE ThreadStartsDma
  <2>1. /\ tpc = "driver" /\ tpc' = "idle" /\ ctx' = ctx
        /\ dma' = [ptr |-> ctx.Rd, len |-> ctx.SentSize]
    BY <1>13 DEF ThreadStartsDma, ThreadRuns, DriverSend
  <2>2. dma'.len >= 1 /\ NoDma.len = 0
    BY <2>1 DEF FifoInv, ClaimInv, Claimed, ThreadSender, NoDma
  <2>3. dma' # NoDma
    BY <2>2
  <2> QED BY <2>1, <2>3 DEF Writing, Sender, ThreadSender
<1>14. CASE TransferCompletes
  <2>1. /\ dma # NoDma /\ cb' # "none" /\ tpc' = tpc
        /\ ctx' = AfterTransfer(ctx) \/ ctx' = NextTransfer(AfterTransfer(ctx))
    BY <1>14 DEF TransferCompletes, thread
  <2>2. ctx'.Lock = ctx.Lock
    BY <1>1, <1>2, <2>1
  <2> QED BY <2>1, <2>2 DEF Writing, Sender
<1>15. CASE CbStartsNext
  <2>1. /\ cb = "driver" /\ UNCHANGED <<ctx, tpc>>
        /\ dma' = [ptr |-> ctx.Rd, len |-> ctx.SentSize]
    BY <1>15 DEF CbStartsNext, DriverSend, thread
  <2>2. dma'.len >= 1 /\ NoDma.len = 0
    BY <2>1 DEF FifoInv, ClaimInv, Claimed, NoDma
  <2>3. dma' # NoDma
    BY <2>2
  <2> QED BY <2>1, <2>3 DEF Writing, Sender
<1>16. CASE CbUnlocks
  <2>1. cb = "unlock" /\ cb' = "none" /\ ctx' = UnLock(ctx) /\ UNCHANGED <<dma, tpc>>
    BY <1>16 DEF CbUnlocks, thread
  <2>2. dma = NoDma /\ ~ThreadSender
    BY <2>1 DEF Inv, OneSender, Transfers
  <2> QED BY <1>1, <1>2, <2>1, <2>2 DEF Writing, Sender, ThreadSender
<1>17. ASSUME NEW size \in 1 .. MaxText, IsrTraceOk(size) PROVE Balanced'
  <2> DEFINE d == AllocateBufer(ctx, size)
  <2>1. /\ UNCHANGED <<cb, tpc>>
        /\ IF MaySend(d) THEN ctx' = NextTransfer(Lock(d)) /\ DriverSend(ctx')
           ELSE ctx' = d /\ UNCHANGED dma
    BY <1>17 DEF IsrTraceOk, thread
  <2>2. d \in Ctx /\ d.Lock = ctx.Lock
    BY <1>1, <1>2, Positions
  <2> HIDE DEF d
  <2>3. CASE MaySend(d)
    <3>1. ctx.Lock = 0 /\ ctx'.Lock = 1
      BY <1>2, <2>1, <2>2, <2>3 DEF MaySend
    <3>2. ~Writing /\ ~ThreadSender
      BY <3>1, FreeLock DEF Claimed
    <3>3. dma' # NoDma
      BY <1>17, <2>3, IsrFifo DEF d
    <3> QED BY <2>1, <3>1, <3>2, <3>3 DEF Writing, Sender
  <2>4. CASE ~MaySend(d)
    BY <1>1, <1>3, <2>1, <2>2, <2>4 DEF Writing, ThreadSender
  <2> QED BY <2>3, <2>4
<1>18. CASE Idles \/ TransferWakes \/ BuzzerOn \/ BuzzerOff
  BY <1>1, <1>3, <1>18 DEF Idles, TransferWakes, BuzzerOn, BuzzerOff, thread, Writing, ThreadSender
<1>19. CASE InterruptWakes
  <2>1. mode = "stop" => dma = NoDma
    BY DEF Inv, StopInv, BitInv
  <2>2. UNCHANGED <<ctx, dma, cb, tpc>>
    BY <1>19, <2>1 DEF InterruptWakes, thread
  <2> QED BY <1>1, <1>3, <2>2 DEF Writing, ThreadSender
<1>20. CASE UNCHANGED vars
  BY <1>1, <1>3, <1>20 DEF vars, thread, Writing, ThreadSender
<1> QED
  BY <1>4, <1>5, <1>6, <1>7, <1>8, <1>9, <1>10, <1>11, <1>12, <1>13, <1>14, <1>15, <1>16,
     <1>17, <1>18, <1>19, <1>20 DEF Next, ThreadStep

(* TraceLock is balanced: every path through ADV_TRACER_COND_FSend() and   *)
(* TRACE_TxCpltCallback(), refusals included, gives back what it took, so  *)
(* that the counter neither drifts nor wraps.                              *)
THEOREM LockBalance == Spec => []LockIsBalanced
<1>1. Init => Balanced
  <2>1. Init => Inv /\ ctx.Lock = 0 /\ dma = NoDma /\ cb = "none" /\ tpc = "idle"
    BY InitInv DEF Init
  <2> QED BY <2>1 DEF Balanced, Writing, Sender, ThreadSender
<1>2. Spec => []Balanced
  BY <1>1, StepBalanced, FifoInvariance, PTL DEF Spec
<1>3. Balanced => LockIsBalanced
  BY DEF Balanced, Writing, Sender, ThreadSender, LockIsBalanced
<1> QED BY <1>2, <1>3, PTL

-----------------------------------------------------------------------------
(* What is left of the types. *)
RestTyped ==
  /\ isrTraces \in BOOLEAN /\ StopModeDisable \subseteq Lpm_Id
  /\ ctx.SentSize \in Cells /\ ctx.enabled \in Cells
  /\ DOMAIN buffer = Cells
  /\ cb \in {"none", "driver", "unlock"}
  /\ tpc \in {"idle", "retry", "alloc", "write", "unlock", "send", "presend",
              "driver", "refused"}

(* Where a wrapped text ends, and how much a transfer sends, are positions.*)
LEMMA FieldsTyped ==
  ASSUME NEW c \in Ctx, Layout(c), c.SentSize \in Cells, c.enabled \in Cells
  PROVE  /\ c.unchunk # "transfer" /\ c.Rd # c.Wr =>
              NextTransfer(c).SentSize \in Cells /\ NextTransfer(c).enabled \in Cells
         /\ AfterTransfer(c).SentSize \in Cells /\ AfterTransfer(c).enabled \in Cells
         /\ \A size \in Nat : /\ AllocateBufer(c, size).SentSize \in Cells
                             /\ AllocateBufer(c, size).enabled \in Cells
<1>1. ASSUME c.unchunk # "transfer", c.Rd # c.Wr
      PROVE  NextTransfer(c).SentSize \in Cells
  <2> DEFINE e == NextTransfer(c)
  <2>1. e \in Ctx /\ 0 \in Int
    BY PositionsOnly
  <2>2. Layout(e) /\ 1 <= e.SentSize /\ e.SentSize <= FirstPart(e)
    BY <1>1, ClaimTakesOldest
  <2> HIDE DEF e
  <2>3. e.Rd + FirstPart(e) < FIFO_SIZE /\ FirstPart(e) \in Nat /\ e.Rd \in Cells
    BY <2>1, <2>2, LayoutFacts DEF Layout
  <2>4. e.SentSize \in Int
    BY <2>1 DEF Ctx
  <2>5. e.SentSize \in Cells
    BY <2>2, <2>3, <2>4, Positions
  <2> QED BY <2>5 DEF e
<1>2. NextTransfer(c).enabled \in Cells
  <2> DEFINE u == CASE c.unchunk # "detected" -> c
                    [] c.unchunk = "detected" /\ c.enabled > c.Rd ->
                         [c EXCEPT !.unchunk = "transfer",
                                   !.SentSize = c.enabled - c.Rd, !.enabled = 0]
                    [] OTHER -> [c EXCEPT !.unchunk = "none", !.Rd = 0, !.enabled = 0]
             n == IF u.Wr > u.Rd THEN u.Wr - u.Rd ELSE FIFO_SIZE - u.Rd
  <2>0. 0 \in Cells /\ 0 \in Int
    BY Positions
  <2>1. u \in Ctx /\ u.enabled \in Cells
    <3>1. ASSUME NEW a \in Int, NEW b \in Cells, b \in Int
          PROVE  /\ [c EXCEPT !.unchunk = "transfer", !.SentSize = a, !.enabled = b] \in Ctx
                 /\ [c EXCEPT !.unchunk = "none", !.Rd = a, !.enabled = b] \in Ctx
                 /\ [c EXCEPT !.unchunk = "transfer", !.SentSize = a, !.enabled = b].enabled = b
                 /\ [c EXCEPT !.unchunk = "none", !.Rd = a, !.enabled = b].enabled = b
      BY <3>1 DEF Ctx
    <3>2. c.enabled - c.Rd \in Int
      BY DEF Ctx
    <3>3. CASE c.unchunk # "detected"
      BY <3>3
    <3>4. CASE c.unchunk = "detected" /\ c.enabled > c.Rd
      BY <2>0, <3>1, <3>2, <3>4
    <3>5. CASE c.unchunk = "detected" /\ ~(c.enabled > c.Rd)
      BY <2>0, <3>1, <3>5
    <3> QED BY <3>3, <3>4, <3>5
  <2>2. NextTransfer(c) = IF u.unchunk = "none" THEN [u EXCEPT !.SentSize = n] ELSE u
    BY DEF NextTransfer
  <2> HIDE DEF u, n
  <2> QED BY <2>1, <2>2 DEF Ctx
<1>3. AfterTransfer(c).SentSize \in Cells /\ AfterTransfer(c).enabled \in Cells
  <2>1. \A a : /\ [c EXCEPT !.Rd = a].SentSize = c.SentSize
               /\ [c EXCEPT !.Rd = a].enabled = c.enabled
               /\ [c EXCEPT !.unchunk = "none", !.Rd = a].SentSize = c.SentSize
               /\ [c EXCEPT !.unchunk = "none", !.Rd = a].enabled = c.enabled
    BY DEF Ctx
  <2>2. AfterTransfer(c) = IF c.unchunk = "transfer" THEN [c EXCEPT !.unchunk = "none", !.Rd = 0]
                           ELSE [c EXCEPT !.Rd = (c.Rd + c.SentSize) % FIFO_SIZE]
    BY DEF AfterTransfer, Ctx
  <2> QED BY <2>1, <2>2
<1>4. ASSUME NEW size \in Nat
      PROVE  /\ AllocateBufer(c, size).SentSize \in Cells
             /\ AllocateBufer(c, size).enabled \in Cells
  <2> DEFINE w == IF Wraps(c, size)
                  THEN [c EXCEPT !.unchunk = "detected", !.enabled = c.Wr] ELSE c
             p == (WritePos(c, size) + size) % FIFO_SIZE
  <2>1. w \in Ctx /\ w.SentSize = c.SentSize /\ w.enabled \in Cells
    BY DEF Ctx, Layout
  <2>2. AllocateBufer(c, size) = [w EXCEPT !.Wr = p]
    BY DEF AllocateBufer
  <2> HIDE DEF w, p
  <2> QED BY <2>1, <2>2 DEF Ctx
<1> QED BY <1>1, <1>2, <1>3, <1>4

(* The types are kept. *)
LEMMA StepTyped == Inv /\ FifoInv /\ RestTyped /\ [Next]_vars => RestTyped'
<1> SUFFICES ASSUME Inv, FifoInv, RestTyped, [Next]_vars PROVE RestTyped'
  OBVIOUS
<1>1. ctx \in Ctx /\ Layout(ctx) /\ ctx.SentSize \in Cells /\ ctx.enabled \in Cells
  BY StoredFacts DEF RestTyped
<1>2. \A c \in Ctx : \A d : d = Lock(c) \/ d = UnLock(c) =>
        /\ d \in Ctx /\ d.SentSize = c.SentSize /\ d.enabled = c.enabled
        /\ d.Rd = c.Rd /\ d.Wr = c.Wr /\ d.unchunk = c.unchunk
  BY LockMoves
<1>3. \A c \in Ctx : Layout(Lock(c)) <=> Layout(c)
  BY LockMoves, SamePlaces
<1>4. ctx'.SentSize \in Cells /\ ctx'.enabled \in Cells
  <2>1. CASE ThreadAllocates
    <3>1. call.size \in Nat /\ ctx' = AllocateBufer(ctx, call.size)
      BY <2>1, Positions DEF ThreadAllocates, FifoInv, CallInv, Call
    <3> QED BY <1>1, <3>1, FieldsTyped
  <2>2. CASE ThreadSends
    <3>1. CASE MaySend(ctx)
      <4>1. ctx' = NextTransfer(Lock(ctx)) /\ ctx.Rd # ctx.Wr
        BY <2>2, <3>1 DEF ThreadSends, MaySend
      <4>2. ctx.unchunk # "transfer"
        BY <3>1, FreeLock DEF MaySend, FifoInv, ClaimInv
      <4>3. /\ Lock(ctx) \in Ctx /\ Layout(Lock(ctx))
            /\ Lock(ctx).SentSize \in Cells /\ Lock(ctx).enabled \in Cells
            /\ Lock(ctx).unchunk # "transfer" /\ Lock(ctx).Rd # Lock(ctx).Wr
        BY <1>1, <1>2, <1>3, <4>1, <4>2
      <4> QED BY <4>1, <4>3, FieldsTyped
    <3>2. CASE ~MaySend(ctx)
      BY <1>1, <2>2, <3>2 DEF ThreadSends
    <3> QED BY <3>1, <3>2
  <2>3. CASE TransferCompletes
    <3> DEFINE f == AfterTransfer(ctx)
    <3>1. 1 <= ctx.SentSize /\ ctx.SentSize <= FirstPart(ctx)
      BY <2>3 DEF TransferCompletes, FifoInv, ClaimInv, Claimed
    <3>2. Layout(f) /\ f.unchunk # "transfer"
      BY <1>1, <3>1, TransferDropsOldest
    <3>3. f \in Ctx /\ f.SentSize \in Cells /\ f.enabled \in Cells
      BY <1>1, PositionsOnly, FieldsTyped
    <3>4. \/ ctx' = f
          \/ f.Rd # f.Wr /\ ctx' = NextTransfer(f)
      BY <2>3 DEF TransferCompletes, MayContinue
    <3> HIDE DEF f
    <3> QED BY <3>2, <3>3, <3>4, FieldsTyped
  <2>4. ASSUME NEW size \in 1 .. MaxText, IsrTraceOk(size)
        PROVE  ctx'.SentSize \in Cells /\ ctx'.enabled \in Cells
    <3> DEFINE d == AllocateBufer(ctx, size)
    <3>1. size \in Nat /\ size > 0 /\ size \in Int /\ Fits(ctx, size)
      BY <2>4, Positions DEF IsrTraceOk
    <3>2. d \in Ctx /\ Layout(d) /\ d.SentSize \in Cells /\ d.enabled \in Cells
      BY <1>1, <3>1, PositionsOnly, AllocateAppends, FieldsTyped
    <3>3. d.Lock = ctx.Lock /\ (d.unchunk = "transfer" <=> ctx.unchunk = "transfer")
      BY <1>1, <3>1, PositionsOnly, AllocateAppends
    <3>4. IF MaySend(d) THEN ctx' = NextTransfer(Lock(d)) ELSE ctx' = d
      BY <2>4 DEF IsrTraceOk
    <3> HIDE DEF d
    <3>5. CASE MaySend(d)
      <4>1. d.Rd # d.Wr /\ ctx.Lock = 0
        BY <3>3, <3>5 DEF MaySend
      <4>2. d.unchunk # "transfer"
        BY <3>3, <4>1, FreeLock DEF FifoInv, ClaimInv
      <4>3. /\ Lock(d) \in Ctx /\ Layout(Lock(d))
            /\ Lock(d).SentSize \in Cells /\ Lock(d).enabled \in Cells
            /\ Lock(d).unchunk # "transfer" /\ Lock(d).Rd # Lock(d).Wr
        BY <1>2, <1>3, <3>2, <4>1, <4>2
      <4> QED BY <3>4, <3>5, <4>3, FieldsTyped
    <3>6. CASE ~MaySend(d)
      BY <3>2, <3>4, <3>6
    <3> QED BY <3>5, <3>6
  <2>5. CASE ctx' = Lock(ctx) \/ ctx' = UnLock(ctx) \/ ctx' = ctx
    BY <1>1, <1>2, <2>5
  <2>6. \/ ThreadAllocates \/ ThreadSends \/ TransferCompletes
        \/ \E size \in 1 .. MaxText : IsrTraceOk(size)
        \/ ctx' = Lock(ctx) \/ ctx' = UnLock(ctx) \/ ctx' = ctx
    BY DEF Next, ThreadStep, ThreadCalls, ThreadRetries, ThreadFindsNoRoom, ThreadRefused,
           ThreadWrites, ThreadUnlocks, ThreadPreSendHook, ThreadStartsDma, CbStartsNext,
           CbUnlocks, Idles, TransferWakes, InterruptWakes, BuzzerOn, BuzzerOff, vars
  <2> QED BY <2>1, <2>2, <2>3, <2>4, <2>5, <2>6
<1>5. DOMAIN buffer' = Cells
  <2>1. CASE ThreadWrites
    BY <2>1 DEF ThreadWrites, Written
  <2>2. CASE TransferCompletes
    BY <2>2 DEF TransferCompletes
  <2>3. ASSUME NEW size \in 1 .. MaxText, IsrTraceOk(size) PROVE DOMAIN buffer' = Cells
    BY <2>3 DEF IsrTraceOk, Written
  <2>4. CASE UNCHANGED buffer
    BY <2>4 DEF RestTyped
  <2>5. \/ ThreadWrites \/ TransferCompletes \/ UNCHANGED buffer
        \/ \E size \in 1 .. MaxText : IsrTraceOk(size)
    BY DEF Next, ThreadStep, ThreadCalls, ThreadRetries, ThreadFindsNoRoom, ThreadRefused,
           ThreadUnlocks, ThreadPreSendHook, ThreadStartsDma, CbStartsNext,
           CbUnlocks, Idles, TransferWakes, InterruptWakes, BuzzerOn, BuzzerOff, vars,
           ThreadAllocates, ThreadSends
  <2> QED BY <2>1, <2>2, <2>3, <2>4, <2>5
<1>6. StopModeDisable' \subseteq Lpm_Id
  <2>1. \/ UNCHANGED StopModeDisable
        \/ DisableStop("UART_TRACER") \/ EnableStop("UART_TRACER")
        \/ DisableStop("TIM_BUZZER") \/ EnableStop("TIM_BUZZER")
    BY DEF Next, ThreadStep, ThreadCalls, ThreadRetries, ThreadFindsNoRoom, ThreadRefused,
           ThreadWrites, ThreadUnlocks, ThreadPreSendHook, ThreadStartsDma, CbStartsNext,
           CbUnlocks, Idles, TransferWakes, InterruptWakes, BuzzerOn, BuzzerOff, vars, lpmVars,
           ThreadAllocates, ThreadSends, TransferCompletes, IsrTraceOk, PostSendHook,
           LPM_EnterLowPower
  <2> QED BY <2>1 DEF RestTyped, Lpm_Id, DisableStop, EnableStop
<1>7. isrTraces' \in BOOLEAN
  <2>1. UNCHANGED isrTraces
    BY DEF Next, ThreadStep, ThreadCalls, ThreadRetries, ThreadFindsNoRoom, ThreadRefused,
           ThreadWrites, ThreadUnlocks, ThreadPreSendHook, ThreadStartsDma, CbStartsNext,
           CbUnlocks, Idles, TransferWakes, InterruptWakes, BuzzerOn, BuzzerOff, vars,
           ThreadAllocates, ThreadSends, TransferCompletes, IsrTraceOk, ThreadRuns
  <2> QED BY <2>1 DEF RestTyped
<1>8. cb' \in {"none", "driver", "unlock"}
  BY DEF RestTyped, Next, ThreadStep, ThreadCalls, ThreadRetries, ThreadFindsNoRoom,
         ThreadRefused, ThreadWrites, ThreadUnlocks, ThreadPreSendHook, ThreadStartsDma,
         CbStartsNext, CbUnlocks, Idles, TransferWakes, InterruptWakes, BuzzerOn, BuzzerOff,
         vars, ThreadAllocates, ThreadSends, TransferCompletes, IsrTraceOk
<1>9. tpc' \in {"idle", "retry", "alloc", "write", "unlock", "send", "presend", "driver", "refused"}
  <2>1. CASE ThreadStep \/ \E size \in 1 .. MaxText : \E polls \in BOOLEAN : ThreadCalls(size, polls)
    BY <2>1 DEF ThreadStep, ThreadCalls, ThreadRetries, ThreadFindsNoRoom, ThreadRefused,
         ThreadWrites, ThreadUnlocks, ThreadPreSendHook, ThreadStartsDma, ThreadAllocates,
         ThreadSends, ThreadRuns
  <2>2. CASE ~(ThreadStep \/ \E size \in 1 .. MaxText : \E polls \in BOOLEAN : ThreadCalls(size, polls))
    <3>1. tpc' = tpc
      BY <2>2 DEF Next, CbStartsNext, CbUnlocks, Idles, TransferWakes, InterruptWakes, BuzzerOn,
         BuzzerOff, vars, thread, TransferCompletes, IsrTraceOk
    <3> QED BY <3>1 DEF RestTyped
  <2> QED BY <2>1, <2>2
<1> QED BY <1>4, <1>5, <1>6, <1>7, <1>8, <1>9 DEF RestTyped

(* Every variable keeps its type; the lock never counts more than two.     *)
THEOREM TypeCorrect == Spec => []TypeOK
<1>1. Init => RestTyped
  <2> SUFFICES ASSUME Init PROVE RestTyped
    OBVIOUS
  <2>1. 0 \in Cells
    BY Positions
  <2>2. ctx.SentSize = 0 /\ ctx.enabled = 0 /\ DOMAIN buffer = Cells
    BY DEF Init
  <2> QED BY <2>1, <2>2 DEF Init, LPM_Init, RestTyped
<1>2. Spec => []RestTyped
  BY <1>1, StepTyped, FifoInvariance, PTL DEF Spec
<1>3. ASSUME Inv, FifoInv, RestTyped, LockIsBalanced PROVE TypeOK
  <2>1. LpmTypeOK
    BY <1>3 DEF LpmTypeOK, Inv, Shape, RestTyped
  <2>2. ctx \in [Rd : Cells, Wr : Cells, SentSize : Cells, Lock : 0 .. 3,
                unchunk : {"none", "detected", "transfer"}, enabled : Cells]
    <3>1. ctx.Lock \in 0 .. 3
      BY <1>3 DEF LockIsBalanced
    <3>2. ctx \in Ctx /\ ctx.Rd \in Cells /\ ctx.Wr \in Cells
      BY <1>3, StoredFacts DEF Layout
    <3> QED BY <1>3, <3>1, <3>2 DEF Ctx, RestTyped
  <2>3. dma \in [ptr : Cells, len : Cells]
    <3>1. CASE dma = NoDma
      BY <3>1, Positions DEF NoDma
    <3>2. CASE dma # NoDma
      BY <1>3, <2>2, <3>2 DEF FifoInv, ClaimInv
    <3> QED BY <3>1, <3>2
  <2>4. Len(pending) < FIFO_SIZE
    BY <1>3, StoredFacts, LayoutFacts
  <2> QED BY <1>3, <2>1, <2>2, <2>3, <2>4 DEF TypeOK, RestTyped, FifoInv, CallInv, Call
<1> QED BY <1>2, <1>3, FifoInvariance, LockBalance, PTL
=============================================================================
