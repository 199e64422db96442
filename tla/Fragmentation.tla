--------------------------- MODULE Fragmentation ---------------------------
(***************************************************************************)
(* The fragmented data block package, packages/LmhpFragmentation.c, with   *)
(* one session, and the server that sends it a file.                       *)
(*                                                                         *)
(* The task runs LmHandlerProcess(): OnMcpsIndicationProcess for a downlink*)
(* on its port, then Process(), whose reading of TxDelayState and whose use *)
(* of it are two steps: the timer interrupt comes in between.  A downlink  *)
(* is a sequence of commands.  What the answers say is left out.           *)
(***************************************************************************)
EXTENDS FragDecoder, Sequences

CONSTANTS
  Frames,         \* the downlinks the server may send
  TxDelayTime     \* the delay of an answer, in ticks

Commands ==
  [name : {"version", "setup", "delete"}] \cup [name : {"status"}, all : BOOLEAN]
    \cup [name : {"data"}, counter : Counters]

ASSUME FramesAssumption == Frames \subseteq Seq(Commands)
ASSUME DelayAssumption == TxDelayTime \in Nat \ {0}

VARIABLES
  session,     \* FragSessionData[0]: IsActive, FragDecoderProcessStatus
  dec,         \* FragDecoder
  txDelay,     \* LmhpFragmentationState.TxDelayState
  timer,       \* FragmentTxDelayTimer: ticks left, 0 when it does not run
  pc,          \* where the task is
  seen,        \* delayTimerState of Process()
  owed,        \* history: a delayed answer was composed and has not gone out
  used,        \* history: the fragments the decoder took since the setup
  told         \* history: the calls of OnDone() since the setup, counted to 2

package == <<session, dec, used, told>>
vars    == <<package, txDelay, timer, pc, seen, owed>>

TypeOK ==
  /\ session \in [active : BOOLEAN, status : -2 .. FragNb]
  /\ dec \in DecoderType
  /\ {txDelay, seen} \subseteq {"idle", "start", "pending"}
  /\ timer \in 0 .. TxDelayTime /\ owed \in BOOLEAN
  /\ pc \in {"idle", "read", "act"}
  /\ used \subseteq Counters
  /\ told \in 0 .. 2

Init ==
  /\ session = [active |-> FALSE, status |-> 0]     \* cleared memory
  /\ dec = [FragDecoderInit EXCEPT !.missing = [r \in Rows |-> 0]]
  /\ txDelay = "idle" /\ timer = 0 /\ pc = "idle" /\ seen = "idle"
  /\ owed = FALSE /\ used = {} /\ told = 0

-----------------------------------------------------------------------------
(* The commands: what each makes of                                        *)
(*   st == [session, dec, used, told, answers, delayed, skip]              *)
(* "skip": the rest of the frame is not read.                              *)

PkgVersion(st) == [st EXCEPT !.answers = @ + 1]

(* "all": every participant answers, not only those that miss fragments.   *)
FragStatus(st, all) ==
  IF all \/ st.dec.lost > 0
  THEN [st EXCEPT !.answers = @ + 1, !.delayed = TRUE] ELSE st

(* The file fits, so the setup is accepted.  MatrixError is not reset. *)
SessionSetup(st) ==
  [st EXCEPT !.session = [active |-> TRUE, status |-> FRAG_SESSION_ONGOING],
             !.dec = [FragDecoderInit EXCEPT !.matrixError = st.dec.matrixError],
             !.used = {}, !.told = 0,
             !.answers = @ + 1, !.delayed = FALSE]

SessionDelete(st) ==
  [st EXCEPT !.session.active = FALSE,
             !.answers = @ + 1, !.delayed = FALSE]

Decodes(st, counter) ==
  LET p == FragDecoderProcess(st.dec, counter)
  IN [st EXCEPT !.dec = p.dec, !.session.status = p.status,
                !.used = IF IsOutOfOrder(st.dec, counter) THEN @ ELSE @ \cup {counter}]

(* OnDone() *)
TellsDone(st) ==
  [st EXCEPT !.told = Min({@ + 1, 2}), !.session.status = FRAG_SESSION_NOT_STARTED]

(* Mutant: no missing row is no result to report. *)
DataFragmentPositive(st, counter) ==
  IF ~st.session.active THEN [st EXCEPT !.skip = TRUE]
  ELSE IF st.session.status = FRAG_SESSION_ONGOING THEN Decodes(st, counter)
  ELSE IF st.session.status > 0 THEN TellsDone(st)
  ELSE st

(* The fragment after the one that finished the session reports it. *)
DataFragment(st, counter) ==
  IF ~st.session.active THEN [st EXCEPT !.skip = TRUE]
  ELSE IF st.session.status = FRAG_SESSION_ONGOING THEN Decodes(st, counter)
  ELSE IF st.session.status >= 0 THEN TellsDone(st)
  ELSE st

Command(st, cmd) ==
  IF st.skip THEN st
  ELSE CASE cmd.name = "version" -> PkgVersion(st)
         [] cmd.name = "status"  -> FragStatus(st, cmd.all)
         [] cmd.name = "setup"   -> SessionSetup(st)
         [] cmd.name = "delete"  -> SessionDelete(st)
         [] cmd.name = "data"    -> DataFragment(st, cmd.counter)

-----------------------------------------------------------------------------
(* The task *)

(* The state after every command of the frame. *)
Obeyed(st, frame) ==
  LET upto[k \in 0 .. Len(frame)] ==
        IF k = 0 THEN st ELSE Command(upto[k - 1], frame[k])
  IN upto[Len(frame)]

(* LmhpFragmentationOnMcpsIndication: an answer that is not delayed is     *)
(* sent at once, and lost when the MAC refuses it.                         *)
OnMcpsIndication(frame) ==
  LET st == Obeyed([session |-> session, dec |-> dec, used |-> used, told |-> told,
                    answers |-> 0, delayed |-> FALSE, skip |-> FALSE], frame)
  IN /\ pc = "idle" /\ pc' = "read"
     /\ session' = st.session /\ dec' = st.dec /\ used' = st.used /\ told' = st.told
     /\ IF st.answers > 0 /\ st.delayed
        THEN txDelay' = "start" /\ owed' = TRUE
        ELSE UNCHANGED <<txDelay, owed>>
     /\ UNCHANGED <<timer, seen>>

(* LmHandlerProcess() for any other MAC event. *)
MacEvent ==
  /\ pc = "idle" /\ pc' = "read"
  /\ UNCHANGED <<package, txDelay, timer, seen, owed>>

(* LmhpFragmentationProcess(): its critical section. *)
ProcessReads ==
  /\ pc = "read" /\ pc' = "act" /\ seen' = txDelay
  /\ UNCHANGED <<package, txDelay, timer, owed>>

(* PENDING: "sent" is what OnSendRequest() says. *)
ProcessSends(sent) ==
  /\ pc = "act" /\ seen = "pending" /\ pc' = "idle"
  /\ txDelay' = (IF sent THEN "idle" ELSE txDelay)
  /\ owed' = (owed /\ ~sent)
  /\ UNCHANGED <<package, timer, seen>>

(* START: TimerSetValue() stops a timer that runs and starts it again with *)
(* the whole delay; TimerStart() starts one that does not run.             *)
ProcessStartsTimer ==
  /\ pc = "act" /\ seen = "start" /\ pc' = "idle"
  /\ timer' = TxDelayTime
  /\ UNCHANGED <<package, txDelay, seen, owed>>

ProcessIdles ==
  /\ pc = "act" /\ seen = "idle" /\ pc' = "idle"
  /\ UNCHANGED <<package, txDelay, timer, seen, owed>>

TimePasses ==
  /\ timer > 1 /\ timer' = timer - 1
  /\ UNCHANGED <<package, txDelay, pc, seen, owed>>

(* Mutant: the timer fires and does not change the state. *)
OnFragmentTxDelayIdle ==
  /\ timer = 1 /\ timer' = 0
  /\ UNCHANGED <<package, txDelay, pc, seen, owed>>

(* The timer interrupt, which stops the timer. *)
OnFragmentTxDelay ==
  /\ timer = 1 /\ timer' = 0
  /\ txDelay' = "pending"
  /\ UNCHANGED <<package, pc, seen, owed>>

Next ==
  \/ \E frame \in Frames : OnMcpsIndication(frame)
  \/ MacEvent
  \/ ProcessReads
  \/ \E sent \in BOOLEAN : ProcessSends(sent)
  \/ ProcessStartsTimer \/ ProcessIdles
  \/ TimePasses \/ OnFragmentTxDelay

Spec == Init /\ [][Next]_vars

(* Is there a result to report, or was it reported? *)
IsDone == (session.active /\ session.status >= 0) \/ told > 0

(* The server repeats the coded fragments; one gets through that the       *)
(* decoder lacks, or any one when it lacks none.                           *)
CodedFragmentArrives ==
  \E c \in Counters \ Rows :
    /\ c \in used => Counters \ Rows \subseteq used
    /\ OnMcpsIndication(<<[name |-> "data", counter |-> c]>>)

(* The task runs to its end, MAC events do not cease, time passes, and the *)
(* MAC, asked again and again, takes the answer.  The timer fires when it  *)
(* is left alone: a restart gives it the whole delay again.                *)
Fairness ==
  /\ WF_vars(ProcessReads) /\ WF_vars(ProcessStartsTimer) /\ WF_vars(ProcessIdles)
  /\ WF_vars(MacEvent)
  /\ WF_vars(TimePasses) /\ WF_vars(OnFragmentTxDelay)
  /\ SF_vars(ProcessSends(TRUE)) /\ WF_vars(\E sent \in BOOLEAN : ProcessSends(sent))
  /\ []<><<CodedFragmentArrives>>_vars

FairSpec == Spec /\ Fairness

-----------------------------------------------------------------------------
(* A session that is finished without giving up has rebuilt the whole file,*)
(* whatever fragments were lost, repeated or out of order: elimination and *)
(* back substitution lose and invent nothing.                              *)
DoneIsWhole == IsDone => IsWhole(dec) \/ dec.lost > FRAG_MAX_REDUNDANCY

(* The decoder asks for no more than it needs: it is finished as soon as   *)
(* the fragments it took determine the file, once a coded one came, and    *)
(* not before, FRAG_MAX_REDUNDANCY missing rows allowing.                  *)
DoneWhenDetermined ==
  session.active /\ dec.last = FragNb + 1 /\ used \ Rows # {}
    => \/ dec.lost > FRAG_MAX_REDUNDANCY
       \/ IsDone <=> Determine(used)

(* The decoder knows which rows it lacks: the missing rows are numbered    *)
(* 1..FragNbLost without a gap, and each line of the matrix is what the    *)
(* data stored for its row really is.                                      *)
MatrixMatchesFile ==
  ~IsDone /\ session.active =>
    LET row(i) == FragFindMissingIndex(dec, i)
        seenRows == {r \in Rows : r < dec.last}
    IN /\ {dec.missing[r] : r \in {x \in seenRows : x \notin used}} = 1 .. dec.lost
       /\ \A i \in S(dec) : dec.file[row(i)] = {row(j) : j \in dec.lines[i]}

(* The application hears of a session's end once. *)
DoneIsToldOnce == told <= 1

(* A delayed answer that was composed waits for its timer or for the MAC   *)
(* until it goes out; it is never forgotten.                               *)
AnswerIsOnItsWay ==
  /\ owed => txDelay # "idle"
  /\ txDelay = "start" /\ pc = "idle" => timer > 0

(* It does go out, unless the server asks again and again while an answer  *)
(* waits for the MAC, which starts a new delay, or Process() runs more     *)
(* often than the delay for ever, so that it restarts the timer each time  *)
(* before it has fired.  A delay that was once left alone to its end       *)
(* brings the answer, however the interrupt meets the steps of Process().  *)
AsksAgain == txDelay = "pending" /\ txDelay' = "start"

PutsOff == ProcessStartsTimer /\ timer > 0

PutOffForEver == []<><<PutsOff>>_vars /\ <>[][~OnFragmentTxDelay]_vars

AnswerLeaves == []<>(~owed) \/ []<><<AsksAgain>>_vars \/ PutOffForEver

(* Not so in the code: an answer is delayed by rand(0:1) * 2^(n + 4)       *)
(* seconds and "34 minutes" at most (LmhpFragmentation.c, the comment      *)
(* above its computation), yet Process() gives it the whole delay again    *)
(* each time it runs: with MAC events closer than the delay the answer     *)
(* never leaves.                                                           *)
DelayEnds == []<>(~owed) \/ []<><<AsksAgain>>_vars

(* A file of which no more rows were lost than the coded fragments can     *)
(* make up for is reported, when those fragments are repeated and the      *)
(* server leaves the session alone.                                        *)
Recoverable ==
  /\ session.active /\ dec.last = FragNb + 1 /\ dec.lost <= FRAG_MAX_REDUNDANCY
  /\ Determine((used \cap Rows) \cup (Counters \ Rows))

FileIsReported == Recoverable ~> (told > 0 \/ ~Recoverable)

(* Finding: OnDone() is for a session that is "successfully done"          *)
(* (LmhpFragmentation.c, the comment above the call), yet it is also called*)
(* for one that lost too many rows: FragDecoderProcess() then returns the  *)
(* value of success.                                                       *)
OnDoneIsSuccess == told > 0 => IsWhole(dec)
=============================================================================
