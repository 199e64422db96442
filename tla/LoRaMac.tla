------------------------------- MODULE LoRaMac -------------------------------
(***************************************************************************)
(* The LoRaWAN MAC of LoRaMac.c for classes A and C, over the timers and   *)
(* the interrupts of the radio driver (radio.c), and under the LoRaMAC     *)
(* handler (LmHandler.c).                                                  *)
(*                                                                         *)
(* Two kinds of code run.  The thread, in tasks of the sequencer that do   *)
(* not preempt one another: LoRaMacProcess() (the Mac... actions), and the *)
(* application that sends (the App... actions).  And the interrupts, which *)
(* come between any two steps of the thread: the radio, which leaves bits  *)
(* in LoRaMacRadioEvents, and the timers of the MAC, whose callbacks open  *)
(* receive windows and send.                                               *)
(*                                                                         *)
(* MacCtx and the radio are one record, mac, and a function of the source  *)
(* is an operator from a record to a record: a handler is the composition  *)
(* of what it calls, in the order it calls it.                             *)
(***************************************************************************)
EXTENDS Integers, FiniteSets, ConfirmQueue

CONSTANTS
  ChannelsNbTrans,   \* transmissions of an unconfirmed uplink
  NbTrials,          \* transmissions of a confirmed uplink
  DefaultClass,      \* LmHandlerParams.DefaultClass
  AppClasses,        \* classes the application asks for
  AppTypes,          \* kinds of uplink the application sends
  DelayedTypes,      \* kinds it sends with allowDelayedTx
  Frames,            \* downlinks the device may hear
  Outcomes,          \* what ScheduleTx() may find when the thread calls it
  IsrOutcomes,       \* and when the TxDelayed timer calls it
  Faults,            \* what may go wrong: see each fault where it is used
  MaxUplinks,        \* bound on the uplinks accepted
  MaxJoins           \* bound on the join requests accepted

Classes == {"A", "C"}
Types == {"UNCONFIRMED", "CONFIRMED"}
FrameKinds ==
  {"accept", "badAccept", "foreign", "repeated", "data", "pending", "ack", "proprietary"}
FaultKinds == {"txTimeout", "crcError", "longFrame", "preempt"}
ScheduleOutcomes == {"OK", "DUTYCYCLE_RESTRICTED", "NO_WAIT_TIME", "ERROR"}

ASSUME LoRaMacAssumption ==
  /\ ChannelsNbTrans \in Nat \ {0} /\ NbTrials \in Nat \ {0}
  /\ DefaultClass \in Classes /\ AppClasses \subseteq Classes
  /\ AppTypes \subseteq Types /\ DelayedTypes \subseteq AppTypes
  /\ Frames \subseteq FrameKinds /\ Faults \subseteq FaultKinds
  /\ Outcomes \subseteq ScheduleOutcomes /\ IsrOutcomes \subseteq ScheduleOutcomes
  /\ MaxUplinks \in Nat /\ MaxJoins \in Nat
  /\ "JOIN" \in Requests

VARIABLES
  mac,          \* MacCtx, the confirm queue, the radio, and the history of the uplink
  radioEvents,  \* LoRaMacRadioEvents
  frame,        \* the downlink RxDoneParams points to
  pc,           \* where LoRaMacProcess() is
  taken         \* the events it has taken and not handled yet

vars == <<mac, radioEvents, frame, pc, taken>>

MacStates == {"STOPPED", "TX_RUNNING", "TX_DELAYED", "RX_ABORT"}
Flags == {"McpsReq", "MlmeReq", "McpsInd", "MacDone"}
Slots == {"NONE", "WIN_1", "WIN_2", "CLASS_C"}
RadioEvents == {"TxDone", "RxDone", "TxTimeout", "RxError", "RxTimeout"}

(* What the upper layer was last told of an uplink, with the history it is *)
(* judged by: the transmissions begun, whether one of them was completed,  *)
(* and whether a repetition could not be scheduled.                        *)
Verdict == [type: Types, ok: BOOLEAN, ack: BOOLEAN,
            tries: 0..(NbTrials + ChannelsNbTrans), sent: BOOLEAN, gaveUp: BOOLEAN]

History == [uplink: 0..MaxUplinks, onAir: [frame: 0..MaxUplinks, fCnt: 0..MaxUplinks],
            tries: 0..(NbTrials + ChannelsNbTrans), sent: BOOLEAN, gaveUp: BOOLEAN,
            owed: 0..MaxUplinks, joins: 0..MaxJoins, verdict: Verdict]

MacContext ==
  [radio: {"idle", "tx", "rx", "rxc"}, radioTimers: SUBSET {"tx", "rx"},
   MacState: SUBSET MacStates, MacFlags: SUBSET Flags, RxSlot: Slots,
   DeviceClass: Classes, joined: BOOLEAN, msg: {"JOIN", "DATA"},
   NodeAckRequested: BOOLEAN, AckTimeoutRetry: BOOLEAN,
   nbTrans: 0..ChannelsNbTrans, retries: 1..NbTrials, maxRetries: 1..NbTrials,
   timers: SUBSET {"RX1", "RX2", "ACK", "DELAYED"}, late: BOOLEAN,
   confirm: [type: Types, ok: BOOLEAN, ack: BOOLEAN],
   ind: [slot: Slots, ok: BOOLEAN, pending: BOOLEAN],
   FCntUp: 0..MaxUplinks, queue: Seq(Element), notified: BOOLEAN, hist: History]

NoUplink == [frame |-> 0, fCnt |-> 0]
NoVerdict == [type |-> "UNCONFIRMED", ok |-> FALSE, ack |-> FALSE,
              tries |-> 0, sent |-> FALSE, gaveUp |-> FALSE]

(* LoRaMacInitialization() has run, LmHandlerJoin() has not.               *)
Init ==
  /\ mac = [radio |-> "idle", radioTimers |-> {},
            MacState |-> {"STOPPED"}, MacFlags |-> {}, RxSlot |-> "NONE",
            DeviceClass |-> "A", joined |-> FALSE, msg |-> "JOIN",
            NodeAckRequested |-> FALSE, AckTimeoutRetry |-> FALSE,
            nbTrans |-> 0, retries |-> 1, maxRetries |-> 1,
            timers |-> {}, late |-> TRUE,
            confirm |-> [type |-> "UNCONFIRMED", ok |-> FALSE, ack |-> FALSE],
            ind |-> [slot |-> "NONE", ok |-> FALSE, pending |-> FALSE],
            FCntUp |-> 0, queue |-> <<>>, notified |-> FALSE,
            hist |-> [uplink |-> 0, onAir |-> NoUplink, tries |-> 0, sent |-> FALSE,
                      gaveUp |-> FALSE, owed |-> 0, joins |-> 0, verdict |-> NoVerdict]]
  /\ radioEvents = {} /\ frame = "foreign" /\ pc = "idle" /\ taken = {}

------------------------------------------------------------------------------
(* The radio: its mode and its two software timers.                        *)

RadioSleep(m) == [m EXCEPT !.radio = "idle"]

RadioSend(m) == [m EXCEPT !.radio = "tx", !.radioTimers = @ \cup {"tx"}]

(* RegionXXRxConfig refuses a radio that is not idle.                      *)
RxConfig(m, mode, slot) ==
  IF m.radio = "idle" THEN [m EXCEPT !.radio = mode, !.RxSlot = slot] ELSE m

(* The radio is put in standby first, so that RxConfig does not refuse.    *)
RxWindowSetup(m, timer, slot) ==
  [RxConfig(RadioSleep(m), "rx", slot) EXCEPT
     !.timers = @ \ {timer}, !.radioTimers = @ \cup {"rx"}]

OpenContinuousRxCWindow(m) == RxConfig(m, "rxc", "CLASS_C")

UpdateRxSlotIdleState(m) ==
  [m EXCEPT !.RxSlot = IF m.DeviceClass = "C" THEN "CLASS_C" ELSE "NONE"]

------------------------------------------------------------------------------
(* Transmission.                                                           *)

FCntOfRepeats(m) ==                        \* mutant: >= for >
  IF m.nbTrans >= 1 \/ m.retries >= 1 THEN m.FCntUp ELSE m.FCntUp + 1

(* SecureFrame: a repetition takes the counter of the first transmission,  *)
(* which LoRaMacCryptoSecureMessage() stored.                              *)
FCntOf(m) ==
  IF m.nbTrans >= 1 \/ m.retries > 1 THEN m.FCntUp ELSE m.FCntUp + 1

SecureFrame(m) ==
  IF m.msg = "JOIN" THEN m
  ELSE [m EXCEPT !.FCntUp = FCntOf(m),
                 !.hist.onAir = [frame |-> m.hist.uplink, fCnt |-> FCntOf(m)],
                 !.hist.tries = @ + 1]

SendFrameOnChannel(m) ==
  LET secured == SecureFrame([m EXCEPT !.confirm.ok = FALSE])
  IN  RadioSend([secured EXCEPT
        !.MacState = @ \cup {"TX_RUNNING"},
        !.nbTrans = IF m.NodeAckRequested THEN @ ELSE @ + 1])

(* The outcome stands for what the region, the duty cycle and the size of  *)
(* the frame allow.  NO_WAIT_TIME is DUTYCYCLE_RESTRICTED with nothing to  *)
(* wait for, of a band whose credits are just what the frame costs: the    *)
(* request is accepted, and nothing is sent or started.                    *)
ScheduleTx(m, allowDelayedTx, outcome) ==
  CASE outcome = "OK" -> [mac |-> SendFrameOnChannel(m), ok |-> TRUE]
    [] outcome = "DUTYCYCLE_RESTRICTED" /\ allowDelayedTx ->
         [mac |-> [m EXCEPT !.MacState = @ \cup {"TX_DELAYED"},
                            !.timers = @ \cup {"DELAYED"}],
          ok |-> TRUE]
    [] outcome = "NO_WAIT_TIME" /\ allowDelayedTx -> [mac |-> m, ok |-> TRUE]
    [] OTHER -> [mac |-> m, ok |-> FALSE]

StopRetransmission(m) ==
  [m EXCEPT !.nbTrans = 0, !.NodeAckRequested = FALSE, !.AckTimeoutRetry = FALSE,
            !.MacState = @ \ {"TX_RUNNING"}]

OnTxDelayedTimerEvent(m, outcome) ==
  LET woken == [m EXCEPT !.timers = @ \ {"DELAYED"}, !.MacState = @ \ {"TX_DELAYED"}]
      try == ScheduleTx(woken, TRUE, outcome)
  IN  IF try.ok THEN try.mac
      ELSE StopRetransmission([try.mac EXCEPT !.confirm.ok = FALSE,
                                 !.queue = SetStatusCmn(@, FALSE),
                                 !.hist.gaveUp = TRUE])

OnAckTimeoutOnlyNotes(m) ==                \* mutant: class C does not finish
  [m EXCEPT !.timers = @ \ {"ACK"}, !.AckTimeoutRetry = @ \/ m.NodeAckRequested,
            !.notified = TRUE]

OnAckTimeoutTimerEvent(m) ==
  [m EXCEPT !.timers = @ \ {"ACK"},
            !.AckTimeoutRetry = @ \/ m.NodeAckRequested,
            !.MacFlags = IF m.DeviceClass = "C" THEN @ \cup {"MacDone"} ELSE @,
            !.notified = TRUE]

------------------------------------------------------------------------------
(* Requests of the upper layer.                                            *)

LoRaMacIsBusy(m) == m.MacState # {}

(* Leaving class C does not touch RxSlot.                                  *)
SwitchClass(m, class) ==
  CASE m.DeviceClass = "A" /\ class = "C" ->
         OpenContinuousRxCWindow(
           RadioSleep([m EXCEPT !.DeviceClass = "C", !.NodeAckRequested = FALSE]))
    [] m.DeviceClass = "C" /\ class = "A" ->
         RadioSleep([m EXCEPT !.DeviceClass = "A"])
    [] OTHER -> m

(* LoRaMacMibSetRequestConfirm() refuses while TX_RUNNING.                 *)
LmHandlerRequestClass(m, class) ==
  IF m.joined /\ m.DeviceClass # class /\ "TX_RUNNING" \notin m.MacState
  THEN SwitchClass(m, class) ELSE m

ResetMacParameters(m) ==
  [m EXCEPT !.joined = FALSE, !.nbTrans = 0, !.maxRetries = 1, !.retries = 1,
            !.AckTimeoutRetry = FALSE, !.NodeAckRequested = FALSE]

(* LoRaMacMlmeRequest( MLME_JOIN ), after LoRaMacStart().                  *)
LmHandlerJoin(m, outcome) ==
  LET started == [m EXCEPT !.MacState = {}]
      reset == ResetMacParameters([started EXCEPT !.MacFlags = @ \cup {"MlmeReq"}])
      try == ScheduleTx([SwitchClass(reset, "A") EXCEPT !.msg = "JOIN"], FALSE, outcome)
  IN  CASE IsFull(m.queue) -> started
        [] ~IsFull(m.queue) /\ try.ok ->
             [try.mac EXCEPT !.queue = Add(@, "JOIN"), !.hist.joins = @ + 1]
        [] OTHER ->
             IF m.queue = <<>> THEN [try.mac EXCEPT !.MacFlags = @ \ {"MlmeReq"}]
             ELSE try.mac

(* Send() and PrepareFrame(); the bookkeeping of the frame is history.     *)
PrepareFrame(m, type) ==
  [m EXCEPT !.msg = "DATA", !.NodeAckRequested = (type = "CONFIRMED"),
            !.retries = 1, !.maxRetries = IF type = "CONFIRMED" THEN NbTrials ELSE 1,
            !.confirm = [type |-> @.type, ok |-> FALSE, ack |-> FALSE],
            !.hist.uplink = @ + 1, !.hist.tries = 0,
            !.hist.sent = FALSE, !.hist.gaveUp = FALSE]

LoRaMacMcpsRequest(m, type, allowDelayedTx, outcome) ==
  LET try == ScheduleTx(PrepareFrame(m, type), allowDelayedTx, outcome)
  IN  IF try.ok
      THEN [try.mac EXCEPT !.confirm.type = type, !.MacFlags = @ \cup {"McpsReq"},
                           !.hist.owed = @ + 1]
      ELSE [try.mac EXCEPT !.NodeAckRequested = FALSE, !.hist = m.hist]

LmHandlerSendAnyway(m, type, allowDelayedTx, outcome) ==   \* mutant: not asked
  IF m.joined THEN LoRaMacMcpsRequest(m, type, allowDelayedTx, outcome)
  ELSE LmHandlerJoin(m, outcome)

LmHandlerSend(m, type, allowDelayedTx, outcome) ==
  CASE LoRaMacIsBusy(m) -> m
    [] ~LoRaMacIsBusy(m) /\ ~m.joined -> LmHandlerJoin(m, outcome)
    [] OTHER -> LoRaMacMcpsRequest(m, type, allowDelayedTx, outcome)

(* The bounds: no more than MaxUplinks uplinks and MaxJoins joins.         *)
WithinBounds(m) ==
  IF m.joined THEN m.hist.uplink < MaxUplinks ELSE m.hist.joins < MaxJoins

------------------------------------------------------------------------------
(* LoRaMacHandleIrqEvents.                                                 *)

ProcessRadioTxDone(m) ==
  LET awake == IF m.DeviceClass = "C" THEN m ELSE RadioSleep(m)
      ack == IF m.DeviceClass = "C" \/ m.NodeAckRequested THEN {"ACK"} ELSE {}
  IN  [awake EXCEPT !.timers = @ \cup {"RX1", "RX2"} \cup ack, !.late = FALSE,
                    !.confirm.ok = @ \/ ~m.NodeAckRequested]

PrepareRxDoneAbort(m) ==
  LET aborted == [m EXCEPT !.MacState = @ \cup {"RX_ABORT"}]
      acked == IF m.NodeAckRequested THEN OnAckTimeoutTimerEvent(aborted) ELSE aborted
  IN  UpdateRxSlotIdleState(
        [acked EXCEPT !.MacFlags = @ \cup {"McpsInd", "MacDone"}])

(* The frames LoRaMacCryptoHandleJoinAccept() and the checks on a data     *)
(* frame let through.  A proprietary frame is not checked at all; every    *)
(* other frame takes PrepareRxDoneAbort, one of an unknown type too.       *)
JoinAnswer(m, kind) == kind \in {"accept", "badAccept"} /\ ~m.joined
DataFrame(m, kind) == kind \in {"data", "pending", "ack"} /\ m.joined

JoinAccepted(m) ==
  [m EXCEPT !.joined = TRUE, !.FCntUp = 0, !.hist.onAir = NoUplink,
            !.queue = SetStatus(@, "JOIN", TRUE)]

DataAccepted(m, kind) ==
  [m EXCEPT !.confirm.ok = TRUE, !.confirm.ack = (kind = "ack"),
            !.ind.ok = TRUE, !.ind.pending = (kind = "pending"),
            !.MacFlags = @ \cup {"McpsInd"}]

ProcessRadioRxDoneKeepsRx2(m, kind) ==     \* mutant: RxWindowTimer2 runs on
  LET begun == RadioSleep(
        [m EXCEPT !.confirm.ack = FALSE,
                  !.ind = [slot |-> m.RxSlot, ok |-> FALSE, pending |-> FALSE]])
      got == IF kind = "accept" THEN JoinAccepted(begun) ELSE DataAccepted(begun, kind)
      ackOver == IF got.NodeAckRequested THEN got.confirm.ack ELSE got.DeviceClass = "C"
      done == IF ackOver THEN OnAckTimeoutTimerEvent(got) ELSE got
  IN  IF JoinAnswer(m, kind) \/ DataFrame(m, kind)
      THEN UpdateRxSlotIdleState([done EXCEPT !.MacFlags = @ \cup {"MacDone"}])
      ELSE PrepareRxDoneAbort(begun)

ProcessRadioRxDone(m, kind) ==
  LET begun == RadioSleep(
        [m EXCEPT !.confirm.ack = FALSE, !.timers = @ \ {"RX2"},
                  !.ind = [slot |-> m.RxSlot, ok |-> FALSE, pending |-> FALSE]])
      got == CASE kind = "accept" -> JoinAccepted(begun)
               [] kind = "badAccept" -> [begun EXCEPT !.queue = SetStatus(@, "JOIN", FALSE)]
               [] kind = "proprietary" ->
                    [begun EXCEPT !.ind.ok = TRUE, !.MacFlags = @ \cup {"McpsInd"}]
               [] OTHER -> DataAccepted(begun, kind)
      ackOver == IF got.NodeAckRequested THEN got.confirm.ack ELSE got.DeviceClass = "C"
      done == IF ackOver THEN OnAckTimeoutTimerEvent(got) ELSE got
  IN  IF JoinAnswer(m, kind) \/ DataFrame(m, kind) \/ kind = "proprietary"
      THEN UpdateRxSlotIdleState([done EXCEPT !.MacFlags = @ \cup {"MacDone"}])
      ELSE PrepareRxDoneAbort(begun)

ProcessRadioTxTimeout(m) ==
  LET slept == IF m.DeviceClass = "C" THEN m ELSE RadioSleep(m)
  IN  [UpdateRxSlotIdleState(slept) EXCEPT
        !.confirm.ok = FALSE, !.queue = SetStatusCmn(@, FALSE),
        !.AckTimeoutRetry = @ \/ m.NodeAckRequested,
        !.MacFlags = @ \cup {"MacDone"}]

HandleRadioRxTimeoutForgetsLate(m) ==      \* mutant: RX2 skipped, nothing done
  LET failed == [RadioSleep(m) EXCEPT !.confirm.ok = @ /\ ~m.NodeAckRequested,
                                      !.queue = SetStatusCmn(@, FALSE)]
  IN  IF m.RxSlot = "WIN_1" THEN failed
      ELSE [failed EXCEPT !.MacFlags = @ \cup {"MacDone"}]

(* HandleRadioRxErrorTimeout up to its last line, UpdateRxSlotIdleState(). *)
HandleRadioRxErrorTimeout(m) ==
  LET slept == IF m.DeviceClass = "C" THEN m ELSE RadioSleep(m)
      failed == [slept EXCEPT !.confirm.ok = @ /\ ~m.NodeAckRequested,
                              !.queue = SetStatusCmn(@, FALSE)]
  IN  IF m.RxSlot = "WIN_1"
      THEN IF m.late
           THEN [failed EXCEPT !.timers = @ \ {"RX2"}, !.MacFlags = @ \cup {"MacDone"}]
           ELSE failed
      ELSE IF m.DeviceClass = "C" THEN failed
           ELSE [failed EXCEPT !.MacFlags = @ \cup {"MacDone"}]

------------------------------------------------------------------------------
(* The rest of LoRaMacProcess(), once MacDone says a state is finished.    *)

LoRaMacCheckForRxAbort(m) ==
  IF "RX_ABORT" \in m.MacState
  THEN [m EXCEPT !.MacState = @ \ {"RX_ABORT", "TX_RUNNING"}] ELSE m

LoRaMacHandleMlmeRequest(m) ==
  IF "MlmeReq" \in m.MacFlags /\ IsCmdActive(m.queue, "JOIN")
  THEN [m EXCEPT !.nbTrans = IF GetStatus(m.queue, "JOIN") THEN 0 ELSE @,
                 !.MacState = @ \ {"TX_RUNNING"}]
  ELSE m

CheckRetransUnconfirmedUplink(m) ==
  \/ m.nbTrans >= ChannelsNbTrans
  \/ "McpsInd" \in m.MacFlags /\ (m.DeviceClass = "A" \/ m.ind.slot = "WIN_1")

CheckRetransConfirmedByAnything(m) ==      \* mutant: any downlink ends it
  m.retries >= m.maxRetries \/ "McpsInd" \in m.MacFlags

CheckRetransConfirmedUplink(m) ==
  \/ m.retries >= m.maxRetries
  \/ "McpsInd" \in m.MacFlags /\ m.confirm.ack

StopUplink(m) ==
  StopRetransmission([m EXCEPT !.timers = @ \ {"DELAYED"}, !.MacState = @ \ {"TX_DELAYED"}])

RepeatUplink(m, outcome) ==
  OnTxDelayedTimerEvent([m EXCEPT !.MacFlags = @ \ {"MacDone"}, !.AckTimeoutRetry = FALSE],
                        outcome)

(* AckTimeoutRetriesProcess and AckTimeoutRetriesFinalize.                 *)
AckTimeoutRetries(m) ==
  IF CheckRetransConfirmedUplink(m)
  THEN [m EXCEPT !.NodeAckRequested = @ /\ m.confirm.ack]
  ELSE [m EXCEPT !.retries = @ + 1]

LoRaMacHandleMcpsRequest(m, outcome) ==
  CASE "McpsReq" \notin m.MacFlags -> m
    [] "McpsReq" \in m.MacFlags /\ m.confirm.type = "UNCONFIRMED" ->
         IF CheckRetransUnconfirmedUplink(m) THEN StopUplink(m)
         ELSE RepeatUplink(m, outcome)
    [] OTHER ->
         CASE ~m.AckTimeoutRetry -> m
           [] m.AckTimeoutRetry /\ CheckRetransConfirmedUplink(m) ->
                StopUplink(AckTimeoutRetries(m))
           [] OTHER -> RepeatUplink(AckTimeoutRetries(m), outcome)

(* MacMcpsConfirm, which the handler passes on to OnTxData.                *)
McpsConfirm(m) ==
  [m EXCEPT !.hist.owed = @ - 1,
            !.hist.verdict = [type |-> m.confirm.type, ok |-> m.confirm.ok,
                              ack |-> m.confirm.ack, tries |-> m.hist.tries,
                              sent |-> m.hist.sent, gaveUp |-> m.hist.gaveUp]]

(* MacMlmeConfirm: the handler asks for its class once it has joined; the  *)
(* class it has it does not ask for.                                       *)
JoinSucceeded(q) == \E i \in DOMAIN q : q[i].request = "JOIN" /\ q[i].ready /\ q[i].ok

LoRaMacConfirmQueueHandleCb(m) ==
  LET told == [m EXCEPT !.queue = Waiting(@)]
  IN  IF JoinSucceeded(m.queue) THEN LmHandlerRequestClass(told, DefaultClass) ELSE told

LoRaMacHandleRequestEvents(m) ==
  LET freed == [m EXCEPT !.MacFlags = @ \ {"McpsReq", "MlmeReq"}]
      mcps == IF "McpsReq" \in m.MacFlags THEN McpsConfirm(freed) ELSE freed
      mlme == IF "MlmeReq" \in m.MacFlags THEN LoRaMacConfirmQueueHandleCb(mcps) ELSE mcps
      again == IF "MlmeReq" \in m.MacFlags /\ mlme.queue # <<>> THEN {"MlmeReq"} ELSE {}
  IN  IF m.MacState = {}
      THEN [mlme EXCEPT !.MacFlags = (@ \cup again) \ {"MacDone"}]
      ELSE m

MacDoneIsHandled(m, outcome) ==
  IF "MacDone" \notin m.MacFlags THEN m
  ELSE LoRaMacHandleRequestEvents(
         LoRaMacHandleMcpsRequest(
           LoRaMacHandleMlmeRequest(LoRaMacCheckForRxAbort(m)), outcome))

(* MacMcpsIndication: OnRxData may ask for another class, and the handler  *)
(* answers a frame that says more are pending with an empty uplink.        *)
McpsIndication(m, class, outcome) ==
  LET told == LmHandlerRequestClass(m, class)
  IN  IF told.ind.pending /\ told.DeviceClass = "A" /\ WithinBounds(told)
      THEN LmHandlerSend(told, "UNCONFIRMED", TRUE, outcome) ELSE told

LoRaMacHandleIndicationEvents(m, class, outcome) ==
  LET seen == [m EXCEPT !.MacFlags = @ \ {"McpsInd"}]
  IN  IF "McpsInd" \in m.MacFlags /\ m.ind.ok THEN McpsIndication(seen, class, outcome)
      ELSE seen

------------------------------------------------------------------------------
(* The thread.                                                             *)

ThreadAt(place) == pc = place

(* LoRaMacHandleIrqEvents takes the bits with the interrupts masked.       *)
MacTakesEvents ==
  /\ ThreadAt("idle") /\ mac.notified
  /\ pc' = "events" /\ taken' = radioEvents /\ radioEvents' = {}
  /\ mac' = [mac EXCEPT !.notified = FALSE]
  /\ UNCHANGED frame

(* The order in which the bits are tested.                                 *)
EventOrder == <<"TxDone", "RxDone", "TxTimeout", "RxError", "RxTimeout">>
Rank(event) == CHOOSE i \in DOMAIN EventOrder : EventOrder[i] = event
IsNext(event) == event \in taken /\ \A other \in taken : Rank(event) <= Rank(other)

MacHandles(event, handled) ==
  /\ ThreadAt("events") /\ IsNext(event)
  /\ mac' = handled /\ taken' = taken \ {event}
  /\ UNCHANGED <<radioEvents, frame>>

MacHandlesTxDone ==
  MacHandles("TxDone", ProcessRadioTxDone(mac)) /\ UNCHANGED pc
MacHandlesRxDone ==
  MacHandles("RxDone", ProcessRadioRxDone(mac, frame)) /\ UNCHANGED pc
MacHandlesTxTimeout ==
  MacHandles("TxTimeout", ProcessRadioTxTimeout(mac)) /\ UNCHANGED pc
MacHandlesNoReception ==
  \E event \in {"RxError", "RxTimeout"} :
    MacHandles(event, HandleRadioRxErrorTimeout(mac)) /\ pc' = "slot"

(* An interrupt may come between the test of the elapsed time and this.    *)
MacUpdatesSlot ==
  /\ ThreadAt("slot") /\ pc' = "events"
  /\ mac' = UpdateRxSlotIdleState(mac)
  /\ UNCHANGED <<radioEvents, frame, taken>>

MacReopensRxC(m) == IF m.RxSlot = "CLASS_C" THEN OpenContinuousRxCWindow(m) ELSE m

MacFinishes ==
  /\ ThreadAt("events") /\ taken = {} /\ pc' = "idle"
  /\ \E repeat, flush \in Outcomes, class \in AppClasses \cup {mac.DeviceClass} :
       mac' = MacReopensRxC(
                LoRaMacHandleIndicationEvents(MacDoneIsHandled(mac, repeat), class, flush))
  /\ UNCHANGED <<radioEvents, frame, taken>>

AppJoins ==
  /\ ThreadAt("idle") /\ mac.MacState = {"STOPPED"}
  /\ \E outcome \in Outcomes : mac' = LmHandlerJoin(mac, outcome)
  /\ UNCHANGED <<radioEvents, frame, pc, taken>>

AppSends ==
  /\ ThreadAt("idle") /\ WithinBounds(mac)
  /\ \E type \in AppTypes, outcome \in Outcomes :
       \E allowDelayedTx \in {FALSE} \cup {type \in DelayedTypes} :
         mac' = LmHandlerSend(mac, type, allowDelayedTx, outcome)
  /\ UNCHANGED <<radioEvents, frame, pc, taken>>

------------------------------------------------------------------------------
(* The interrupts of the radio: RadioIrqProcess() and its two timers.      *)

Interrupt(m, events) ==
  /\ mac' = [m EXCEPT !.notified = TRUE]
  /\ radioEvents' = radioEvents \cup events
  /\ UNCHANGED <<pc, taken>>

(* A transmission that outlives its time-out is one the radio never ends:  *)
(* no frame lasts four seconds.                                            *)
RadioTxDone ==
  /\ mac.radio = "tx" /\ "tx" \in mac.radioTimers
  /\ Interrupt([mac EXCEPT !.radio = "idle", !.radioTimers = @ \ {"tx"},
                           !.hist.sent = @ \/ mac.msg = "DATA"], {"TxDone"})
  /\ UNCHANGED frame

RadioOnTxTimeoutIrq ==
  /\ "tx" \in mac.radioTimers /\ (mac.radio = "tx" => "txTimeout" \in Faults)
  /\ Interrupt([mac EXCEPT !.radioTimers = @ \ {"tx"}], {"TxTimeout"})
  /\ UNCHANGED frame

Receiving == mac.radio \in {"rx", "rxc"}

(* A window closes with its reception, a continuous one stays open.        *)
Received == [mac EXCEPT !.radio = IF @ = "rx" THEN "idle" ELSE @,
                        !.radioTimers = @ \ {"rx"}]

(* The network answers a join request, and talks to a device that joined;  *)
(* it acknowledges a confirmed uplink that was sent.                       *)
MayArrive(kind) ==
  CASE kind \in {"accept", "badAccept"} -> ~mac.joined /\ mac.msg = "JOIN"
    [] kind \in {"repeated", "data", "pending"} -> mac.joined
    [] kind = "ack" -> /\ mac.joined /\ "McpsReq" \in mac.MacFlags
                       /\ mac.confirm.type = "CONFIRMED" /\ mac.hist.sent
    [] OTHER -> TRUE

RadioRxDone ==
  /\ Receiving
  /\ \E kind \in Frames : MayArrive(kind) /\ frame' = kind
  /\ Interrupt(Received, {"RxDone"})

(* A frame with a wrong CRC raises both interrupts.                        *)
RadioCrcError ==
  /\ Receiving /\ "crcError" \in Faults
  /\ frame' = "foreign"
  /\ Interrupt(Received, {"RxDone", "RxError"})

(* A continuous window has no time-out, but a wrong header raises it too.  *)
RadioRxTimeout ==
  /\ mac.radio = "rx" \/ (mac.radio = "rxc" /\ "crcError" \in Faults)
  /\ Interrupt(Received, {"RxTimeout"})
  /\ UNCHANGED frame

(* Three seconds from the opening of a window, whatever the radio does.    *)
RadioOnRxTimeoutIrq ==
  /\ "rx" \in mac.radioTimers /\ (mac.radio = "rx" => "longFrame" \in Faults)
  /\ mac.RxSlot = "WIN_1" => mac.late
  /\ Interrupt([mac EXCEPT !.radioTimers = @ \ {"rx"}], {"RxTimeout"})
  /\ UNCHANGED frame

------------------------------------------------------------------------------
(* The interrupts of the MAC's timers.                                     *)

TimerInterrupt(m) == mac' = m /\ UNCHANGED <<radioEvents, frame, pc, taken>>

(* RxWindow2Delay after the end of the transmission.                       *)
TimePasses ==
  /\ ~mac.late /\ "RX1" \notin mac.timers
  /\ TimerInterrupt([mac EXCEPT !.late = TRUE])

OnRxWindow1TimerEvent ==
  /\ "RX1" \in mac.timers
  /\ TimerInterrupt(RxWindowSetup(mac, "RX1", "WIN_1"))

OnRxWindow2TimerEvent ==
  /\ "RX2" \in mac.timers /\ "RX1" \notin mac.timers /\ mac.late
  /\ ThreadAt("slot") => "preempt" \in Faults
  /\ TimerInterrupt(IF mac.RxSlot = "WIN_1" THEN [mac EXCEPT !.timers = @ \ {"RX2"}]
                    ELSE RxWindowSetup(mac, "RX2", "WIN_2"))

AckTimeoutTimer ==
  /\ "ACK" \in mac.timers /\ mac.timers \cap {"RX1", "RX2"} = {} /\ mac.late
  /\ TimerInterrupt(OnAckTimeoutTimerEvent(mac))

TxDelayedTimer ==
  /\ "DELAYED" \in mac.timers
  /\ \E outcome \in IsrOutcomes : TimerInterrupt(OnTxDelayedTimerEvent(mac, outcome))

------------------------------------------------------------------------------
Thread ==
  \/ MacTakesEvents \/ MacHandlesTxDone \/ MacHandlesRxDone \/ MacHandlesTxTimeout
  \/ MacHandlesNoReception \/ MacUpdatesSlot \/ MacFinishes

Radio ==
  \/ RadioTxDone \/ RadioOnTxTimeoutIrq \/ RadioRxDone \/ RadioCrcError
  \/ RadioRxTimeout \/ RadioOnRxTimeoutIrq

Timers ==
  \/ TimePasses \/ OnRxWindow1TimerEvent \/ OnRxWindow2TimerEvent
  \/ AckTimeoutTimer \/ TxDelayedTimer

Next == Thread \/ AppJoins \/ AppSends \/ Radio \/ Timers

Spec == Init /\ [][Next]_vars

(* The task runs once it is set, a transmission and a window end, time     *)
(* passes and the timers fire.                                             *)
FairSpec ==
  /\ Spec
  /\ WF_vars(Thread) /\ WF_vars(AppJoins)
  /\ WF_vars(RadioTxDone) /\ WF_vars(RadioRxTimeout)
  /\ WF_vars(RadioOnTxTimeoutIrq) /\ WF_vars(RadioOnRxTimeoutIrq)
  /\ WF_vars(TimePasses) /\ WF_vars(OnRxWindow1TimerEvent) /\ WF_vars(OnRxWindow2TimerEvent)
  /\ WF_vars(AckTimeoutTimer) /\ WF_vars(TxDelayedTimer)

------------------------------------------------------------------------------
(* Properties.                                                             *)

TypeOK ==
  /\ mac \in MacContext /\ Len(mac.queue) <= QueueLen
  /\ radioEvents \subseteq RadioEvents /\ taken \subseteq RadioEvents
  /\ frame \in FrameKinds /\ pc \in {"idle", "events", "slot"}

(* An uplink counter belongs to one frame: its repetitions take the        *)
(* counter of its first transmission, and the next frame takes a greater   *)
(* one, whatever is lost, delayed, refused or given up in between          *)
(* (SecureFrame subtracts one again by two other counters' values).        *)
CounterPerFrame ==
  [][mac'.hist.onAir \notin {mac.hist.onAir, NoUplink} =>
       /\ mac'.hist.onAir.frame # mac.hist.onAir.frame
       /\ mac'.hist.onAir.fCnt > mac.hist.onAir.fCnt]_vars

(* When LoRaMacIsBusy() lets the next request in, nothing of the last one  *)
(* is left: no timer of a window, an acknowledgement or a repetition runs, *)
(* the radio does not send or listen in a window, and no event of the      *)
(* radio waits to be handled.                                              *)
QuietWhenFree ==
  ThreadAt("idle") /\ ~LoRaMacIsBusy(mac) =>
    /\ mac.timers = {} /\ mac.radioTimers = {} /\ radioEvents = {}
    /\ mac.radio \in {"idle", "rxc"}

(* A frame on the air is not cut: the radio leaves a transmission when it  *)
(* is done or when its time-out is handled, not by a receive window, a     *)
(* sleep or a class change meant for another moment.                       *)
TransmissionUndisturbed ==
  [][mac.radio = "tx" /\ mac'.radio # "tx" => RadioTxDone \/ MacHandlesTxTimeout]_vars

(* OnTxData hears of a confirmed uplink that it is over once it was        *)
(* acknowledged, sent NbTrials times, or could not be scheduled again.     *)
RetriesAreSpent ==
  LET verdict == mac.hist.verdict
  IN  verdict.type = "CONFIRMED" =>
        verdict.ack \/ verdict.gaveUp \/ verdict.tries = NbTrials

(* LORAMAC_EVENT_INFO_STATUS_OK, "Service performed successfully", is said *)
(* of an uplink only if it has left the radio.                             *)
OkMeansSent == mac.hist.verdict.ok => mac.hist.verdict.sent

(* LoRaMacMcpsRequest() does not take a request before the last one is     *)
(* confirmed: the MAC has one McpsConfirm.                                 *)
OneUplinkAtATime == mac.hist.owed <= 1

(* A join request accepted is answered, whatever the windows bring         *)
(* (LoRaMac.h of a started service: "Waiting for the Mlme-Confirm event"). *)
(* It is not if another device's or a proprietary frame ends its window.   *)
JoinIsConfirmed == (mac.queue # <<>>) ~> (mac.queue = <<>>)

(* An uplink accepted is confirmed ("Waiting for the MCPS-Confirm event"). *)
(* It is not if RX2's timer preempts the end of RX1, the region refuses a  *)
(* delayed frame in the interrupt, or asks to wait for no time.            *)
UplinkIsConfirmed == (mac.hist.owed > 0) ~> (mac.hist.owed = 0)

(* A device that has left class C sleeps between its uplinks: "Set the     *)
(* radio into sleep to setup a defined state".                             *)
SleepsInClassA ==
  ThreadAt("idle") /\ mac.MacState = {} /\ mac.DeviceClass = "A" => mac.radio # "rxc"

(* The detailed MAC implements the service of LoRaMac.h.                   *)
Service == INSTANCE LoRaMacService WITH
  joined <- mac.joined, joinWaits <- mac.queue # <<>>,
  accepted <- mac.hist.uplink, confirmed <- mac.hist.uplink - mac.hist.owed

KeepsService == Service!Spec
=============================================================================
