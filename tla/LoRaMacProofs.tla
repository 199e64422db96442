---------------------------- MODULE LoRaMacProofs ----------------------------
(***************************************************************************)
(* The safety of the MAC, for every number of repetitions and trials, kind *)
(* of uplink, schedule and bound.                                          *)
(*                                                                         *)
(* MacCtx is one record of 21 fields that every handler passes through a   *)
(* chain of functions.  The first part says, function by function, which   *)
(* fields it changes (Changes, Notes) and what it leaves in them; from     *)
(* there on no definition of LoRaMac.tla that builds a record is expanded. *)
(*                                                                         *)
(* The second part is about devices of both classes: the MAC takes no      *)
(* uplink before the last one is confirmed (OwedInv, UplinksInTurn).       *)
(*                                                                         *)
(* The third part is about a device of class A (ClassADevice).  There the  *)
(* radio, the timers, the flags and the events of the radio that wait to   *)
(* be handled go together: they are always those of one of eight stages of *)
(* a transmission (Stage), and the confirm queue, the retry counters and   *)
(* the frame counter are those of what the upper layer waits for (Work).   *)
(* An interrupt moves a device from one stage to the next, and the thread  *)
(* moves it to its end; a request is let in only by the first stage, which *)
(* is what the properties follow from.                                     *)
(*                                                                         *)
(* The last part adds what the upper layer is told: "OK" is in the         *)
(* confirm only of an uplink that has left the radio (Sincere).            *)
(***************************************************************************)
EXTENDS LoRaMac, FiniteSetTheorems, TLAPS

-----------------------------------------------------------------------------
(* What each function of LoRaMac.c changes in MacCtx, and what it leaves.  *)

MacFields ==
  {"radio", "radioTimers", "MacState", "MacFlags", "RxSlot", "DeviceClass", "joined",
   "msg", "NodeAckRequested", "AckTimeoutRetry", "nbTrans", "retries", "maxRetries",
   "timers", "late", "confirm", "ind", "FCntUp", "queue", "notified", "hist"}

HistFields == {"uplink", "onAir", "tries", "sent", "gaveUp", "owed", "joins", "verdict"}

(* The fields of the record, without their types. *)
IsMac(m) ==
  /\ DOMAIN m = MacFields /\ DOMAIN m.hist = HistFields
  /\ DOMAIN m.confirm = {"type", "ok", "ack"}
  /\ DOMAIN m.ind = {"slot", "ok", "pending"}

(* n is a MacCtx that differs from m in the fields F at most. *)
Changes(m, n, F) == IsMac(n) /\ \A f \in MacFields \ F : n[f] = m[f]

(* The same of its history. *)
Notes(m, n, F) == \A f \in HistFields \ F : n.hist[f] = m.hist[f]

(* RadioSleep() and RadioSend(). *)
LEMMA RadioIs ==
  ASSUME NEW m, IsMac(m)
  PROVE  /\ Changes(m, RadioSleep(m), {"radio"}) /\ RadioSleep(m).radio = "idle"
         /\ Changes(m, RadioSend(m), {"radio", "radioTimers"})
         /\ RadioSend(m).radio = "tx"
         /\ RadioSend(m).radioTimers = m.radioTimers \cup {"tx"}
BY DEF RadioSleep, RadioSend, IsMac, MacFields, Changes

(* RxWindowSetup() *)
LEMMA RxWindowSetupIs ==
  ASSUME NEW m, IsMac(m), NEW timer, NEW slot
  PROVE  LET n == RxWindowSetup(m, timer, slot)
         IN  /\ Changes(m, n, {"radio", "radioTimers", "RxSlot", "timers"})
             /\ n.radio = "rx" /\ n.radioTimers = m.radioTimers \cup {"rx"}
             /\ n.RxSlot = slot /\ n.timers = m.timers \ {timer}
BY DEF RxWindowSetup, RxConfig, RadioSleep, IsMac, MacFields, Changes

(* OpenContinuousRxCWindow() and UpdateRxSlotIdleState() *)
LEMMA SlotIs ==
  ASSUME NEW m, IsMac(m)
  PROVE  /\ Changes(m, OpenContinuousRxCWindow(m), {"radio", "RxSlot"})
         /\ Changes(m, UpdateRxSlotIdleState(m), {"RxSlot"})
         /\ UpdateRxSlotIdleState(m).RxSlot = IF m.DeviceClass = "C" THEN "CLASS_C" ELSE "NONE"
BY DEF OpenContinuousRxCWindow, RxConfig, UpdateRxSlotIdleState, IsMac, MacFields, Changes

(* SecureFrame() *)
LEMMA SecureFrameIs ==
  ASSUME NEW m, IsMac(m)
  PROVE  LET n == SecureFrame(m)
         IN  /\ Changes(m, n, {"FCntUp", "hist"}) /\ Notes(m, n, {"onAir", "tries"})
             /\ m.msg = "JOIN" => n = m
             /\ m.msg # "JOIN" =>
                  /\ n.FCntUp = FCntOf(m) /\ n.hist.tries = m.hist.tries + 1
                  /\ n.hist.onAir = [frame |-> m.hist.uplink, fCnt |-> FCntOf(m)]
BY DEF SecureFrame, IsMac, MacFields, HistFields, Changes, Notes

(* SendFrameOnChannel() *)
LEMMA SendFrameIs ==
  ASSUME NEW m, IsMac(m)
  PROVE  LET n == SendFrameOnChannel(m)
         IN  /\ Changes(m, n, {"radio", "radioTimers", "MacState", "nbTrans", "confirm",
                               "FCntUp", "hist"})
             /\ Notes(m, n, {"onAir", "tries"})
             /\ n.radio = "tx" /\ n.radioTimers = m.radioTimers \cup {"tx"}
             /\ n.MacState = m.MacState \cup {"TX_RUNNING"}
             /\ n.nbTrans = IF m.NodeAckRequested THEN m.nbTrans ELSE m.nbTrans + 1
             /\ n.confirm.type = m.confirm.type /\ n.confirm.ack = m.confirm.ack
             /\ n.confirm.ok = FALSE
             /\ m.msg = "JOIN" => n.FCntUp = m.FCntUp /\ n.hist = m.hist
             /\ m.msg # "JOIN" =>
                  /\ n.FCntUp = FCntOf(m) /\ n.hist.tries = m.hist.tries + 1
                  /\ n.hist.onAir = [frame |-> m.hist.uplink, fCnt |-> FCntOf(m)]
<1> DEFINE b == [m EXCEPT !.confirm.ok = FALSE]
           s == SecureFrame(b)
           t == [s EXCEPT !.MacState = @ \cup {"TX_RUNNING"},
                          !.nbTrans = IF m.NodeAckRequested THEN @ ELSE @ + 1]
<1>1. /\ Changes(m, b, {"confirm"}) /\ FCntOf(b) = FCntOf(m)
      /\ b.confirm.type = m.confirm.type /\ b.confirm.ack = m.confirm.ack
      /\ b.confirm.ok = FALSE
  BY DEF IsMac, MacFields, Changes, FCntOf
<1>2. SendFrameOnChannel(m) = RadioSend(t)
  BY DEF SendFrameOnChannel
<1> HIDE DEF b
<1>3. /\ Changes(b, s, {"FCntUp", "hist"}) /\ Notes(b, s, {"onAir", "tries"})
      /\ b.msg = "JOIN" => s = b
      /\ b.msg # "JOIN" =>
           /\ s.FCntUp = FCntOf(b) /\ s.hist.tries = b.hist.tries + 1
           /\ s.hist.onAir = [frame |-> b.hist.uplink, fCnt |-> FCntOf(b)]
  BY <1>1, SecureFrameIs DEF Changes
<1> HIDE DEF s
<1>4. /\ Changes(s, t, {"MacState", "nbTrans"}) /\ t.MacState = s.MacState \cup {"TX_RUNNING"}
      /\ t.nbTrans = IF m.NodeAckRequested THEN s.nbTrans ELSE s.nbTrans + 1
  BY <1>3 DEF IsMac, MacFields, Changes
<1> HIDE DEF t
<1>5. /\ Changes(t, RadioSend(t), {"radio", "radioTimers"})
      /\ RadioSend(t).radio = "tx" /\ RadioSend(t).radioTimers = t.radioTimers \cup {"tx"}
  BY <1>4, RadioIs DEF Changes
<1> QED BY <1>1, <1>2, <1>3, <1>4, <1>5 DEF IsMac, MacFields, HistFields, Changes, Notes

(* A frame ScheduleTx() leaves for later. *)
Postponed(m) == [m EXCEPT !.MacState = @ \cup {"TX_DELAYED"}, !.timers = @ \cup {"DELAYED"}]

(* The outcomes of ScheduleTx(). *)
LEMMA ScheduleTxIs ==
  ASSUME NEW m, NEW allow \in BOOLEAN, NEW outcome, outcome # "NO_WAIT_TIME" \/ ~allow
  PROVE  LET try == ScheduleTx(m, allow, outcome)
         IN  \/ outcome = "OK" /\ try = [mac |-> SendFrameOnChannel(m), ok |-> TRUE]
             \/ /\ outcome = "DUTYCYCLE_RESTRICTED" /\ allow
                /\ try = [mac |-> Postponed(m), ok |-> TRUE]
             \/ /\ outcome # "OK" /\ (outcome = "DUTYCYCLE_RESTRICTED" => ~allow)
                /\ try = [mac |-> m, ok |-> FALSE]
BY DEF ScheduleTx, Postponed

(* What is postponed. *)
LEMMA PostponedIs ==
  ASSUME NEW m, IsMac(m)
  PROVE  /\ Changes(m, Postponed(m), {"MacState", "timers"})
         /\ Postponed(m).MacState = m.MacState \cup {"TX_DELAYED"}
         /\ Postponed(m).timers = m.timers \cup {"DELAYED"}
BY DEF Postponed, IsMac, MacFields, Changes

(* StopRetransmission() *)
LEMMA StopRetransmissionIs ==
  ASSUME NEW m, IsMac(m)
  PROVE  LET n == StopRetransmission(m)
         IN  /\ Changes(m, n, {"nbTrans", "NodeAckRequested", "AckTimeoutRetry", "MacState"})
             /\ n.nbTrans = 0 /\ n.NodeAckRequested = FALSE /\ n.AckTimeoutRetry = FALSE
             /\ n.MacState = m.MacState \ {"TX_RUNNING"}
BY DEF StopRetransmission, IsMac, MacFields, Changes

(* OnAckTimeoutTimerEvent() *)
LEMMA AckTimeoutIs ==
  ASSUME NEW m, IsMac(m)
  PROVE  LET n == OnAckTimeoutTimerEvent(m)
         IN  /\ Changes(m, n, {"timers", "AckTimeoutRetry", "MacFlags", "notified"})
             /\ n.timers = m.timers \ {"ACK"}
             /\ n.AckTimeoutRetry = (m.AckTimeoutRetry \/ m.NodeAckRequested)
             /\ n.MacFlags = m.MacFlags \cup (IF m.DeviceClass = "C" THEN {"MacDone"} ELSE {})
<1>1. (IF m.DeviceClass = "C" THEN m.MacFlags \cup {"MacDone"} ELSE m.MacFlags)
        = m.MacFlags \cup (IF m.DeviceClass = "C" THEN {"MacDone"} ELSE {})
  OBVIOUS
<1> QED BY <1>1 DEF OnAckTimeoutTimerEvent, IsMac, MacFields, Changes

(* A class the device asks for. *)
LEMMA RequestClassIs ==
  ASSUME NEW m, IsMac(m), NEW class
  PROVE  LET n == LmHandlerRequestClass(m, class)
         IN  /\ Changes(m, n, {"radio", "RxSlot", "DeviceClass", "NodeAckRequested"})
             /\ class = m.DeviceClass => n = m
<1> DEFINE c == [m EXCEPT !.DeviceClass = "C", !.NodeAckRequested = FALSE]
           d == [m EXCEPT !.DeviceClass = "A"]
<1>1. /\ Changes(m, c, {"DeviceClass", "NodeAckRequested"}) /\ Changes(m, d, {"DeviceClass"})
  BY DEF IsMac, MacFields, Changes
<1> HIDE DEF c, d
<1>2. /\ Changes(c, RadioSleep(c), {"radio"}) /\ Changes(d, RadioSleep(d), {"radio"})
      /\ Changes(RadioSleep(c), OpenContinuousRxCWindow(RadioSleep(c)), {"radio", "RxSlot"})
  <2>1. Changes(c, RadioSleep(c), {"radio"}) /\ Changes(d, RadioSleep(d), {"radio"})
    BY <1>1, RadioIs DEF Changes
  <2> QED BY <2>1, SlotIs DEF Changes
<1>3. SwitchClass(m, class) \in {m, OpenContinuousRxCWindow(RadioSleep(c)), RadioSleep(d)}
  BY DEF SwitchClass, c, d
<1>4. Changes(m, SwitchClass(m, class), {"radio", "RxSlot", "DeviceClass", "NodeAckRequested"})
  BY <1>1, <1>2, <1>3 DEF IsMac, MacFields, Changes
<1>5. Changes(m, m, {"radio", "RxSlot", "DeviceClass", "NodeAckRequested"})
  BY DEF Changes
<1> QED BY <1>4, <1>5 DEF LmHandlerRequestClass

(* The delayed frame whose moment has come. *)
Woken(m) == [m EXCEPT !.timers = @ \ {"DELAYED"}, !.MacState = @ \ {"TX_DELAYED"}]

(* OnTxDelayedTimerEvent(): the frame goes out, waits again, or is given up. *)
LEMMA TxDelayedIs ==
  ASSUME NEW m, IsMac(m), NEW outcome, outcome # "NO_WAIT_TIME"
  PROVE  LET n == OnTxDelayedTimerEvent(m, outcome)
         IN  /\ Changes(m, Woken(m), {"timers", "MacState"})
             /\ Woken(m).timers = m.timers \ {"DELAYED"}
             /\ Woken(m).MacState = m.MacState \ {"TX_DELAYED"}
             /\ \/ outcome = "OK" /\ n = SendFrameOnChannel(Woken(m))
                \/ outcome = "DUTYCYCLE_RESTRICTED" /\ n = Postponed(Woken(m))
                \/ /\ outcome \notin {"OK", "DUTYCYCLE_RESTRICTED"}
                   /\ Changes(m, n, {"timers", "MacState", "confirm", "queue", "hist", "nbTrans",
                                     "NodeAckRequested", "AckTimeoutRetry"})
                   /\ n.timers = m.timers \ {"DELAYED"}
                   /\ n.MacState = m.MacState \ {"TX_DELAYED", "TX_RUNNING"}
                   /\ n.confirm.type = m.confirm.type /\ n.confirm.ack = m.confirm.ack
                   /\ n.confirm.ok = FALSE
                   /\ n.queue = SetStatusCmn(m.queue, FALSE)
                   /\ Notes(m, n, {"gaveUp"}) /\ n.hist.gaveUp = TRUE
                   /\ n.nbTrans = 0 /\ n.NodeAckRequested = FALSE /\ n.AckTimeoutRetry = FALSE
<1> DEFINE w == Woken(m)
           g == [w EXCEPT !.confirm.ok = FALSE, !.queue = SetStatusCmn(@, FALSE),
                          !.hist.gaveUp = TRUE]
<1>1. /\ Changes(m, w, {"timers", "MacState"}) /\ w.timers = m.timers \ {"DELAYED"}
      /\ w.MacState = m.MacState \ {"TX_DELAYED"}
  BY DEF Woken, IsMac, MacFields, Changes
<1>2. \/ outcome = "OK" /\ OnTxDelayedTimerEvent(m, outcome) = SendFrameOnChannel(w)
      \/ outcome = "DUTYCYCLE_RESTRICTED" /\ OnTxDelayedTimerEvent(m, outcome) = Postponed(w)
      \/ /\ outcome \notin {"OK", "DUTYCYCLE_RESTRICTED"}
         /\ OnTxDelayedTimerEvent(m, outcome) = StopRetransmission(g)
  <2> DEFINE try == ScheduleTx(w, TRUE, outcome)
  <2>1. OnTxDelayedTimerEvent(m, outcome) =
          IF try.ok THEN try.mac
          ELSE StopRetransmission([try.mac EXCEPT !.confirm.ok = FALSE,
                                     !.queue = SetStatusCmn(@, FALSE), !.hist.gaveUp = TRUE])
    BY DEF OnTxDelayedTimerEvent, Woken
  <2>2. \/ outcome = "OK" /\ try = [mac |-> SendFrameOnChannel(w), ok |-> TRUE]
        \/ outcome = "DUTYCYCLE_RESTRICTED" /\ try = [mac |-> Postponed(w), ok |-> TRUE]
        \/ outcome \notin {"OK", "DUTYCYCLE_RESTRICTED"} /\ try = [mac |-> w, ok |-> FALSE]
    <3> HIDE DEF w
    <3> QED BY ScheduleTxIs
  <2>3. \/ outcome = "OK" /\ try.ok = TRUE /\ try.mac = SendFrameOnChannel(w)
        \/ outcome = "DUTYCYCLE_RESTRICTED" /\ try.ok = TRUE /\ try.mac = Postponed(w)
        \/ outcome \notin {"OK", "DUTYCYCLE_RESTRICTED"} /\ try.ok = FALSE /\ try.mac = w
    <3> HIDE DEF w, try
    <3> QED BY <2>2
  <2> HIDE DEF w, try
  <2> QED BY <2>1, <2>3
<1> HIDE DEF w
<1>3. /\ Changes(w, g, {"confirm", "queue", "hist"}) /\ Notes(w, g, {"gaveUp"})
      /\ g.confirm.type = w.confirm.type /\ g.confirm.ack = w.confirm.ack
      /\ g.confirm.ok = FALSE
      /\ g.queue = SetStatusCmn(w.queue, FALSE) /\ g.hist.gaveUp = TRUE
  BY <1>1 DEF IsMac, MacFields, HistFields, Changes, Notes
<1> HIDE DEF g
<1>4. /\ Changes(g, StopRetransmission(g),
                 {"nbTrans", "NodeAckRequested", "AckTimeoutRetry", "MacState"})
      /\ StopRetransmission(g).nbTrans = 0 /\ StopRetransmission(g).NodeAckRequested = FALSE
      /\ StopRetransmission(g).AckTimeoutRetry = FALSE
      /\ StopRetransmission(g).MacState = g.MacState \ {"TX_RUNNING"}
  BY <1>3, StopRetransmissionIs DEF Changes
<1>5. g.MacState = w.MacState
  BY <1>3 DEF MacFields, Changes
<1>6. g.MacState \ {"TX_RUNNING"} = m.MacState \ {"TX_DELAYED", "TX_RUNNING"}
  BY <1>1, <1>5
<1>7. w = Woken(m)
  BY DEF w
<1>8. /\ Changes(m, StopRetransmission(g),
             {"timers", "MacState", "confirm", "queue", "hist", "nbTrans",
                                     "NodeAckRequested", "AckTimeoutRetry"})
      /\ Notes(m, StopRetransmission(g), {"gaveUp"}) /\ StopRetransmission(g).hist.gaveUp = TRUE
      /\ StopRetransmission(g).timers = m.timers \ {"DELAYED"}
      /\ StopRetransmission(g).confirm.type = m.confirm.type
      /\ StopRetransmission(g).confirm.ack = m.confirm.ack
      /\ StopRetransmission(g).confirm.ok = FALSE
      /\ StopRetransmission(g).queue = SetStatusCmn(m.queue, FALSE)
  BY <1>1, <1>3, <1>4 DEF IsMac, MacFields, HistFields, Changes, Notes
<1> QED BY <1>1, <1>2, <1>4, <1>6, <1>7, <1>8

(* MacCtx when the join request is ready to be sent. *)
Rejoining(m) ==
  [SwitchClass(ResetMacParameters([m EXCEPT !.MacState = {}, !.MacFlags = @ \cup {"MlmeReq"}]), "A")
     EXCEPT !.msg = "JOIN"]

(* LmHandlerJoin() forgets the uplink before it sends. *)
LEMMA RejoiningIs ==
  ASSUME NEW m, IsMac(m)
  PROVE  LET n == Rejoining(m)
         IN  /\ Changes(m, n, {"radio", "DeviceClass", "MacState", "MacFlags", "joined", "msg", "nbTrans",
                               "maxRetries", "retries", "AckTimeoutRetry", "NodeAckRequested"})
             /\ n.MacState = {} /\ n.MacFlags = m.MacFlags \cup {"MlmeReq"}
             /\ n.joined = FALSE /\ n.msg = "JOIN" /\ n.nbTrans = 0 /\ n.retries = 1
             /\ n.AckTimeoutRetry = FALSE /\ n.NodeAckRequested = FALSE
             /\ m.DeviceClass = "A" => n.radio = m.radio /\ n.DeviceClass = "A"
<1> DEFINE s == [m EXCEPT !.MacState = {}, !.MacFlags = @ \cup {"MlmeReq"}]
           r == ResetMacParameters(s)
           c == SwitchClass(r, "A")
<1>1. /\ Changes(m, s, {"MacState", "MacFlags"})
      /\ s.MacState = {} /\ s.MacFlags = m.MacFlags \cup {"MlmeReq"}
  BY DEF IsMac, MacFields, Changes
<1> HIDE DEF s
<1>2. /\ Changes(s, r, {"joined", "nbTrans", "maxRetries", "retries", "AckTimeoutRetry",
                        "NodeAckRequested"})
      /\ r.joined = FALSE /\ r.nbTrans = 0 /\ r.retries = 1
      /\ r.AckTimeoutRetry = FALSE /\ r.NodeAckRequested = FALSE
  BY <1>1 DEF ResetMacParameters, IsMac, MacFields, Changes
<1> HIDE DEF r
<1>3. /\ Changes(r, c, {"radio", "DeviceClass"})
      /\ r.DeviceClass = "A" => c = r
  BY <1>2 DEF SwitchClass, RadioSleep, IsMac, MacFields, Changes
<1> HIDE DEF c
<1>4. /\ Changes(c, [c EXCEPT !.msg = "JOIN"], {"msg"}) /\ [c EXCEPT !.msg = "JOIN"].msg = "JOIN"
  BY <1>3 DEF IsMac, MacFields, Changes
<1>5. Rejoining(m) = [c EXCEPT !.msg = "JOIN"]
  BY DEF Rejoining, c, r, s
<1> QED BY <1>1, <1>2, <1>3, <1>4, <1>5 DEF MacFields, Changes

(* LmHandlerJoin(): the request goes out and waits for its answer, or is   *)
(* dropped.                                                                *)
LEMMA JoinIs ==
  ASSUME NEW m, IsMac(m), NEW outcome
  PROVE  LET n == LmHandlerJoin(m, outcome)
             r == Rejoining(m)
         IN  \/ /\ IsFull(m.queue) /\ Changes(m, n, {"MacState"}) /\ n.MacState = {}
             \/ /\ ~IsFull(m.queue) /\ outcome = "OK"
                /\ Changes(SendFrameOnChannel(r), n, {"queue", "hist"})
                /\ Notes(SendFrameOnChannel(r), n, {"joins"})
                /\ n.queue = Add(m.queue, "JOIN")
             \/ /\ outcome # "OK" /\ Changes(r, n, {"MacFlags"})
                /\ n.MacFlags = IF m.queue = <<>> THEN m.MacFlags \ {"MlmeReq"}
                                ELSE r.MacFlags
<1> DEFINE started == [m EXCEPT !.MacState = {}]
           r == Rejoining(m)
           try == ScheduleTx(r, FALSE, outcome)
           s == SendFrameOnChannel(r)
<1>1. LmHandlerJoin(m, outcome) =
        CASE IsFull(m.queue) -> started
          [] ~IsFull(m.queue) /\ try.ok ->
               [try.mac EXCEPT !.queue = Add(@, "JOIN"), !.hist.joins = @ + 1]
          [] OTHER ->
               IF m.queue = <<>> THEN [try.mac EXCEPT !.MacFlags = @ \ {"MlmeReq"}] ELSE try.mac
  <2>1. Rejoining(m) =
          [SwitchClass(ResetMacParameters([[m EXCEPT !.MacState = {}]
             EXCEPT !.MacFlags = @ \cup {"MlmeReq"}]), "A") EXCEPT !.msg = "JOIN"]
    <3>1. [[m EXCEPT !.MacState = {}] EXCEPT !.MacFlags = @ \cup {"MlmeReq"}]
            = [m EXCEPT !.MacState = {}, !.MacFlags = @ \cup {"MlmeReq"}]
      BY DEF IsMac, MacFields
    <3> QED BY <3>1 DEF Rejoining
  <2> QED BY <2>1 DEF LmHandlerJoin
<1>2. \/ outcome = "OK" /\ try.ok = TRUE /\ try.mac = s
      \/ outcome # "OK" /\ try.ok = FALSE /\ try.mac = r
  <2>1. \/ outcome = "OK" /\ try = [mac |-> s, ok |-> TRUE]
        \/ outcome # "OK" /\ try = [mac |-> r, ok |-> FALSE]
    <3> HIDE DEF r
    <3> QED BY ScheduleTxIs
  <2> HIDE DEF r, s, try
  <2> QED BY <2>1
<1>3. /\ IsMac(r) /\ r.queue = m.queue /\ r.MacFlags = m.MacFlags \cup {"MlmeReq"}
  <2>1. /\ Changes(m, r, {"radio", "DeviceClass", "MacState", "MacFlags", "joined", "msg", "nbTrans",
                          "maxRetries", "retries", "AckTimeoutRetry", "NodeAckRequested"})
        /\ r.MacFlags = m.MacFlags \cup {"MlmeReq"}
    BY RejoiningIs
  <2> HIDE DEF r
  <2> QED BY <2>1 DEF Changes, MacFields
<1>4. Changes(m, started, {"MacState"}) /\ started.MacState = {}
  BY DEF IsMac, MacFields, Changes
<1> HIDE DEF r, started
<1>5. IsMac(s) /\ s.queue = m.queue
  <2>1. Changes(r, s, {"radio", "radioTimers", "MacState", "nbTrans", "confirm", "FCntUp", "hist"})
    BY <1>3, SendFrameIs
  <2> HIDE DEF s
  <2> QED BY <1>3, <2>1 DEF Changes, MacFields
<1> HIDE DEF s, try
<1>6. CASE IsFull(m.queue)
  BY <1>1, <1>4, <1>6
<1>7. CASE ~IsFull(m.queue) /\ outcome = "OK"
  <2> DEFINE n == [s EXCEPT !.queue = Add(@, "JOIN"), !.hist.joins = @ + 1]
  <2>1. LmHandlerJoin(m, outcome) = n
    BY <1>1, <1>2, <1>7
  <2>2. /\ Changes(s, n, {"queue", "hist"}) /\ Notes(s, n, {"joins"})
        /\ n.queue = Add(m.queue, "JOIN")
    BY <1>5 DEF IsMac, MacFields, HistFields, Changes, Notes
  <2> HIDE DEF n
  <2> QED BY <1>7, <2>1, <2>2 DEF s, r
<1>8. CASE ~IsFull(m.queue) /\ outcome # "OK"
  <2> DEFINE n == IF m.queue = <<>> THEN [r EXCEPT !.MacFlags = @ \ {"MlmeReq"}] ELSE r
  <2>1. LmHandlerJoin(m, outcome) = n
    BY <1>1, <1>2, <1>8
  <2>2. /\ Changes(r, n, {"MacFlags"})
        /\ n.MacFlags = IF m.queue = <<>> THEN r.MacFlags \ {"MlmeReq"} ELSE r.MacFlags
    BY <1>3 DEF IsMac, MacFields, Changes
  <2>3. r.MacFlags \ {"MlmeReq"} = m.MacFlags \ {"MlmeReq"}
    BY <1>3
  <2> HIDE DEF n
  <2> QED BY <1>8, <2>1, <2>2, <2>3 DEF r
<1> QED BY <1>6, <1>7, <1>8

(* Send() and PrepareFrame() *)
LEMMA PrepareFrameIs ==
  ASSUME NEW m, IsMac(m), NEW type
  PROVE  LET n == PrepareFrame(m, type)
         IN  /\ Changes(m, n, {"msg", "NodeAckRequested", "retries", "maxRetries", "confirm",
                               "hist"})
             /\ Notes(m, n, {"uplink", "tries", "sent", "gaveUp"})
             /\ n.msg = "DATA" /\ n.NodeAckRequested = (type = "CONFIRMED") /\ n.retries = 1
             /\ n.maxRetries = (IF type = "CONFIRMED" THEN NbTrials ELSE 1)
             /\ n.confirm.type = m.confirm.type /\ n.confirm.ack = FALSE
             /\ n.confirm.ok = FALSE
             /\ n.hist.uplink = m.hist.uplink + 1 /\ n.hist.tries = 0
BY DEF PrepareFrame, IsMac, MacFields, HistFields, Changes, Notes

(* An uplink LoRaMacMcpsRequest() has accepted. *)
Accepted(m, n, type) ==
  /\ n.MacFlags = m.MacFlags \cup {"McpsReq"} /\ n.msg = "DATA"
  /\ n.confirm.type = type /\ n.confirm.ack = FALSE /\ n.confirm.ok = FALSE
  /\ n.NodeAckRequested = (type = "CONFIRMED") /\ n.retries = 1
  /\ n.maxRetries = IF type = "CONFIRMED" THEN NbTrials ELSE 1
  /\ n.hist.uplink = m.hist.uplink + 1 /\ n.hist.owed = m.hist.owed + 1
  /\ Notes(m, n, {"uplink", "tries", "sent", "gaveUp", "onAir", "owed"})

(* Its frame goes out at once. *)
GoesOut(m, n, type) ==
  LET c == IF m.nbTrans >= 1 THEN m.FCntUp ELSE m.FCntUp + 1
  IN  /\ Accepted(m, n, type)
      /\ Changes(m, n, {"radio", "radioTimers", "MacState", "nbTrans", "confirm",
                        "FCntUp", "hist", "msg", "NodeAckRequested", "retries",
                        "maxRetries", "MacFlags"})
      /\ n.radio = "tx" /\ n.radioTimers = m.radioTimers \cup {"tx"}
      /\ n.MacState = m.MacState \cup {"TX_RUNNING"}
      /\ n.nbTrans = (IF type = "CONFIRMED" THEN m.nbTrans ELSE m.nbTrans + 1)
      /\ n.FCntUp = c /\ n.hist.tries = 1
      /\ n.hist.onAir = [frame |-> m.hist.uplink + 1, fCnt |-> c]

(* Its frame waits for the duty cycle. *)
IsPostponed(m, n, type) ==
  /\ Accepted(m, n, type)
  /\ Changes(m, n, {"MacState", "timers", "confirm", "hist", "msg",
                    "NodeAckRequested", "retries", "maxRetries", "MacFlags"})
  /\ n.timers = m.timers \cup {"DELAYED"}
  /\ n.MacState = m.MacState \cup {"TX_DELAYED"}
  /\ n.hist.tries = 0 /\ n.hist.onAir = m.hist.onAir

(* An uplink LoRaMacMcpsRequest() has refused. *)
Refused(m, n) ==
  /\ Changes(m, n, {"confirm", "msg", "NodeAckRequested", "retries", "maxRetries"})
  /\ n.NodeAckRequested = FALSE /\ n.retries = 1
  /\ n.confirm.type = m.confirm.type /\ n.confirm.ack = FALSE /\ n.confirm.ok = FALSE

(* The outcomes of LoRaMacMcpsRequest(). *)
LEMMA McpsRequestIs ==
  ASSUME NEW m, IsMac(m), NEW type, NEW allow \in BOOLEAN, NEW outcome,
         outcome # "NO_WAIT_TIME"
  PROVE  LET n == LoRaMacMcpsRequest(m, type, allow, outcome)
         IN  \/ outcome = "OK" /\ GoesOut(m, n, type)
             \/ outcome = "DUTYCYCLE_RESTRICTED" /\ allow /\ IsPostponed(m, n, type)
             \/ /\ outcome # "OK" /\ (outcome = "DUTYCYCLE_RESTRICTED" => ~allow)
                /\ Refused(m, n)
<1> DEFINE n == LoRaMacMcpsRequest(m, type, allow, outcome)
           p == PrepareFrame(m, type)
           try == ScheduleTx(p, allow, outcome)
           s == SendFrameOnChannel(p)
           w == Postponed(p)
           In(x) == [x EXCEPT !.confirm.type = type, !.MacFlags = @ \cup {"McpsReq"},
                              !.hist.owed = @ + 1]
           out == [p EXCEPT !.NodeAckRequested = FALSE, !.hist = m.hist]
<1>1. /\ Changes(m, p, {"msg", "NodeAckRequested", "retries", "maxRetries", "confirm", "hist"})
      /\ Notes(m, p, {"uplink", "tries", "sent", "gaveUp"})
      /\ p.msg = "DATA" /\ p.NodeAckRequested = (type = "CONFIRMED") /\ p.retries = 1
      /\ p.maxRetries = (IF type = "CONFIRMED" THEN NbTrials ELSE 1)
      /\ p.confirm.type = m.confirm.type /\ p.confirm.ack = FALSE
      /\ p.confirm.ok = FALSE
      /\ p.hist.uplink = m.hist.uplink + 1 /\ p.hist.tries = 0
  BY PrepareFrameIs
<1>2. n = IF try.ok THEN In(try.mac)
          ELSE [try.mac EXCEPT !.NodeAckRequested = FALSE, !.hist = m.hist]
  BY DEF LoRaMacMcpsRequest
<1> HIDE DEF p, n
<1>3. \/ outcome = "OK" /\ try = [mac |-> s, ok |-> TRUE]
      \/ outcome = "DUTYCYCLE_RESTRICTED" /\ allow /\ try = [mac |-> w, ok |-> TRUE]
      \/ /\ outcome # "OK" /\ (outcome = "DUTYCYCLE_RESTRICTED" => ~allow)
         /\ try = [mac |-> p, ok |-> FALSE]
  BY ScheduleTxIs
<1> HIDE DEF try, s, w
<1>4. \/ outcome = "OK" /\ n = In(s)
      \/ outcome = "DUTYCYCLE_RESTRICTED" /\ allow /\ n = In(w)
      \/ outcome # "OK" /\ (outcome = "DUTYCYCLE_RESTRICTED" => ~allow) /\ n = out
  <2>1. \/ outcome = "OK" /\ try.ok = TRUE /\ try.mac = s
        \/ outcome = "DUTYCYCLE_RESTRICTED" /\ allow /\ try.ok = TRUE /\ try.mac = w
        \/ /\ outcome # "OK" /\ (outcome = "DUTYCYCLE_RESTRICTED" => ~allow)
           /\ try.ok = FALSE /\ try.mac = p
    BY <1>3
  <2> HIDE DEF In
  <2> QED BY <1>2, <2>1
<1>5. ASSUME NEW x, IsMac(x)
      PROVE  /\ Changes(x, In(x), {"confirm", "MacFlags", "hist"}) /\ Notes(x, In(x), {"owed"})
             /\ In(x).confirm.type = type /\ In(x).confirm.ack = x.confirm.ack
             /\ In(x).confirm.ok = x.confirm.ok
             /\ In(x).MacFlags = x.MacFlags \cup {"McpsReq"}
             /\ In(x).hist.owed = x.hist.owed + 1
  BY <1>5 DEF IsMac, MacFields, HistFields, Changes, Notes
<1> HIDE DEF In
<1>6. CASE outcome = "OK" /\ n = In(s)
  <2>1. /\ Changes(p, s, {"radio", "radioTimers", "MacState", "nbTrans", "confirm", "FCntUp",
                          "hist"})
        /\ Notes(p, s, {"onAir", "tries"})
        /\ s.radio = "tx" /\ s.radioTimers = p.radioTimers \cup {"tx"}
        /\ s.MacState = p.MacState \cup {"TX_RUNNING"}
        /\ s.nbTrans = IF p.NodeAckRequested THEN p.nbTrans ELSE p.nbTrans + 1
        /\ s.confirm.type = p.confirm.type /\ s.confirm.ack = p.confirm.ack
        /\ s.confirm.ok = FALSE
        /\ s.FCntUp = FCntOf(p) /\ s.hist.tries = p.hist.tries + 1
        /\ s.hist.onAir = [frame |-> p.hist.uplink, fCnt |-> FCntOf(p)]
    BY <1>1, SendFrameIs DEF Changes, s
  <2>2. FCntOf(p) = IF m.nbTrans >= 1 THEN m.FCntUp ELSE m.FCntUp + 1
    BY <1>1 DEF FCntOf, Changes, MacFields
  <2>3. IsMac(s)
    BY <2>1 DEF Changes
  <2>4. Accepted(m, n, type)
    BY <1>1, <1>5, <1>6, <2>1, <2>3 DEF Accepted, Changes, Notes, MacFields, HistFields
  <2>5. Changes(m, n, {"radio", "radioTimers", "MacState", "nbTrans", "confirm",
                       "FCntUp", "hist", "msg", "NodeAckRequested", "retries",
                       "maxRetries", "MacFlags"})
    BY <1>1, <1>5, <1>6, <2>1, <2>3 DEF Changes, MacFields
  <2>6. /\ n.radio = "tx" /\ n.radioTimers = m.radioTimers \cup {"tx"}
        /\ n.MacState = m.MacState \cup {"TX_RUNNING"}
    BY <1>1, <1>5, <1>6, <2>1, <2>3 DEF Changes, MacFields
  <2>8. n.nbTrans = (IF type = "CONFIRMED" THEN m.nbTrans ELSE m.nbTrans + 1)
    <3>1. n.nbTrans = s.nbTrans /\ p.nbTrans = m.nbTrans
      BY <1>1, <1>5, <1>6, <2>3 DEF Changes, MacFields
    <3>2. p.NodeAckRequested = (type = "CONFIRMED")
      BY <1>1
    <3>3. s.nbTrans = IF p.NodeAckRequested THEN p.nbTrans ELSE p.nbTrans + 1
      BY <2>1
    <3>4. CASE type = "CONFIRMED"
      BY <3>1, <3>2, <3>3, <3>4
    <3>5. CASE type # "CONFIRMED"
      BY <3>1, <3>2, <3>3, <3>5
    <3> QED BY <3>4, <3>5
  <2>7. /\ n.FCntUp = FCntOf(p) /\ n.hist.tries = 1
        /\ n.hist.onAir = [frame |-> m.hist.uplink + 1, fCnt |-> FCntOf(p)]
    BY <1>1, <1>5, <1>6, <2>1, <2>3 DEF Changes, Notes, MacFields, HistFields
  <2>9. GoesOut(m, n, type)
    BY <2>2, <2>4, <2>5, <2>6, <2>7, <2>8 DEF GoesOut
  <2> QED BY <1>6, <2>9 DEF n
<1>7. CASE outcome = "DUTYCYCLE_RESTRICTED" /\ allow /\ n = In(w)
  <2>1. /\ Changes(p, w, {"MacState", "timers"})
        /\ w.MacState = p.MacState \cup {"TX_DELAYED"} /\ w.timers = p.timers \cup {"DELAYED"}
    BY <1>1, PostponedIs DEF Changes, w
  <2>2. IsMac(w) /\ w.hist = p.hist /\ w.confirm = p.confirm
    BY <2>1 DEF Changes, MacFields
  <2>3. Accepted(m, n, type)
    BY <1>1, <1>5, <1>7, <2>1, <2>2 DEF Accepted, Changes, Notes, MacFields, HistFields
  <2>4. Changes(m, n, {"MacState", "timers", "confirm", "hist", "msg",
                       "NodeAckRequested", "retries", "maxRetries", "MacFlags"})
    BY <1>1, <1>5, <1>7, <2>1, <2>2 DEF Changes, MacFields
  <2>5. /\ n.timers = m.timers \cup {"DELAYED"} /\ n.MacState = m.MacState \cup {"TX_DELAYED"}
    BY <1>1, <1>5, <1>7, <2>1, <2>2 DEF Changes, MacFields
  <2>6. n.hist.tries = 0 /\ n.hist.onAir = m.hist.onAir
    BY <1>1, <1>5, <1>7, <2>2 DEF Notes, HistFields
  <2>7. IsPostponed(m, n, type)
    BY <2>3, <2>4, <2>5, <2>6 DEF IsPostponed
  <2> QED BY <1>7, <2>7 DEF n
<1>8. CASE outcome # "OK" /\ (outcome = "DUTYCYCLE_RESTRICTED" => ~allow) /\ n = out
  <2>1. /\ Changes(p, out, {"NodeAckRequested", "hist"}) /\ out.NodeAckRequested = FALSE
        /\ out.hist = m.hist
    BY <1>1 DEF IsMac, MacFields, HistFields, Changes
  <2> HIDE DEF out
  <2>2. /\ Changes(m, n, {"confirm", "msg", "NodeAckRequested", "retries", "maxRetries"})
        /\ n.NodeAckRequested = FALSE /\ n.retries = 1
        /\ n.confirm.type = m.confirm.type /\ n.confirm.ack = FALSE /\ n.confirm.ok = FALSE
    BY <1>1, <1>8, <2>1 DEF Changes, MacFields
  <2>3. Refused(m, n)
    BY <2>2 DEF Refused
  <2> QED BY <1>8, <2>3 DEF n
<1> QED BY <1>4, <1>6, <1>7, <1>8

(* ProcessRadioTxDone() *)
LEMMA TxDoneIs ==
  ASSUME NEW m, IsMac(m)
  PROVE  LET n == ProcessRadioTxDone(m)
         IN  /\ Changes(m, n, {"radio", "timers", "late", "confirm"})
             /\ n.timers = m.timers \cup {"RX1", "RX2"} \cup
                             (IF m.DeviceClass = "C" \/ m.NodeAckRequested THEN {"ACK"} ELSE {})
             /\ n.confirm.type = m.confirm.type /\ n.confirm.ack = m.confirm.ack
             /\ m.DeviceClass = "A" => n.radio = "idle"
<1> DEFINE a == IF m.DeviceClass = "C" THEN m ELSE RadioSleep(m)
           k == IF m.DeviceClass = "C" \/ m.NodeAckRequested THEN {"ACK"} ELSE {}
<1>1. Changes(m, a, {"radio"}) /\ (m.DeviceClass = "A" => a.radio = "idle")
  BY RadioIs DEF Changes
<1>2. ProcessRadioTxDone(m) =
        [a EXCEPT !.timers = @ \cup {"RX1", "RX2"} \cup k, !.late = FALSE,
                  !.confirm.ok = @ \/ ~m.NodeAckRequested]
  BY DEF ProcessRadioTxDone
<1> HIDE DEF a, k
<1> DEFINE n == [a EXCEPT !.timers = @ \cup {"RX1", "RX2"} \cup k, !.late = FALSE,
                          !.confirm.ok = @ \/ ~m.NodeAckRequested]
<1>3. /\ Changes(a, n, {"timers", "late", "confirm"})
      /\ n.timers = a.timers \cup {"RX1", "RX2"} \cup k
      /\ n.confirm.type = a.confirm.type /\ n.confirm.ack = a.confirm.ack
  BY <1>1 DEF IsMac, MacFields, Changes
<1> HIDE DEF n
<1>4. /\ Changes(m, n, {"radio", "timers", "late", "confirm"})
      /\ n.timers = m.timers \cup {"RX1", "RX2"} \cup k
      /\ n.confirm.type = m.confirm.type /\ n.confirm.ack = m.confirm.ack
      /\ m.DeviceClass = "A" => n.radio = "idle"
  BY <1>1, <1>3 DEF MacFields, Changes
<1> QED BY <1>2, <1>4 DEF n, k

(* The slot UpdateRxSlotIdleState() leaves. *)
SlotWhenIdle(m) == IF m.DeviceClass = "C" THEN "CLASS_C" ELSE "NONE"

(* PrepareRxDoneAbort() *)
LEMMA RxDoneAbortIs ==
  ASSUME NEW m, IsMac(m)
  PROVE  LET n == PrepareRxDoneAbort(m)
         IN  /\ Changes(m, n, {"MacState", "timers", "AckTimeoutRetry", "MacFlags", "notified",
                               "RxSlot"})
             /\ n.MacState = m.MacState \cup {"RX_ABORT"}
             /\ n.MacFlags = m.MacFlags \cup {"McpsInd", "MacDone"}
             /\ n.RxSlot = SlotWhenIdle(m)
             /\ IF m.NodeAckRequested
                THEN n.timers = m.timers \ {"ACK"} /\ n.AckTimeoutRetry = TRUE
                ELSE n.timers = m.timers /\ n.AckTimeoutRetry = m.AckTimeoutRetry
<1> DEFINE a == [m EXCEPT !.MacState = @ \cup {"RX_ABORT"}]
           k == IF m.NodeAckRequested THEN OnAckTimeoutTimerEvent(a) ELSE a
           f == [k EXCEPT !.MacFlags = @ \cup {"McpsInd", "MacDone"}]
<1>1. PrepareRxDoneAbort(m) = UpdateRxSlotIdleState(f)
  BY DEF PrepareRxDoneAbort
<1>2. Changes(m, a, {"MacState"}) /\ a.MacState = m.MacState \cup {"RX_ABORT"}
  BY DEF IsMac, MacFields, Changes
<1> HIDE DEF a
<1>3. /\ Changes(a, k, {"timers", "AckTimeoutRetry", "MacFlags", "notified"})
      /\ k.MacFlags \cup {"McpsInd", "MacDone"} = a.MacFlags \cup {"McpsInd", "MacDone"}
      /\ m.NodeAckRequested => k.timers = m.timers \ {"ACK"} /\ k.AckTimeoutRetry = TRUE
      /\ ~m.NodeAckRequested => k.timers = m.timers /\ k.AckTimeoutRetry = m.AckTimeoutRetry
  <2>1. CASE m.NodeAckRequested
    <3> DEFINE o == OnAckTimeoutTimerEvent(a)
    <3>1. k = o
      BY <2>1
    <3>2. /\ Changes(a, o, {"timers", "AckTimeoutRetry", "MacFlags", "notified"})
          /\ o.timers = a.timers \ {"ACK"}
          /\ o.AckTimeoutRetry = (a.AckTimeoutRetry \/ a.NodeAckRequested)
          /\ o.MacFlags = a.MacFlags \cup (IF a.DeviceClass = "C" THEN {"MacDone"} ELSE {})
      BY <1>2, AckTimeoutIs DEF Changes
    <3> HIDE DEF o, k
    <3>3. a.timers = m.timers /\ a.NodeAckRequested = m.NodeAckRequested
      BY <1>2 DEF Changes, MacFields
    <3>4. o.MacFlags \cup {"McpsInd", "MacDone"} = a.MacFlags \cup {"McpsInd", "MacDone"}
      BY <3>2
    <3>5. o.AckTimeoutRetry = TRUE
      BY <2>1, <3>2, <3>3
    <3> QED BY <2>1, <3>1, <3>2, <3>3, <3>4, <3>5
  <2>2. CASE ~m.NodeAckRequested
    <3>1. k = a
      BY <2>2
    <3> HIDE DEF k
    <3> QED BY <1>2, <2>2, <3>1 DEF Changes, MacFields
  <2> QED BY <2>1, <2>2
<1> HIDE DEF k
<1>4. /\ Changes(k, f, {"MacFlags"}) /\ f.MacFlags = k.MacFlags \cup {"McpsInd", "MacDone"}
  BY <1>3 DEF IsMac, MacFields, Changes
<1> HIDE DEF f
<1>5. /\ Changes(f, UpdateRxSlotIdleState(f), {"RxSlot"})
      /\ UpdateRxSlotIdleState(f).RxSlot = SlotWhenIdle(f)
  BY <1>4, SlotIs DEF Changes, SlotWhenIdle
<1> QED BY <1>1, <1>2, <1>3, <1>4, <1>5 DEF Changes, MacFields, SlotWhenIdle

(* ProcessRadioTxTimeout() *)
LEMMA TxTimeoutIs ==
  ASSUME NEW m, IsMac(m)
  PROVE  LET n == ProcessRadioTxTimeout(m)
         IN  /\ Changes(m, n, {"radio", "RxSlot", "confirm", "queue", "AckTimeoutRetry",
                               "MacFlags"})
             /\ n.RxSlot = SlotWhenIdle(m) /\ n.MacFlags = m.MacFlags \cup {"MacDone"}
             /\ n.confirm.type = m.confirm.type /\ n.confirm.ack = m.confirm.ack
             /\ n.confirm.ok = FALSE
             /\ n.queue = SetStatusCmn(m.queue, FALSE)
             /\ n.AckTimeoutRetry = (m.AckTimeoutRetry \/ m.NodeAckRequested)
             /\ m.DeviceClass = "A" => n.radio = "idle"
<1> DEFINE a == IF m.DeviceClass = "C" THEN m ELSE RadioSleep(m)
           u == UpdateRxSlotIdleState(a)
           n == [u EXCEPT !.confirm.ok = FALSE, !.queue = SetStatusCmn(@, FALSE),
                          !.AckTimeoutRetry = @ \/ m.NodeAckRequested,
                          !.MacFlags = @ \cup {"MacDone"}]
<1>1. Changes(m, a, {"radio"}) /\ (m.DeviceClass = "A" => a.radio = "idle")
  BY RadioIs DEF Changes
<1>2. ProcessRadioTxTimeout(m) = n
  BY DEF ProcessRadioTxTimeout
<1> HIDE DEF a
<1>3. Changes(a, u, {"RxSlot"}) /\ u.RxSlot = SlotWhenIdle(a)
  BY <1>1, SlotIs DEF Changes, SlotWhenIdle
<1> HIDE DEF u
<1>4. /\ Changes(u, n, {"confirm", "queue", "AckTimeoutRetry", "MacFlags"})
      /\ n.MacFlags = u.MacFlags \cup {"MacDone"} /\ n.queue = SetStatusCmn(u.queue, FALSE)
      /\ n.confirm.type = u.confirm.type /\ n.confirm.ack = u.confirm.ack
      /\ n.confirm.ok = FALSE
      /\ n.AckTimeoutRetry = (u.AckTimeoutRetry \/ m.NodeAckRequested)
  BY <1>3 DEF IsMac, MacFields, Changes
<1> HIDE DEF n
<1> QED BY <1>1, <1>2, <1>3, <1>4 DEF MacFields, Changes, SlotWhenIdle

(* HandleRadioRxErrorTimeout() before its last line. *)
LEMMA NoReceptionIs ==
  ASSUME NEW m, IsMac(m)
  PROVE  LET n == HandleRadioRxErrorTimeout(m)
         IN  /\ Changes(m, n, {"radio", "confirm", "queue", "timers", "MacFlags"})
             /\ n.confirm.type = m.confirm.type /\ n.confirm.ack = m.confirm.ack
             /\ n.confirm.ok => m.confirm.ok
             /\ n.queue = SetStatusCmn(m.queue, FALSE)
             /\ m.DeviceClass = "A" => n.radio = "idle"
             /\ \/ /\ m.RxSlot = "WIN_1" /\ m.late
                   /\ n.timers = m.timers \ {"RX2"} /\ n.MacFlags = m.MacFlags \cup {"MacDone"}
                \/ /\ m.RxSlot = "WIN_1" /\ ~m.late
                   /\ n.timers = m.timers /\ n.MacFlags = m.MacFlags
                \/ /\ m.RxSlot # "WIN_1" /\ m.DeviceClass = "C"
                   /\ n.timers = m.timers /\ n.MacFlags = m.MacFlags
                \/ /\ m.RxSlot # "WIN_1" /\ m.DeviceClass # "C"
                   /\ n.timers = m.timers /\ n.MacFlags = m.MacFlags \cup {"MacDone"}
<1> DEFINE a == IF m.DeviceClass = "C" THEN m ELSE RadioSleep(m)
           f == [a EXCEPT !.confirm.ok = @ /\ ~m.NodeAckRequested,
                          !.queue = SetStatusCmn(@, FALSE)]
           d == [f EXCEPT !.timers = @ \ {"RX2"}, !.MacFlags = @ \cup {"MacDone"}]
           e == [f EXCEPT !.MacFlags = @ \cup {"MacDone"}]
           n == HandleRadioRxErrorTimeout(m)
<1>1. Changes(m, a, {"radio"}) /\ (m.DeviceClass = "A" => a.radio = "idle")
  BY RadioIs DEF Changes
<1>2. \/ m.RxSlot = "WIN_1" /\ m.late /\ n = d
      \/ m.RxSlot = "WIN_1" /\ ~m.late /\ n = f
      \/ m.RxSlot # "WIN_1" /\ m.DeviceClass = "C" /\ n = f
      \/ m.RxSlot # "WIN_1" /\ m.DeviceClass # "C" /\ n = e
  BY DEF HandleRadioRxErrorTimeout
<1> HIDE DEF a, n
<1>3. /\ Changes(a, f, {"confirm", "queue"}) /\ f.queue = SetStatusCmn(a.queue, FALSE)
      /\ f.confirm.type = a.confirm.type /\ f.confirm.ack = a.confirm.ack
      /\ f.confirm.ok => a.confirm.ok
  BY <1>1 DEF IsMac, MacFields, Changes
<1> HIDE DEF f
<1>4. /\ Changes(f, d, {"timers", "MacFlags"}) /\ d.timers = f.timers \ {"RX2"}
      /\ d.MacFlags = f.MacFlags \cup {"MacDone"}
      /\ Changes(f, e, {"MacFlags"}) /\ e.MacFlags = f.MacFlags \cup {"MacDone"}
  BY <1>3 DEF IsMac, MacFields, Changes
<1> HIDE DEF d, e
<1>5. /\ Changes(m, f, {"radio", "confirm", "queue"})
      /\ f.timers = m.timers /\ f.MacFlags = m.MacFlags
      /\ f.queue = SetStatusCmn(m.queue, FALSE)
      /\ f.confirm.type = m.confirm.type /\ f.confirm.ack = m.confirm.ack
      /\ f.confirm.ok => m.confirm.ok
      /\ m.DeviceClass = "A" => f.radio = "idle"
  BY <1>1, <1>3 DEF MacFields, Changes
<1>6. ASSUME n = f \/ n = d \/ n = e
      PROVE  /\ Changes(m, n, {"radio", "confirm", "queue", "timers", "MacFlags"})
             /\ n.confirm.type = m.confirm.type /\ n.confirm.ack = m.confirm.ack
             /\ n.confirm.ok => m.confirm.ok
             /\ n.queue = SetStatusCmn(m.queue, FALSE)
             /\ m.DeviceClass = "A" => n.radio = "idle"
  BY <1>4, <1>5, <1>6 DEF MacFields, Changes
<1>7. /\ d.timers = m.timers \ {"RX2"} /\ d.MacFlags = m.MacFlags \cup {"MacDone"}
      /\ e.timers = m.timers /\ e.MacFlags = m.MacFlags \cup {"MacDone"}
  BY <1>4, <1>5 DEF MacFields, Changes
<1> QED BY <1>2, <1>5, <1>6, <1>7 DEF n

(* What ProcessRadioRxDone() does first. *)
RxBegun(m) ==
  RadioSleep([m EXCEPT !.confirm.ack = FALSE, !.timers = @ \ {"RX2"},
                       !.ind = [slot |-> m.RxSlot, ok |-> FALSE, pending |-> FALSE]])

(* The radio sleeps, RX2 is not opened, and nothing is indicated yet. *)
LEMMA RxBegunIs ==
  ASSUME NEW m, IsMac(m)
  PROVE  LET n == RxBegun(m)
         IN  /\ Changes(m, n, {"radio", "confirm", "timers", "ind"})
             /\ n.radio = "idle" /\ n.timers = m.timers \ {"RX2"}
             /\ n.confirm.type = m.confirm.type /\ n.confirm.ack = FALSE
             /\ n.ind.ok = FALSE
<1> DEFINE b == [m EXCEPT !.confirm.ack = FALSE, !.timers = @ \ {"RX2"},
                          !.ind = [slot |-> m.RxSlot, ok |-> FALSE, pending |-> FALSE]]
<1>1. /\ Changes(m, b, {"confirm", "timers", "ind"}) /\ b.timers = m.timers \ {"RX2"}
      /\ b.confirm.type = m.confirm.type /\ b.confirm.ack = FALSE
      /\ b.ind.ok = FALSE
  BY DEF IsMac, MacFields, Changes
<1>2. RxBegun(m) = RadioSleep(b)
  BY DEF RxBegun
<1> HIDE DEF b
<1>3. Changes(b, RadioSleep(b), {"radio"}) /\ RadioSleep(b).radio = "idle"
  BY <1>1, RadioIs DEF Changes
<1> QED BY <1>1, <1>2, <1>3 DEF Changes, MacFields

(* A frame that answers the join request, or is for the device. *)
Answered(m, kind) ==
  CASE kind = "accept" -> JoinAccepted(m)
    [] kind = "badAccept" -> [m EXCEPT !.queue = SetStatus(@, "JOIN", FALSE)]
    [] kind = "proprietary" -> [m EXCEPT !.ind.ok = TRUE, !.MacFlags = @ \cup {"McpsInd"}]
    [] OTHER -> DataAccepted(m, kind)

(* What a frame of data changes. *)
LEMMA DataAnswered ==
  ASSUME NEW m, IsMac(m), NEW kind, kind \notin {"accept", "badAccept", "proprietary"}
  PROVE  LET n == Answered(m, kind)
         IN  /\ Changes(m, n, {"confirm", "ind", "MacFlags"})
             /\ n.confirm.type = m.confirm.type /\ n.confirm.ack = (kind = "ack")
             /\ n.ind.ok = TRUE /\ n.MacFlags = m.MacFlags \cup {"McpsInd"}
<1>1. Answered(m, kind) = DataAccepted(m, kind)
  BY DEF Answered
<1>2. LET n == DataAccepted(m, kind)
      IN  /\ Changes(m, n, {"confirm", "ind", "MacFlags"})
          /\ n.confirm.type = m.confirm.type /\ n.confirm.ack = (kind = "ack")
          /\ n.ind.ok = TRUE /\ n.MacFlags = m.MacFlags \cup {"McpsInd"}
  BY DEF DataAccepted, IsMac, MacFields, Changes
<1> QED BY <1>1, <1>2

(* What a join accept changes. *)
LEMMA AcceptAnswered ==
  ASSUME NEW m, IsMac(m), NEW kind, kind = "accept"
  PROVE  LET n == Answered(m, kind)
         IN  /\ Changes(m, n, {"joined", "FCntUp", "hist", "queue"})
             /\ Notes(m, n, {"onAir"}) /\ n.hist.onAir = NoUplink
             /\ n.joined = TRUE /\ n.FCntUp = 0 /\ n.queue = SetStatus(m.queue, "JOIN", TRUE)
<1>1. Answered(m, kind) = JoinAccepted(m)
  BY DEF Answered
<1>2. LET n == JoinAccepted(m)
      IN  /\ Changes(m, n, {"joined", "FCntUp", "hist", "queue"})
          /\ Notes(m, n, {"onAir"}) /\ n.hist.onAir = NoUplink
          /\ n.joined = TRUE /\ n.FCntUp = 0 /\ n.queue = SetStatus(m.queue, "JOIN", TRUE)
  BY DEF JoinAccepted, IsMac, MacFields, HistFields, Changes, Notes
<1> QED BY <1>1, <1>2

(* What a join accept that fails its check changes. *)
LEMMA BadAcceptAnswered ==
  ASSUME NEW m, IsMac(m), NEW kind, kind = "badAccept"
  PROVE  LET n == Answered(m, kind)
         IN  Changes(m, n, {"queue"}) /\ n.queue = SetStatus(m.queue, "JOIN", FALSE)
<1>1. Answered(m, kind) = [m EXCEPT !.queue = SetStatus(@, "JOIN", FALSE)]
  BY DEF Answered
<1>2. LET n == [m EXCEPT !.queue = SetStatus(@, "JOIN", FALSE)]
      IN  Changes(m, n, {"queue"}) /\ n.queue = SetStatus(m.queue, "JOIN", FALSE)
  BY DEF IsMac, MacFields, Changes
<1> QED BY <1>1, <1>2

(* What a proprietary frame changes. *)
LEMMA ProprietaryAnswered ==
  ASSUME NEW m, IsMac(m), NEW kind, kind = "proprietary"
  PROVE  LET n == Answered(m, kind)
         IN  /\ Changes(m, n, {"confirm", "ind", "MacFlags"})
             /\ n.MacFlags = m.MacFlags \cup {"McpsInd"}
<1>1. Answered(m, kind) = [m EXCEPT !.ind.ok = TRUE, !.MacFlags = @ \cup {"McpsInd"}]
  BY DEF Answered
<1>2. LET n == [m EXCEPT !.ind.ok = TRUE, !.MacFlags = @ \cup {"McpsInd"}]
      IN  /\ Changes(m, n, {"confirm", "ind", "MacFlags"})
          /\ n.MacFlags = m.MacFlags \cup {"McpsInd"}
  BY DEF IsMac, MacFields, Changes
<1> QED BY <1>1, <1>2

(* Together, what any frame changes. *)
LEMMA AnsweredChanges ==
  ASSUME NEW m, IsMac(m), NEW kind
  PROVE  LET n == Answered(m, kind)
         IN  \/ Changes(m, n, {"joined", "FCntUp", "hist", "queue"}) /\ Notes(m, n, {"onAir"})
             \/ Changes(m, n, {"queue"})
             \/ /\ Changes(m, n, {"confirm", "ind", "MacFlags"})
                /\ n.MacFlags = m.MacFlags \cup {"McpsInd"}
<1>1. CASE kind = "accept"
  BY <1>1, AcceptAnswered
<1>2. CASE kind = "badAccept"
  BY <1>2, BadAcceptAnswered
<1>3. CASE kind = "proprietary"
  BY <1>3, ProprietaryAnswered
<1>4. CASE kind \notin {"accept", "badAccept", "proprietary"}
  BY <1>4, DataAnswered
<1> QED BY <1>1, <1>2, <1>3, <1>4

(* Whether a frame ends the wait for an acknowledgement. *)
AckOver(m) == IF m.NodeAckRequested THEN m.confirm.ack ELSE m.DeviceClass = "C"

(* The end of ProcessRadioRxDone() for a frame that is taken. *)
RxEnded(m) ==
  LET done == IF AckOver(m) THEN OnAckTimeoutTimerEvent(m) ELSE m
  IN  UpdateRxSlotIdleState([done EXCEPT !.MacFlags = @ \cup {"MacDone"}])

(* The state is finished, with the wait for the acknowledgement or without. *)
LEMMA RxEndedIs ==
  ASSUME NEW m, IsMac(m)
  PROVE  LET n == RxEnded(m)
         IN  /\ Changes(m, n, {"timers", "AckTimeoutRetry", "MacFlags", "notified", "RxSlot"})
             /\ n.MacFlags = m.MacFlags \cup {"MacDone"} /\ n.RxSlot = SlotWhenIdle(m)
             /\ IF AckOver(m)
                THEN /\ n.timers = m.timers \ {"ACK"}
                     /\ n.AckTimeoutRetry = (m.AckTimeoutRetry \/ m.NodeAckRequested)
                ELSE n.timers = m.timers /\ n.AckTimeoutRetry = m.AckTimeoutRetry
<1> DEFINE k == IF AckOver(m) THEN OnAckTimeoutTimerEvent(m) ELSE m
           f == [k EXCEPT !.MacFlags = @ \cup {"MacDone"}]
<1>1. RxEnded(m) = UpdateRxSlotIdleState(f)
  BY DEF RxEnded
<1>2. /\ Changes(m, k, {"timers", "AckTimeoutRetry", "MacFlags", "notified"})
      /\ k.MacFlags \cup {"MacDone"} = m.MacFlags \cup {"MacDone"}
      /\ IF AckOver(m)
         THEN /\ k.timers = m.timers \ {"ACK"}
              /\ k.AckTimeoutRetry = (m.AckTimeoutRetry \/ m.NodeAckRequested)
         ELSE k.timers = m.timers /\ k.AckTimeoutRetry = m.AckTimeoutRetry
  <2>1. CASE AckOver(m)
    <3> DEFINE o == OnAckTimeoutTimerEvent(m)
    <3>1. k = o
      BY <2>1
    <3>2. /\ Changes(m, o, {"timers", "AckTimeoutRetry", "MacFlags", "notified"})
          /\ o.timers = m.timers \ {"ACK"}
          /\ o.AckTimeoutRetry = (m.AckTimeoutRetry \/ m.NodeAckRequested)
          /\ o.MacFlags = m.MacFlags \cup (IF m.DeviceClass = "C" THEN {"MacDone"} ELSE {})
      BY AckTimeoutIs
    <3> HIDE DEF o, k
    <3>3. o.MacFlags \cup {"MacDone"} = m.MacFlags \cup {"MacDone"}
      BY <3>2
    <3> QED BY <2>1, <3>1, <3>2, <3>3
  <2>2. CASE ~AckOver(m)
    <3>1. k = m
      BY <2>2
    <3> HIDE DEF k
    <3> QED BY <2>2, <3>1 DEF Changes, MacFields
  <2> QED BY <2>1, <2>2
<1> HIDE DEF k
<1>3. /\ Changes(k, f, {"MacFlags"}) /\ f.MacFlags = k.MacFlags \cup {"MacDone"}
  BY <1>2 DEF IsMac, MacFields, Changes
<1> HIDE DEF f
<1>4. /\ Changes(f, UpdateRxSlotIdleState(f), {"RxSlot"})
      /\ UpdateRxSlotIdleState(f).RxSlot = SlotWhenIdle(f)
  BY <1>3, SlotIs DEF Changes, SlotWhenIdle
<1> QED BY <1>1, <1>2, <1>3, <1>4 DEF Changes, MacFields, SlotWhenIdle

(* The two ways through ProcessRadioRxDone(). *)
LEMMA RxDoneIs ==
  ASSUME NEW m, NEW kind
  PROVE  ProcessRadioRxDone(m, kind) =
           IF JoinAnswer(m, kind) \/ DataFrame(m, kind) \/ kind = "proprietary"
           THEN RxEnded(Answered(RxBegun(m), kind)) ELSE PrepareRxDoneAbort(RxBegun(m))
BY DEF ProcessRadioRxDone, RxEnded, Answered, RxBegun, AckOver

(* LoRaMacCheckForRxAbort() *)
LEMMA RxAbortIs ==
  ASSUME NEW m, IsMac(m)
  PROVE  LET n == LoRaMacCheckForRxAbort(m)
         IN  /\ Changes(m, n, {"MacState"})
             /\ n.MacState = IF "RX_ABORT" \in m.MacState
                             THEN m.MacState \ {"RX_ABORT", "TX_RUNNING"} ELSE m.MacState
BY DEF LoRaMacCheckForRxAbort, IsMac, MacFields, Changes

(* LoRaMacHandleMlmeRequest() *)
LEMMA MlmeRequestIs ==
  ASSUME NEW m, IsMac(m)
  PROVE  LET n == LoRaMacHandleMlmeRequest(m)
         IN  /\ Changes(m, n, {"nbTrans", "MacState"})
             /\ IF "MlmeReq" \in m.MacFlags /\ IsCmdActive(m.queue, "JOIN")
                THEN /\ n.nbTrans = IF GetStatus(m.queue, "JOIN") THEN 0 ELSE m.nbTrans
                     /\ n.MacState = m.MacState \ {"TX_RUNNING"}
                ELSE n = m
<1> DEFINE e == [m EXCEPT !.nbTrans = IF GetStatus(m.queue, "JOIN") THEN 0 ELSE @,
                          !.MacState = @ \ {"TX_RUNNING"}]
<1>1. /\ Changes(m, e, {"nbTrans", "MacState"}) /\ e.MacState = m.MacState \ {"TX_RUNNING"}
      /\ e.nbTrans = IF GetStatus(m.queue, "JOIN") THEN 0 ELSE m.nbTrans
  BY DEF IsMac, MacFields, Changes
<1>2. LoRaMacHandleMlmeRequest(m) =
        IF "MlmeReq" \in m.MacFlags /\ IsCmdActive(m.queue, "JOIN") THEN e ELSE m
  BY DEF LoRaMacHandleMlmeRequest
<1>3. Changes(m, m, {"nbTrans", "MacState"})
  BY DEF Changes
<1> HIDE DEF e
<1> QED BY <1>1, <1>2, <1>3

(* An uplink that is not repeated. *)
LEMMA StopUplinkIs ==
  ASSUME NEW m, IsMac(m)
  PROVE  LET n == StopUplink(m)
         IN  /\ Changes(m, n, {"timers", "MacState", "nbTrans", "NodeAckRequested",
                               "AckTimeoutRetry"})
             /\ n.timers = m.timers \ {"DELAYED"}
             /\ n.MacState = m.MacState \ {"TX_DELAYED", "TX_RUNNING"}
             /\ n.nbTrans = 0 /\ n.NodeAckRequested = FALSE /\ n.AckTimeoutRetry = FALSE
<1> DEFINE s == [m EXCEPT !.timers = @ \ {"DELAYED"}, !.MacState = @ \ {"TX_DELAYED"}]
           n == StopRetransmission(s)
<1>1. /\ Changes(m, s, {"timers", "MacState"}) /\ s.timers = m.timers \ {"DELAYED"}
      /\ s.MacState = m.MacState \ {"TX_DELAYED"}
  BY DEF IsMac, MacFields, Changes
<1>2. StopUplink(m) = n
  BY DEF StopUplink
<1> HIDE DEF s
<1>3. /\ Changes(s, n, {"nbTrans", "NodeAckRequested", "AckTimeoutRetry", "MacState"})
      /\ n.nbTrans = 0 /\ n.NodeAckRequested = FALSE /\ n.AckTimeoutRetry = FALSE
      /\ n.MacState = s.MacState \ {"TX_RUNNING"}
  BY <1>1, StopRetransmissionIs DEF Changes
<1> HIDE DEF n
<1>4. s.MacState \ {"TX_RUNNING"} = m.MacState \ {"TX_DELAYED", "TX_RUNNING"}
  BY <1>1
<1> QED BY <1>1, <1>2, <1>3, <1>4 DEF Changes, MacFields

(* What a repetition starts from. *)
Cleared(m) == [m EXCEPT !.MacFlags = @ \ {"MacDone"}, !.AckTimeoutRetry = FALSE]

(* A repetition is a delayed frame whose moment has come. *)
LEMMA RepeatUplinkIs ==
  ASSUME NEW m, IsMac(m), NEW outcome
  PROVE  /\ RepeatUplink(m, outcome) = OnTxDelayedTimerEvent(Cleared(m), outcome)
         /\ Changes(m, Cleared(m), {"MacFlags", "AckTimeoutRetry"})
         /\ Cleared(m).MacFlags = m.MacFlags \ {"MacDone"} /\ Cleared(m).AckTimeoutRetry = FALSE
BY DEF RepeatUplink, Cleared, IsMac, MacFields, Changes

(* AckTimeoutRetriesProcess and AckTimeoutRetriesFinalize *)
LEMMA AckTimeoutRetriesIs ==
  ASSUME NEW m, IsMac(m)
  PROVE  LET n == AckTimeoutRetries(m)
         IN  /\ Changes(m, n, {"NodeAckRequested", "retries"})
             /\ CheckRetransConfirmedUplink(m) => n.retries = m.retries
             /\ ~CheckRetransConfirmedUplink(m) =>
                  n.retries = m.retries + 1 /\ n.NodeAckRequested = m.NodeAckRequested
<1> DEFINE x == [m EXCEPT !.NodeAckRequested = @ /\ m.confirm.ack]
           y == [m EXCEPT !.retries = @ + 1]
<1>1. /\ Changes(m, x, {"NodeAckRequested"}) /\ Changes(m, y, {"retries"})
      /\ y.retries = m.retries + 1
  BY DEF IsMac, MacFields, Changes
<1>2. AckTimeoutRetries(m) = IF CheckRetransConfirmedUplink(m) THEN x ELSE y
  BY DEF AckTimeoutRetries
<1> HIDE DEF x, y
<1> QED BY <1>1, <1>2 DEF Changes, MacFields

(* McpsConfirm() *)
LEMMA McpsConfirmIs ==
  ASSUME NEW m, IsMac(m)
  PROVE  LET n == McpsConfirm(m)
         IN  /\ Changes(m, n, {"hist"}) /\ Notes(m, n, {"owed", "verdict"})
             /\ n.hist.owed = m.hist.owed - 1
             /\ n.hist.verdict = [type |-> m.confirm.type, ok |-> m.confirm.ok,
                                  ack |-> m.confirm.ack, tries |-> m.hist.tries,
                                  sent |-> m.hist.sent, gaveUp |-> m.hist.gaveUp]
BY DEF McpsConfirm, IsMac, MacFields, HistFields, Changes, Notes

(* LoRaMacConfirmQueueHandleCb() *)
LEMMA HandleCbIs ==
  ASSUME NEW m, IsMac(m)
  PROVE  LET n == LoRaMacConfirmQueueHandleCb(m)
         IN  /\ Changes(m, n, {"queue", "radio", "RxSlot", "DeviceClass", "NodeAckRequested"})
             /\ n.queue = Waiting(m.queue)
             /\ DefaultClass = m.DeviceClass => Changes(m, n, {"queue"})
<1> DEFINE told == [m EXCEPT !.queue = Waiting(@)]
           asks == LmHandlerRequestClass(told, DefaultClass)
<1>1. Changes(m, told, {"queue"}) /\ told.queue = Waiting(m.queue)
  BY DEF IsMac, MacFields, Changes
<1>2. LoRaMacConfirmQueueHandleCb(m) = IF JoinSucceeded(m.queue) THEN asks ELSE told
  BY DEF LoRaMacConfirmQueueHandleCb
<1> HIDE DEF told
<1>3. /\ Changes(told, asks, {"radio", "RxSlot", "DeviceClass", "NodeAckRequested"})
      /\ DefaultClass = told.DeviceClass => asks = told
  BY <1>1, RequestClassIs DEF Changes
<1> HIDE DEF asks
<1>4. /\ Changes(m, asks, {"queue", "radio", "RxSlot", "DeviceClass", "NodeAckRequested"})
      /\ asks.queue = Waiting(m.queue)
      /\ DefaultClass = m.DeviceClass => asks = told
  BY <1>1, <1>3 DEF Changes, MacFields
<1> QED BY <1>1, <1>2, <1>4 DEF Changes, MacFields

(* LoRaMacHandleRequestEvents() once the MAC is free. *)
LEMMA RequestEventsIs ==
  ASSUME NEW m, IsMac(m), m.MacState = {}
  PROVE  LET n == LoRaMacHandleRequestEvents(m)
         IN  /\ Changes(m, n, {"MacFlags", "hist", "queue", "radio", "RxSlot", "DeviceClass",
                               "NodeAckRequested"})
             /\ DefaultClass = m.DeviceClass => Changes(m, n, {"MacFlags", "hist", "queue"})
             /\ n.MacFlags = (m.MacFlags \ {"McpsReq", "MlmeReq", "MacDone"}) \cup
                  (IF "MlmeReq" \in m.MacFlags /\ n.queue # <<>> THEN {"MlmeReq"} ELSE {})
             /\ n.queue = IF "MlmeReq" \in m.MacFlags THEN Waiting(m.queue) ELSE m.queue
             /\ Notes(m, n, {"owed", "verdict"})
             /\ "McpsReq" \notin m.MacFlags => n.hist = m.hist
             /\ "McpsReq" \in m.MacFlags =>
                  /\ n.hist.owed = m.hist.owed - 1
                  /\ n.hist.verdict = [type |-> m.confirm.type, ok |-> m.confirm.ok,
                                       ack |-> m.confirm.ack, tries |-> m.hist.tries,
                                       sent |-> m.hist.sent, gaveUp |-> m.hist.gaveUp]
<1> DEFINE freed == [m EXCEPT !.MacFlags = @ \ {"McpsReq", "MlmeReq"}]
           mcps == IF "McpsReq" \in m.MacFlags THEN McpsConfirm(freed) ELSE freed
           mlme == IF "MlmeReq" \in m.MacFlags THEN LoRaMacConfirmQueueHandleCb(mcps) ELSE mcps
           again == IF "MlmeReq" \in m.MacFlags /\ mlme.queue # <<>> THEN {"MlmeReq"} ELSE {}
           n == [mlme EXCEPT !.MacFlags = (@ \cup again) \ {"MacDone"}]
<1>1. LoRaMacHandleRequestEvents(m) = n
  BY DEF LoRaMacHandleRequestEvents
<1>2. Changes(m, freed, {"MacFlags"}) /\ freed.MacFlags = m.MacFlags \ {"McpsReq", "MlmeReq"}
  BY DEF IsMac, MacFields, Changes
<1> HIDE DEF freed
<1>3. /\ Changes(freed, mcps, {"hist"}) /\ Notes(freed, mcps, {"owed", "verdict"})
      /\ "McpsReq" \notin m.MacFlags => mcps.hist = freed.hist
      /\ "McpsReq" \in m.MacFlags =>
           /\ mcps.hist.owed = freed.hist.owed - 1
           /\ mcps.hist.verdict = [type |-> freed.confirm.type, ok |-> freed.confirm.ok,
                                   ack |-> freed.confirm.ack, tries |-> freed.hist.tries,
                                   sent |-> freed.hist.sent, gaveUp |-> freed.hist.gaveUp]
  <2>1. CASE "McpsReq" \in m.MacFlags
    <3>1. mcps = McpsConfirm(freed)
      BY <2>1
    <3> HIDE DEF mcps
    <3>2. IsMac(freed)
      BY <1>2 DEF Changes
    <3> QED BY <2>1, <3>1, <3>2, McpsConfirmIs
  <2>2. CASE "McpsReq" \notin m.MacFlags
    <3>1. mcps = freed
      BY <2>2
    <3> HIDE DEF mcps
    <3> QED BY <1>2, <2>2, <3>1 DEF Changes, Notes
  <2> QED BY <2>1, <2>2
<1> HIDE DEF mcps
<1>4. /\ Changes(mcps, mlme, {"queue", "radio", "RxSlot", "DeviceClass", "NodeAckRequested"})
      /\ DefaultClass = mcps.DeviceClass => Changes(mcps, mlme, {"queue"})
      /\ mlme.queue = IF "MlmeReq" \in m.MacFlags THEN Waiting(mcps.queue) ELSE mcps.queue
  <2>1. CASE "MlmeReq" \in m.MacFlags
    <3>1. mlme = LoRaMacConfirmQueueHandleCb(mcps)
      BY <2>1
    <3> HIDE DEF mlme
    <3>2. IsMac(mcps)
      BY <1>3 DEF Changes
    <3> QED BY <2>1, <3>1, <3>2, HandleCbIs
  <2>2. CASE "MlmeReq" \notin m.MacFlags
    <3>1. mlme = mcps
      BY <2>2
    <3> HIDE DEF mlme
    <3> QED BY <1>3, <2>2, <3>1 DEF Changes
  <2> QED BY <2>1, <2>2
<1> HIDE DEF mlme
<1>5. /\ Changes(mlme, n, {"MacFlags"})
      /\ n.MacFlags = (mlme.MacFlags \cup again) \ {"MacDone"}
  BY <1>4 DEF IsMac, MacFields, Changes
<1> HIDE DEF n
<1>6. /\ n.queue = mlme.queue /\ mcps.queue = m.queue /\ mlme.MacFlags = freed.MacFlags
      /\ freed.hist = m.hist /\ n.hist = mcps.hist /\ freed.confirm = m.confirm
      /\ mcps.DeviceClass = m.DeviceClass
  BY <1>2, <1>3, <1>4, <1>5 DEF Changes, MacFields
<1>7. n.MacFlags = (m.MacFlags \ {"McpsReq", "MlmeReq", "MacDone"}) \cup
                  (IF "MlmeReq" \in m.MacFlags /\ n.queue # <<>> THEN {"MlmeReq"} ELSE {})
  BY <1>2, <1>5, <1>6
<1>8. /\ Changes(m, n, {"MacFlags", "hist", "queue", "radio", "RxSlot", "DeviceClass",
                        "NodeAckRequested"})
      /\ DefaultClass = m.DeviceClass => Changes(m, n, {"MacFlags", "hist", "queue"})
  BY <1>2, <1>3, <1>4, <1>5, <1>6 DEF Changes, MacFields
<1>9. /\ Notes(m, n, {"owed", "verdict"})
      /\ n.queue = IF "MlmeReq" \in m.MacFlags THEN Waiting(m.queue) ELSE m.queue
  BY <1>3, <1>4, <1>6 DEF Notes
<1> QED BY <1>1, <1>3, <1>6, <1>7, <1>8, <1>9

(* LoRaMacHandleIndicationEvents(): the indication is forgotten, and when  *)
(* it carries data the application may ask for a class, and an uplink may  *)
(* be sent that asks for the pending data.                                 *)
LEMMA IndicationIs ==
  ASSUME NEW m, IsMac(m), NEW class, NEW outcome
  PROVE  LET n == LoRaMacHandleIndicationEvents(m, class, outcome)
             seen == [m EXCEPT !.MacFlags = @ \ {"McpsInd"}]
             told == LmHandlerRequestClass(seen, class)
         IN  /\ Changes(m, seen, {"MacFlags"}) /\ seen.MacFlags = m.MacFlags \ {"McpsInd"}
             /\ "McpsInd" \notin m.MacFlags => n = seen
             /\ \/ n = seen
                \/ m.ind.ok /\ n = told
                \/ m.ind.ok /\ n = LmHandlerSend(told, "UNCONFIRMED", TRUE, outcome)
BY DEF LoRaMacHandleIndicationEvents, McpsIndication, IsMac, MacFields, Changes

(* The continuous window is opened again only if the slot says so. *)
LEMMA ReopensIs ==
  ASSUME NEW m, IsMac(m)
  PROVE  /\ Changes(m, MacReopensRxC(m), {"radio", "RxSlot"})
         /\ m.RxSlot # "CLASS_C" => MacReopensRxC(m) = m
<1>1. Changes(m, m, {"radio", "RxSlot"})
  BY DEF Changes
<1> QED BY <1>1, SlotIs DEF MacReopensRxC

(* An interrupt tells the thread. *)
LEMMA NotifiedIs ==
  ASSUME NEW m, IsMac(m), NEW b \in BOOLEAN
  PROVE  Changes(m, [m EXCEPT !.notified = b], {"notified"})
BY DEF IsMac, MacFields, Changes

(* Every event changes a few fields of MacCtx. *)
LEMMA IrqIs ==
  ASSUME NEW m, NEW F, Changes(mac, m, F)
  PROVE  Changes(mac, [m EXCEPT !.notified = TRUE], F \cup {"notified"})
<1>1. Changes(m, [m EXCEPT !.notified = TRUE], {"notified"})
  BY NotifiedIs DEF Changes
<1> QED BY <1>1 DEF Changes
-----------------------------------------------------------------------------
(* One uplink at a time, in every class.                                   *)

(* An uplink that is owed its confirm is one McpsReq stands for, and while *)
(* it stands the MAC is busy.                                              *)
OwedInv(m) ==
  /\ IsMac(m)
  /\ m.hist.owed = IF "McpsReq" \in m.MacFlags THEN 1 ELSE 0
  /\ "McpsReq" \in m.MacFlags => m.MacState # {} /\ "STOPPED" \notin m.MacState

(* A step that neither takes nor confirms an uplink, nor frees the MAC. *)
Keeps(m, n) ==
  /\ IsMac(n) /\ n.hist.owed = m.hist.owed
  /\ "McpsReq" \in n.MacFlags <=> "McpsReq" \in m.MacFlags
  /\ m.MacState # {} => n.MacState # {}
  /\ "STOPPED" \in n.MacState => "STOPPED" \in m.MacState

(* Such a step keeps the invariant. *)
LEMMA KeepsIsEnough ==
  ASSUME NEW m, NEW n, OwedInv(m), Keeps(m, n)
  PROVE  OwedInv(n)
BY DEF OwedInv, Keeps

(* It may be followed by another. *)
LEMMA KeepsOn ==
  ASSUME NEW l, NEW m, NEW n, Keeps(l, m), Keeps(m, n)
  PROVE  Keeps(l, n)
BY DEF Keeps

(* Most functions leave all of it alone. *)
LEMMA Untouched ==
  ASSUME NEW m, NEW n, NEW F, Changes(m, n, F),
         F \cap {"hist", "MacFlags", "MacState"} = {}
  PROVE  Keeps(m, n)
BY DEF Keeps, Changes, MacFields

(* A join request is taken only when no uplink is owed. *)
LEMMA JoinKeepsOwed ==
  ASSUME NEW m, OwedInv(m), "McpsReq" \notin m.MacFlags, NEW outcome
  PROVE  OwedInv(LmHandlerJoin(m, outcome))
<1> DEFINE n == LmHandlerJoin(m, outcome)
           r == Rejoining(m)
           s == SendFrameOnChannel(r)
<1>1. /\ Changes(m, r, {"radio", "DeviceClass", "MacState", "MacFlags", "joined", "msg", "nbTrans",
                        "maxRetries", "retries", "AckTimeoutRetry", "NodeAckRequested"})
      /\ r.MacFlags = m.MacFlags \cup {"MlmeReq"}
  BY RejoiningIs DEF OwedInv
<1>2. \/ Changes(m, n, {"MacState"})
      \/ Changes(s, n, {"queue", "hist"}) /\ Notes(s, n, {"joins"})
      \/ Changes(r, n, {"MacFlags"}) /\ (n.MacFlags = m.MacFlags \ {"MlmeReq"} \/ n.MacFlags = r.MacFlags)
  BY JoinIs DEF OwedInv
<1> SUFFICES OwedInv(n)
  OBVIOUS
<1> HIDE DEF n, r
<1>3. Changes(r, s, {"radio", "radioTimers", "MacState", "nbTrans", "confirm", "FCntUp", "hist"})
        /\ Notes(r, s, {"onAir", "tries"})
  BY <1>1, SendFrameIs DEF Changes
<1> HIDE DEF s
<1>4. CASE Changes(m, n, {"MacState"})
  BY <1>4 DEF OwedInv, Changes, MacFields
<1>5. CASE Changes(s, n, {"queue", "hist"}) /\ Notes(s, n, {"joins"})
  <2>1. /\ IsMac(n) /\ n.hist.owed = m.hist.owed
        /\ n.MacFlags = m.MacFlags \cup {"MlmeReq"}
    BY <1>1, <1>3, <1>5 DEF Changes, Notes, MacFields, HistFields
  <2> QED BY <2>1 DEF OwedInv
<1>6. CASE /\ Changes(r, n, {"MacFlags"})
           /\ n.MacFlags = m.MacFlags \ {"MlmeReq"} \/ n.MacFlags = r.MacFlags
  <2>1. IsMac(n) /\ n.hist.owed = m.hist.owed /\ "McpsReq" \notin n.MacFlags
    BY <1>1, <1>6 DEF Changes, MacFields
  <2> QED BY <2>1 DEF OwedInv
<1> QED BY <1>2, <1>4, <1>5, <1>6

(* LmHandlerSend() asks the MAC whether it is busy first. *)
LEMMA SendKeepsOwed ==
  ASSUME NEW m, OwedInv(m), NEW type, NEW allow \in BOOLEAN, NEW outcome,
         outcome # "NO_WAIT_TIME"
  PROVE  OwedInv(LmHandlerSend(m, type, allow, outcome))
<1> DEFINE n == LoRaMacMcpsRequest(m, type, allow, outcome)
<1>1. CASE LoRaMacIsBusy(m)
  BY <1>1 DEF LmHandlerSend
<1>2. CASE ~LoRaMacIsBusy(m)
  <2>1. m.MacState = {} /\ "McpsReq" \notin m.MacFlags /\ m.hist.owed = 0
    BY <1>2 DEF LoRaMacIsBusy, OwedInv
  <2>2. OwedInv(LmHandlerJoin(m, outcome))
    BY <2>1, JoinKeepsOwed
  <2>3. OwedInv(n)
    <3>1. GoesOut(m, n, type) \/ IsPostponed(m, n, type) \/ Refused(m, n)
      BY McpsRequestIs DEF OwedInv
    <3> HIDE DEF n
    <3>2. CASE GoesOut(m, n, type)
      BY <2>1, <3>2 DEF GoesOut, Accepted, OwedInv, Changes
    <3>3. CASE IsPostponed(m, n, type)
      BY <2>1, <3>3 DEF IsPostponed, Accepted, OwedInv, Changes
    <3>4. CASE Refused(m, n)
      BY <2>1, <3>4 DEF Refused, OwedInv, Changes, MacFields
    <3> QED BY <3>1, <3>2, <3>3, <3>4
  <2>4. LmHandlerSend(m, type, allow, outcome) \in {LmHandlerJoin(m, outcome), n}
    BY <1>2 DEF LmHandlerSend
  <2> HIDE DEF n
  <2> QED BY <2>2, <2>3, <2>4
<1> QED BY <1>1, <1>2

(* A delayed frame that is sent or waits again keeps the MAC busy. *)
LEMMA TxDelayedKeepsOwed ==
  ASSUME NEW m, IsMac(m), NEW outcome, outcome \in {"OK", "DUTYCYCLE_RESTRICTED"}
  PROVE  Keeps(m, OnTxDelayedTimerEvent(m, outcome))
<1> DEFINE w == Woken(m)
           n == OnTxDelayedTimerEvent(m, outcome)
           s == SendFrameOnChannel(w)
           p == Postponed(w)
<1>1. /\ Changes(m, w, {"timers", "MacState"}) /\ w.MacState = m.MacState \ {"TX_DELAYED"}
      /\ n = s \/ n = p
  BY TxDelayedIs
<1> HIDE DEF w, n
<1>2. /\ Changes(w, s, {"radio", "radioTimers", "MacState", "nbTrans", "confirm", "FCntUp", "hist"})
      /\ Notes(w, s, {"onAir", "tries"}) /\ s.MacState = w.MacState \cup {"TX_RUNNING"}
      /\ Changes(w, p, {"MacState", "timers"}) /\ p.MacState = w.MacState \cup {"TX_DELAYED"}
  <2>1. IsMac(w)
    BY <1>1 DEF Changes
  <2> QED BY <2>1, SendFrameIs, PostponedIs
<1> HIDE DEF s, p
<1>3. Keeps(m, s)
  BY <1>1, <1>2 DEF Changes, Notes, MacFields, HistFields, Keeps
<1>4. Keeps(m, p)
  BY <1>1, <1>2 DEF Changes, Notes, MacFields, HistFields, Keeps
<1> QED BY <1>1, <1>3, <1>4 DEF n

(* The same of a step that may free the MAC. *)
MayFree(m, n) ==
  /\ IsMac(n) /\ n.hist.owed = m.hist.owed
  /\ "McpsReq" \in n.MacFlags <=> "McpsReq" \in m.MacFlags
  /\ "STOPPED" \in n.MacState => "STOPPED" \in m.MacState

(* A repetition may fail. *)
LEMMA RepeatMayFree ==
  ASSUME NEW m, IsMac(m), NEW outcome, outcome # "NO_WAIT_TIME"
  PROVE  MayFree(m, RepeatUplink(m, outcome))
<1> DEFINE c == Cleared(m)
           n == OnTxDelayedTimerEvent(c, outcome)
<1>1. /\ RepeatUplink(m, outcome) = n
      /\ Changes(m, c, {"MacFlags", "AckTimeoutRetry"}) /\ c.MacFlags = m.MacFlags \ {"MacDone"}
  BY RepeatUplinkIs
<1> HIDE DEF c
<1>2. IsMac(c) /\ MayFree(m, c)
  BY <1>1 DEF MayFree, Changes, MacFields
<1>3. CASE outcome \in {"OK", "DUTYCYCLE_RESTRICTED"}
  <2>1. Keeps(c, n)
    BY <1>2, <1>3, TxDelayedKeepsOwed
  <2> HIDE DEF n
  <2> QED BY <1>1, <1>2, <2>1 DEF Keeps, MayFree
<1>4. CASE outcome \notin {"OK", "DUTYCYCLE_RESTRICTED"}
  <2>1. /\ Changes(c, n, {"timers", "MacState", "confirm", "queue", "hist", "nbTrans",
                          "NodeAckRequested", "AckTimeoutRetry"})
        /\ n.MacState = c.MacState \ {"TX_DELAYED", "TX_RUNNING"} /\ Notes(c, n, {"gaveUp"})
    BY <1>2, <1>4, TxDelayedIs
  <2> HIDE DEF n
  <2> QED BY <1>1, <1>2, <2>1 DEF MayFree, Changes, Notes, MacFields, HistFields
<1> QED BY <1>3, <1>4

(* So may the end of an uplink. *)
LEMMA HandleMcpsMayFree ==
  ASSUME NEW m, IsMac(m), NEW outcome, outcome # "NO_WAIT_TIME"
  PROVE  MayFree(m, LoRaMacHandleMcpsRequest(m, outcome))
<1> DEFINE k == AckTimeoutRetries(m)
           n == LoRaMacHandleMcpsRequest(m, outcome)
<1>1. n \in {m, StopUplink(m), RepeatUplink(m, outcome), StopUplink(k), RepeatUplink(k, outcome)}
  BY DEF LoRaMacHandleMcpsRequest
<1>2. Changes(m, k, {"NodeAckRequested", "retries"})
  BY AckTimeoutRetriesIs
<1> HIDE DEF n, k
<1>3. MayFree(m, k) /\ IsMac(k) /\ MayFree(m, m)
  BY <1>2 DEF Changes, MacFields, MayFree
<1>4. ASSUME NEW x, IsMac(x)
      PROVE  MayFree(x, StopUplink(x)) /\ MayFree(x, RepeatUplink(x, outcome))
  <2> DEFINE s == StopUplink(x)
  <2>1. /\ Changes(x, s, {"timers", "MacState", "nbTrans", "NodeAckRequested", "AckTimeoutRetry"})
        /\ s.MacState = x.MacState \ {"TX_DELAYED", "TX_RUNNING"}
    BY <1>4, StopUplinkIs
  <2> HIDE DEF s
  <2>2. MayFree(x, s)
    BY <2>1 DEF MayFree, Changes, MacFields
  <2> QED BY <1>4, <2>2, RepeatMayFree DEF s
<1>5. /\ MayFree(m, StopUplink(m)) /\ MayFree(m, RepeatUplink(m, outcome))
      /\ MayFree(k, StopUplink(k)) /\ MayFree(k, RepeatUplink(k, outcome))
  BY <1>3, <1>4
<1>6. MayFree(m, n)
  BY <1>1, <1>3, <1>5 DEF MayFree
<1> QED BY <1>6 DEF n

(* The requests are confirmed once the MAC is free. *)
LEMMA RequestEventsKeepOwed ==
  ASSUME NEW m, IsMac(m), m.hist.owed = IF "McpsReq" \in m.MacFlags THEN 1 ELSE 0,
         "McpsReq" \in m.MacFlags => "STOPPED" \notin m.MacState
  PROVE  OwedInv(LoRaMacHandleRequestEvents(m))
<1> DEFINE n == LoRaMacHandleRequestEvents(m)
<1>1. CASE m.MacState = {}
  <2>1. /\ Changes(m, n, {"MacFlags", "hist", "queue", "radio", "RxSlot", "DeviceClass",
                          "NodeAckRequested"})
        /\ n.MacFlags = (m.MacFlags \ {"McpsReq", "MlmeReq", "MacDone"}) \cup
             (IF "MlmeReq" \in m.MacFlags /\ n.queue # <<>> THEN {"MlmeReq"} ELSE {})
        /\ "McpsReq" \notin m.MacFlags => n.hist = m.hist
        /\ "McpsReq" \in m.MacFlags => n.hist.owed = m.hist.owed - 1
    BY <1>1, RequestEventsIs
  <2> HIDE DEF n
  <2>2. IsMac(n) /\ "McpsReq" \notin n.MacFlags
    BY <2>1 DEF Changes
  <2>3. n.hist.owed = 0
    BY <2>1
  <2>4. OwedInv(n)
    BY <2>2, <2>3 DEF OwedInv
  <2> QED BY <2>4 DEF n
<1>2. CASE m.MacState # {}
  <2>1. n = m
    BY <1>2 DEF LoRaMacHandleRequestEvents
  <2> QED BY <1>2, <2>1 DEF OwedInv
<1> QED BY <1>1, <1>2

(* What LoRaMacProcess() does when a state is finished. *)
LEMMA MacDoneKeepsOwed ==
  ASSUME NEW m, OwedInv(m), NEW outcome, outcome # "NO_WAIT_TIME"
  PROVE  OwedInv(MacDoneIsHandled(m, outcome))
<1> DEFINE a == LoRaMacCheckForRxAbort(m)
           b == LoRaMacHandleMlmeRequest(a)
           c == LoRaMacHandleMcpsRequest(b, outcome)
<1>1. MacDoneIsHandled(m, outcome) \in {m, LoRaMacHandleRequestEvents(c)}
  BY DEF MacDoneIsHandled
<1>2. /\ Changes(m, a, {"MacState"})
      /\ a.MacState \in {m.MacState, m.MacState \ {"RX_ABORT", "TX_RUNNING"}}
  BY RxAbortIs DEF OwedInv
<1> HIDE DEF a
<1>3. IsMac(a) /\ MayFree(m, a)
  BY <1>2 DEF MayFree, Changes, MacFields
<1>4. /\ Changes(a, b, {"nbTrans", "MacState"})
      /\ b.MacState = a.MacState \ {"TX_RUNNING"} \/ b = a
  BY <1>3, MlmeRequestIs
<1> HIDE DEF b
<1>5. IsMac(b) /\ MayFree(a, b)
  BY <1>3, <1>4 DEF MayFree, Changes, MacFields
<1>6. MayFree(b, c)
  BY <1>5, HandleMcpsMayFree
<1> HIDE DEF c
<1>7. /\ IsMac(c) /\ c.hist.owed = IF "McpsReq" \in c.MacFlags THEN 1 ELSE 0
      /\ "McpsReq" \in c.MacFlags => "STOPPED" \notin c.MacState
  BY <1>3, <1>5, <1>6 DEF MayFree, OwedInv
<1>8. OwedInv(LoRaMacHandleRequestEvents(c))
  BY <1>7, RequestEventsKeepOwed
<1> QED BY <1>1, <1>8

(* What it does with an indication. *)
LEMMA IndicationKeepsOwed ==
  ASSUME NEW m, OwedInv(m), NEW class, NEW outcome, outcome # "NO_WAIT_TIME"
  PROVE  OwedInv(LoRaMacHandleIndicationEvents(m, class, outcome))
<1> DEFINE n == LoRaMacHandleIndicationEvents(m, class, outcome)
           seen == [m EXCEPT !.MacFlags = @ \ {"McpsInd"}]
           told == LmHandlerRequestClass(seen, class)
           sent == LmHandlerSend(told, "UNCONFIRMED", TRUE, outcome)
<1>1. /\ Changes(m, seen, {"MacFlags"}) /\ seen.MacFlags = m.MacFlags \ {"McpsInd"}
      /\ n \in {seen, told, sent}
  BY IndicationIs DEF OwedInv
<1> HIDE DEF n, seen
<1>2. OwedInv(seen)
  BY <1>1 DEF OwedInv, Changes, MacFields
<1>3. Changes(seen, told, {"radio", "RxSlot", "DeviceClass", "NodeAckRequested"})
  BY <1>2, RequestClassIs DEF OwedInv
<1> HIDE DEF told
<1>4. OwedInv(told)
  BY <1>2, <1>3 DEF OwedInv, Changes, MacFields
<1>5. OwedInv(sent)
  BY <1>4, SendKeepsOwed
<1> QED BY <1>1, <1>2, <1>4, <1>5 DEF n

(* LoRaMacProcess() takes the bits of the interrupts. *)
LEMMA NotificationKeepsOwed ==
  ASSUME NEW m, OwedInv(m), NEW b \in BOOLEAN
  PROVE  OwedInv([m EXCEPT !.notified = b])
<1> DEFINE n == [m EXCEPT !.notified = b]
<1>1. Changes(m, n, {"notified"})
  BY NotifiedIs DEF OwedInv
<1> HIDE DEF n
<1>2. OwedInv(n)
  BY <1>1 DEF OwedInv, Changes, MacFields
<1> QED BY <1>2 DEF n

(* Every step keeps it, if what is accepted is sent or waits, and the      *)
(* timer interrupt can always send or wait.                                *)
LEMMA OwedStep ==
  ASSUME OwedInv(mac), "NO_WAIT_TIME" \notin Outcomes,
         IsrOutcomes \subseteq {"OK", "DUTYCYCLE_RESTRICTED"}, [Next]_vars
  PROVE  OwedInv(mac')
<1>1. IsMac(mac)
  BY DEF OwedInv
<1>2. ASSUME NEW m, NEW F, Changes(mac, m, F), F \cap {"hist", "MacFlags", "MacState"} = {}
      PROVE  OwedInv(m) /\ OwedInv([m EXCEPT !.notified = TRUE])
  <2>1. OwedInv(m)
    BY <1>2, Untouched, KeepsIsEnough
  <2> QED BY <2>1, NotificationKeepsOwed
<1>3. CASE MacTakesEvents
  BY <1>3, NotificationKeepsOwed DEF MacTakesEvents
<1>4. CASE MacHandlesTxDone
  <2> DEFINE n == ProcessRadioTxDone(mac)
  <2>1. mac' = n
    BY <1>4 DEF MacHandlesTxDone, MacHandles
  <2>2. Changes(mac, n, {"radio", "timers", "late", "confirm"})
    BY <1>1, TxDoneIs
  <2> HIDE DEF n
  <2> QED BY <1>2, <2>1, <2>2
<1>5. CASE MacHandlesRxDone
  <2> DEFINE n == ProcessRadioRxDone(mac, frame)
             b == RxBegun(mac)
             a == Answered(b, frame)
             e == RxEnded(a)
             s == PrepareRxDoneAbort(b)
  <2>1. mac' = n /\ n \in {e, s}
    BY <1>5, RxDoneIs DEF MacHandlesRxDone, MacHandles
  <2>2. Changes(mac, b, {"radio", "confirm", "timers", "ind"})
    BY <1>1, RxBegunIs
  <2> HIDE DEF n, b
  <2>3. IsMac(b) /\ Keeps(mac, b)
    BY <2>2, Untouched DEF Changes
  <2>4. /\ Changes(b, s, {"MacState", "timers", "AckTimeoutRetry", "MacFlags", "notified", "RxSlot"})
        /\ s.MacState = b.MacState \cup {"RX_ABORT"}
        /\ s.MacFlags = b.MacFlags \cup {"McpsInd", "MacDone"}
    BY <2>3, RxDoneAbortIs
  <2> HIDE DEF s
  <2>5. Keeps(b, s)
    BY <2>4 DEF Keeps, Changes, MacFields
  <2>6. \/ Changes(b, a, {"joined", "FCntUp", "hist", "queue"}) /\ Notes(b, a, {"onAir"})
        \/ Changes(b, a, {"queue"})
        \/ /\ Changes(b, a, {"confirm", "ind", "MacFlags"})
           /\ a.MacFlags = b.MacFlags \cup {"McpsInd"}
    BY <2>3, AnsweredChanges
  <2> HIDE DEF a
  <2>7. IsMac(a) /\ Keeps(b, a)
    BY <2>6 DEF Keeps, Changes, Notes, MacFields, HistFields
  <2>8. /\ Changes(a, e, {"timers", "AckTimeoutRetry", "MacFlags", "notified", "RxSlot"})
        /\ e.MacFlags = a.MacFlags \cup {"MacDone"}
    BY <2>7, RxEndedIs
  <2> HIDE DEF e
  <2>9. Keeps(a, e)
    BY <2>8 DEF Keeps, Changes, MacFields
  <2>10. Keeps(mac, e) /\ Keeps(mac, s)
    BY <2>3, <2>5, <2>7, <2>9, KeepsOn
  <2> QED BY <2>1, <2>10, KeepsIsEnough
<1>6. CASE MacHandlesTxTimeout
  <2> DEFINE n == ProcessRadioTxTimeout(mac)
  <2>1. mac' = n
    BY <1>6 DEF MacHandlesTxTimeout, MacHandles
  <2>2. /\ Changes(mac, n, {"radio", "RxSlot", "confirm", "queue", "AckTimeoutRetry", "MacFlags"})
        /\ n.MacFlags = mac.MacFlags \cup {"MacDone"}
    BY <1>1, TxTimeoutIs
  <2> HIDE DEF n
  <2>3. Keeps(mac, n)
    BY <2>2 DEF Keeps, Changes, MacFields
  <2> QED BY <2>1, <2>3, KeepsIsEnough
<1>7. CASE MacHandlesNoReception
  <2> DEFINE n == HandleRadioRxErrorTimeout(mac)
  <2>1. mac' = n
    BY <1>7 DEF MacHandlesNoReception, MacHandles
  <2>2. /\ Changes(mac, n, {"radio", "confirm", "queue", "timers", "MacFlags"})
        /\ n.MacFlags \in {mac.MacFlags, mac.MacFlags \cup {"MacDone"}}
    BY <1>1, NoReceptionIs
  <2> HIDE DEF n
  <2>3. Keeps(mac, n)
    BY <2>2 DEF Keeps, Changes, MacFields
  <2> QED BY <2>1, <2>3, KeepsIsEnough
<1>8. CASE MacUpdatesSlot
  <2>1. Changes(mac, UpdateRxSlotIdleState(mac), {"RxSlot"})
    BY <1>1, SlotIs
  <2> QED BY <1>2, <1>8, <2>1 DEF MacUpdatesSlot
<1>9. CASE MacFinishes
  <2>1. PICK repeat \in Outcomes, flush \in Outcomes, class \in AppClasses \cup {mac.DeviceClass} :
          mac' = MacReopensRxC(
                   LoRaMacHandleIndicationEvents(MacDoneIsHandled(mac, repeat), class, flush))
    BY <1>9 DEF MacFinishes
  <2> DEFINE d == MacDoneIsHandled(mac, repeat)
             i == LoRaMacHandleIndicationEvents(d, class, flush)
             n == MacReopensRxC(i)
  <2>2. OwedInv(d)
    BY MacDoneKeepsOwed
  <2> HIDE DEF d
  <2>3. OwedInv(i)
    BY <2>2, IndicationKeepsOwed
  <2> HIDE DEF i
  <2>4. Changes(i, n, {"radio", "RxSlot"})
    BY <2>3, ReopensIs DEF OwedInv
  <2>5. mac' = n
    BY <2>1 DEF i, d
  <2> HIDE DEF n
  <2> QED BY <2>3, <2>4, <2>5, Untouched, KeepsIsEnough
<1>10. CASE AppJoins
  <2>1. PICK outcome \in Outcomes : mac' = LmHandlerJoin(mac, outcome)
    BY <1>10 DEF AppJoins
  <2>2. "McpsReq" \notin mac.MacFlags
    BY <1>10 DEF AppJoins, OwedInv
  <2> QED BY <2>1, <2>2, JoinKeepsOwed
<1>11. CASE AppSends
  <2>1. PICK type \in AppTypes, outcome \in Outcomes :
          \E allowDelayedTx \in {FALSE} \cup {type \in DelayedTypes} :
            mac' = LmHandlerSend(mac, type, allowDelayedTx, outcome)
    BY <1>11 DEF AppSends
  <2>2. PICK allow \in {FALSE} \cup {type \in DelayedTypes} :
          mac' = LmHandlerSend(mac, type, allow, outcome)
    BY <2>1
  <2>3. allow \in BOOLEAN
    OBVIOUS
  <2> QED BY <2>2, <2>3, SendKeepsOwed
<1>12. CASE RadioTxDone
  <2> DEFINE m == [mac EXCEPT !.radio = "idle", !.radioTimers = @ \ {"tx"},
                              !.hist.sent = @ \/ mac.msg = "DATA"]
  <2>1. mac' = [m EXCEPT !.notified = TRUE]
    BY <1>12 DEF RadioTxDone, Interrupt
  <2>2. Changes(mac, m, {"radio", "radioTimers", "hist"}) /\ Notes(mac, m, {"sent"})
    BY <1>1 DEF IsMac, MacFields, HistFields, Changes, Notes
  <2> HIDE DEF m
  <2>3. Keeps(mac, m)
    BY <2>2 DEF Keeps, Changes, Notes, MacFields, HistFields
  <2> QED BY <2>1, <2>3, KeepsIsEnough, NotificationKeepsOwed
<1>13. CASE RadioOnTxTimeoutIrq
  <2> DEFINE m == [mac EXCEPT !.radioTimers = @ \ {"tx"}]
  <2>1. mac' = [m EXCEPT !.notified = TRUE]
    BY <1>13 DEF RadioOnTxTimeoutIrq, Interrupt
  <2>2. Changes(mac, m, {"radioTimers"})
    BY <1>1 DEF IsMac, MacFields, Changes
  <2> HIDE DEF m
  <2> QED BY <1>2, <2>1, <2>2
<1>14. CASE RadioRxDone \/ RadioCrcError \/ RadioRxTimeout
  <2>1. mac' = [Received EXCEPT !.notified = TRUE]
    BY <1>14 DEF RadioRxDone, RadioCrcError, RadioRxTimeout, Interrupt
  <2>2. Changes(mac, Received, {"radio", "radioTimers"})
    BY <1>1 DEF Received, IsMac, MacFields, Changes
  <2> QED BY <1>2, <2>1, <2>2
<1>15. CASE RadioOnRxTimeoutIrq
  <2> DEFINE m == [mac EXCEPT !.radioTimers = @ \ {"rx"}]
  <2>1. mac' = [m EXCEPT !.notified = TRUE]
    BY <1>15 DEF RadioOnRxTimeoutIrq, Interrupt
  <2>2. Changes(mac, m, {"radioTimers"})
    BY <1>1 DEF IsMac, MacFields, Changes
  <2> HIDE DEF m
  <2> QED BY <1>2, <2>1, <2>2
<1>16. CASE TimePasses
  <2>1. Changes(mac, [mac EXCEPT !.late = TRUE], {"late"})
    BY <1>1 DEF IsMac, MacFields, Changes
  <2> QED BY <1>2, <1>16, <2>1 DEF TimePasses, TimerInterrupt
<1>17. CASE OnRxWindow1TimerEvent
  <2>1. Changes(mac, RxWindowSetup(mac, "RX1", "WIN_1"),
                   {"radio", "radioTimers", "RxSlot", "timers"})
    BY <1>1, RxWindowSetupIs
  <2> QED BY <1>2, <1>17, <2>1 DEF OnRxWindow1TimerEvent, TimerInterrupt
<1>18. CASE OnRxWindow2TimerEvent
  <2>1. /\ Changes(mac, RxWindowSetup(mac, "RX2", "WIN_2"),
                   {"radio", "radioTimers", "RxSlot", "timers"})
        /\ Changes(mac, [mac EXCEPT !.timers = @ \ {"RX2"}], {"timers"})
    <3>1. Changes(mac, [mac EXCEPT !.timers = @ \ {"RX2"}], {"timers"})
      BY <1>1 DEF IsMac, MacFields, Changes
    <3> QED BY <1>1, <3>1, RxWindowSetupIs
  <2>2. mac' \in {[mac EXCEPT !.timers = @ \ {"RX2"}], RxWindowSetup(mac, "RX2", "WIN_2")}
    BY <1>18 DEF OnRxWindow2TimerEvent, TimerInterrupt
  <2> QED BY <1>2, <2>1, <2>2
<1>19. CASE AckTimeoutTimer
  <2> DEFINE n == OnAckTimeoutTimerEvent(mac)
  <2>1. mac' = n
    BY <1>19 DEF AckTimeoutTimer, TimerInterrupt
  <2>2. /\ Changes(mac, n, {"timers", "AckTimeoutRetry", "MacFlags", "notified"})
        /\ n.MacFlags = mac.MacFlags \cup (IF mac.DeviceClass = "C" THEN {"MacDone"} ELSE {})
    BY <1>1, AckTimeoutIs
  <2> HIDE DEF n
  <2>3. Keeps(mac, n)
    BY <2>2 DEF Keeps, Changes, MacFields
  <2> QED BY <2>1, <2>3, KeepsIsEnough
<1>20. CASE TxDelayedTimer
  <2>1. PICK outcome \in IsrOutcomes : mac' = OnTxDelayedTimerEvent(mac, outcome)
    BY <1>20 DEF TxDelayedTimer, TimerInterrupt
  <2>2. outcome \in {"OK", "DUTYCYCLE_RESTRICTED"}
    OBVIOUS
  <2> QED BY <1>1, <2>1, <2>2, TxDelayedKeepsOwed, KeepsIsEnough
<1>21. CASE UNCHANGED vars
  BY <1>21 DEF vars
<1> QED BY <1>3, <1>4, <1>5, <1>6, <1>7, <1>8, <1>9, <1>10, <1>11, <1>12, <1>13, <1>14, <1>15,
           <1>16, <1>17, <1>18, <1>19, <1>20, <1>21 DEF Next, Thread, Radio, Timers

(* LoRaMacMcpsRequest() does not take a second uplink before it has        *)
(* confirmed the first, in class A and in class C, with every frame, fault *)
(* and class change of the model and any number of retries, as long as the *)
(* region does not refuse a repetition in the timer interrupt (then the    *)
(* uplink is given up unconfirmed, LoRaMac.c:1688) or ask to wait for no   *)
(* time (then it is neither sent nor waits, :2527).                        *)
THEOREM UplinksInTurn ==
  ASSUME "NO_WAIT_TIME" \notin Outcomes, IsrOutcomes \subseteq {"OK", "DUTYCYCLE_RESTRICTED"}
  PROVE  Spec => []OneUplinkAtATime
<1>1. Init => OwedInv(mac)
  BY DEF Init, OwedInv, IsMac, MacFields, HistFields
<1>2. OwedInv(mac) /\ [Next]_vars => OwedInv(mac)'
  BY OwedStep
<1>3. OwedInv(mac) => OneUplinkAtATime
  BY DEF OwedInv, OneUplinkAtATime
<1> QED BY <1>1, <1>2, <1>3, PTL DEF Spec

-----------------------------------------------------------------------------
(* A device of class A.                                                    *)

(* What the properties of class A need: the device stays in class A, no    *)
(* frame outlives the time-out of its window (radio.c:1774), no other      *)
(* device's frame and no proprietary one is heard with a right CRC         *)
(* (LoRaMac.c:936, :1330), the region does not ask to wait for no time     *)
(* (:2527) and does not refuse a frame in the timer interrupt (:1688).     *)
(* Without any of these but the first a property below is false of the     *)
(* code.                                                                   *)
ClassADevice ==
  /\ DefaultClass = "A" /\ AppClasses \subseteq {"A"}
  /\ "longFrame" \notin Faults /\ Frames \cap {"foreign", "proprietary"} = {}
  /\ "NO_WAIT_TIME" \notin Outcomes
  /\ IsrOutcomes \subseteq {"OK", "DUTYCYCLE_RESTRICTED"}

Windows == {"WIN_1", "WIN_2"}

Fields(m) ==
  /\ IsMac(m) /\ m.DeviceClass = "A"
  /\ m.nbTrans \in Nat /\ m.retries \in Nat \ {0} /\ m.FCntUp \in Nat
  /\ m.hist.uplink \in Nat /\ m.hist.tries \in Nat
  /\ m.joined \in BOOLEAN /\ m.NodeAckRequested \in BOOLEAN /\ m.AckTimeoutRetry \in BOOLEAN
  /\ m.confirm.type \in Types /\ m.confirm.ack \in BOOLEAN
  /\ m.ind.ok \in BOOLEAN
  /\ m.ind.ok => m.joined

(* The radio is at rest, and no time-out of its runs. *)
Rests(m) == m.radio = "idle" /\ m.radioTimers = {}

(* A state is not finished. *)
Unfinished(m) == "MacDone" \notin m.MacFlags /\ "McpsInd" \notin m.MacFlags

Running(m) == m.MacState = {"TX_RUNNING"} /\ Unfinished(m)

(* The end of a confirmed uplink is waited for, or has come. *)
AckAwaited(m) == m.NodeAckRequested => "ACK" \in m.timers \/ m.AckTimeoutRetry

(* The stages of a transmission, in the order in which it runs through     *)
(* them, in MacCtx.                                                        *)
IsFree(m) ==
  /\ Rests(m) /\ Unfinished(m) /\ m.timers = {} /\ m.RxSlot = "NONE"
  /\ m.MacState \in {{}, {"STOPPED"}}

IsDelayed(m) ==
  /\ Rests(m) /\ Unfinished(m) /\ m.timers = {"DELAYED"} /\ m.RxSlot = "NONE"
  /\ "TX_DELAYED" \in m.MacState /\ m.MacState \subseteq {"TX_DELAYED", "TX_RUNNING"}
  /\ ~m.AckTimeoutRetry

IsSending(m) ==
  /\ Running(m) /\ m.radio = "tx" /\ m.timers = {} /\ m.RxSlot = "NONE"
  /\ ~m.AckTimeoutRetry

IsSent(m) ==
  /\ Running(m) /\ Rests(m) /\ m.timers = {} /\ m.RxSlot = "NONE"
  /\ ~m.AckTimeoutRetry

IsPausing(m, place) ==
  /\ Running(m) /\ Rests(m) /\ m.timers \subseteq {"RX1", "RX2", "ACK"} /\ AckAwaited(m)
  /\ IF place = "slot" THEN m.RxSlot = "WIN_1" /\ "RX1" \notin m.timers
     ELSE m.RxSlot = "NONE"

InWindow(m) ==
  /\ Running(m) /\ m.RxSlot \in Windows /\ m.timers \subseteq {"RX2", "ACK"} /\ AckAwaited(m)
  /\ m.RxSlot = "WIN_2" => "RX2" \notin m.timers

IsListening(m) == InWindow(m) /\ m.radio = "rx" /\ m.radioTimers = {"rx"}

HasHeard(m) == InWindow(m) /\ Rests(m)

IsOver(m, place) ==
  /\ Rests(m) /\ "MacDone" \in m.MacFlags /\ m.timers \subseteq {"ACK"} /\ AckAwaited(m)
  /\ "TX_RUNNING" \in m.MacState /\ m.MacState \subseteq {"TX_RUNNING", "RX_ABORT"}
  /\ "RX_ABORT" \in m.MacState /\ m.NodeAckRequested => m.AckTimeoutRetry
  /\ m.RxSlot \in Windows \cup {"NONE"}
  /\ place # "slot" => m.RxSlot = "NONE"

(* A stage, with the events of the radio that go with it: those the thread *)
(* has not taken and those it has taken and not handled.                   *)
Stage(m, new, old, place) ==
  LET events == new \cup old
  IN  \/ IsFree(m) /\ events = {} /\ place # "slot"
      \/ IsDelayed(m) /\ events = {} /\ place # "slot"
      \/ /\ IsSending(m) /\ place # "slot"
         /\ \/ m.radioTimers = {"tx"} /\ events = {}
            \/ m.radioTimers = {} /\ events = {"TxTimeout"}
      \/ IsSent(m) /\ events = {"TxDone"} /\ place # "slot"
      \/ IsPausing(m, place) /\ events = {}
      \/ IsListening(m) /\ events = {} /\ place # "slot"
      \/ /\ HasHeard(m) /\ place # "slot"
         /\ events \in {{"RxDone"}, {"RxDone", "RxError"}, {"RxTimeout"}}
      \/ /\ IsOver(m, place) /\ new = {} /\ old \subseteq {"RxError"}
         /\ place = "slot" => old = {}

(* The events are taken together, and the frame is one that the device     *)
(* waits for, unless its CRC was wrong.                                    *)
EventInv(m, new, old, place, kind) ==
  /\ place = "idle" => old = {}
  /\ new = {} \/ old = {}
  /\ "RxDone" \in new \cup old =>
       IF "RxError" \in new \cup old THEN kind = "foreign"
       ELSE kind \in Frames /\ (kind \in {"accept", "badAccept"} <=> ~m.joined)

(* The confirm queue holds a join request, and nothing else. *)
JoinRequest(q, ok, ready) ==
  /\ DOMAIN q = {1} /\ DOMAIN q[1] = {"request", "ok", "ready"}
  /\ q[1].request = "JOIN" /\ q[1].ok = ok /\ q[1].ready = ready

(* What the upper layer waits for: nothing, the answer to a join request,  *)
(* or the end of an uplink.                                                *)
Nothing(m) ==
  /\ "McpsReq" \notin m.MacFlags /\ "MlmeReq" \notin m.MacFlags
  /\ m.MacState \in {{}, {"STOPPED"}} /\ m.queue = <<>> /\ m.hist.owed = 0
  /\ ~m.NodeAckRequested /\ ~m.AckTimeoutRetry
  /\ m.joined => m.nbTrans = 0 /\ m.MacState = {}

Joining(m, new, old) ==
  /\ "MlmeReq" \in m.MacFlags /\ "McpsReq" \notin m.MacFlags
  /\ "TX_RUNNING" \in m.MacState /\ m.hist.owed = 0 /\ m.msg = "JOIN"
  /\ m.timers \subseteq {"RX1", "RX2"} /\ ~m.NodeAckRequested /\ ~m.AckTimeoutRetry
  /\ ~m.ind.ok
  /\ \E ok, ready \in BOOLEAN :
       /\ JoinRequest(m.queue, ok, ready)
       /\ "MacDone" \in m.MacFlags => ready \/ "RxError" \in old
       /\ m.joined => ok /\ ready /\ "MacDone" \in m.MacFlags /\ new = {} /\ old = {}

Uplink(m) ==
  /\ "McpsReq" \in m.MacFlags /\ "MlmeReq" \notin m.MacFlags
  /\ m.MacState \notin {{}, {"STOPPED"}} /\ m.queue = <<>> /\ m.hist.owed = 1
  /\ m.joined /\ m.msg = "DATA"
  /\ m.NodeAckRequested = (m.confirm.type = "CONFIRMED")
  /\ "ACK" \in m.timers => m.NodeAckRequested /\ ~m.AckTimeoutRetry
  /\ m.AckTimeoutRetry => m.NodeAckRequested /\ m.timers = {}
  /\ IF m.NodeAckRequested
     THEN /\ m.nbTrans = 0 /\ m.maxRetries = NbTrials /\ m.retries <= NbTrials
          /\ m.hist.tries = IF "TX_DELAYED" \in m.MacState THEN m.retries - 1 ELSE m.retries
     ELSE m.retries = 1 /\ m.hist.tries = m.nbTrans
  /\ "TX_DELAYED" \notin m.MacState => m.hist.tries > 0
  /\ IF m.hist.tries > 0 THEN m.hist.onAir.frame = m.hist.uplink
     ELSE m.hist.onAir.frame < m.hist.uplink

Work(m, new, old) == Nothing(m) \/ Joining(m, new, old) \/ Uplink(m)

(* The last transmission took the counter, for a frame that was accepted. *)
CounterInv(m) ==
  \E n \in Nat : m.hist.onAir = [frame |-> n, fCnt |-> m.FCntUp] /\ n <= m.hist.uplink

Spent(m) ==
  m.hist.verdict.type = "CONFIRMED" =>
    m.hist.verdict.ack \/ m.hist.verdict.gaveUp \/ m.hist.verdict.tries = NbTrials

InvOf(m, new, old, place, kind) ==
  /\ Fields(m) /\ Stage(m, new, old, place) /\ EventInv(m, new, old, place, kind)
  /\ Work(m, new, old) /\ CounterInv(m) /\ Spent(m)

ClassAInv == InvOf(mac, radioEvents, taken, pc, frame)

JoinWaits(m) == "MlmeReq" \in m.MacFlags

(* A step that the upper layer and the counter do not notice. *)
StaysPut(m, n) ==
  /\ n.joined = m.joined /\ JoinWaits(n) = JoinWaits(m)
  /\ n.hist.uplink = m.hist.uplink /\ n.hist.owed = m.hist.owed
  /\ n.hist.onAir = m.hist.onAir

(* A frame that goes on the air and is not the one that was there last     *)
(* takes a greater counter.                                                *)
CounterRule(m, n) ==
  n.hist.onAir \notin {m.hist.onAir, NoUplink} =>
    n.hist.onAir.frame # m.hist.onAir.frame /\ n.hist.onAir.fCnt > m.hist.onAir.fCnt

(* The steps the upper layer notices, in the words of LoRaMacService. *)
JoinIsAsked(m, n) ==
  /\ ~JoinWaits(m) /\ JoinWaits(n) /\ m.joined = FALSE /\ n.joined = FALSE
  /\ m.hist.owed = 0 /\ n.hist.owed = 0 /\ n.hist.uplink = m.hist.uplink

NetworkAnswered(m, n) ==
  /\ JoinWaits(m) /\ JoinWaits(n) /\ n.joined = TRUE
  /\ n.hist.owed = m.hist.owed /\ n.hist.uplink = m.hist.uplink

JoinIsOver(m, n) ==
  /\ JoinWaits(m) /\ ~JoinWaits(n) /\ n.joined = m.joined
  /\ n.hist.owed = m.hist.owed /\ n.hist.uplink = m.hist.uplink

UplinkIsTaken(m, n) ==
  /\ ~JoinWaits(m) /\ ~JoinWaits(n) /\ m.joined = TRUE /\ n.joined = TRUE
  /\ m.hist.owed = 0 /\ n.hist.owed = 1 /\ n.hist.uplink = m.hist.uplink + 1

UplinkIsOver(m, n) ==
  /\ JoinWaits(n) = JoinWaits(m) /\ n.joined = m.joined
  /\ m.hist.owed = 1 /\ n.hist.owed = 0 /\ n.hist.uplink = m.hist.uplink

UplinkIsAnswered(m, n) ==
  /\ JoinWaits(n) = JoinWaits(m) /\ m.joined = TRUE /\ n.joined = TRUE
  /\ m.hist.owed = 1 /\ n.hist.owed = 1 /\ n.hist.uplink = m.hist.uplink + 1

GoesUnseen(m, n) ==
  /\ n.joined = m.joined /\ JoinWaits(n) = JoinWaits(m)
  /\ n.hist.uplink = m.hist.uplink /\ n.hist.owed = m.hist.owed

Rule(m, n) ==
  /\ CounterRule(m, n)
  /\ \/ GoesUnseen(m, n) \/ JoinIsAsked(m, n) \/ NetworkAnswered(m, n) \/ JoinIsOver(m, n)
     \/ UplinkIsTaken(m, n) \/ UplinkIsOver(m, n) \/ UplinkIsAnswered(m, n)

(* Such a step keeps the rule. *)
LEMMA PutIsRule ==
  ASSUME NEW m, NEW n, StaysPut(m, n)
  PROVE  Rule(m, n)
BY DEF StaysPut, Rule, CounterRule, GoesUnseen

-----------------------------------------------------------------------------
(* The confirm queue, empty or with the one join request.                  *)

(* LoRaMacConfirmQueueIsCmdActive() and LoRaMacConfirmQueueGetStatus() *)
LEMMA GetStatusIs ==
  ASSUME NEW q, NEW ok \in BOOLEAN, NEW ready \in BOOLEAN, JoinRequest(q, ok, ready)
  PROVE  /\ IsCmdActive(q, "JOIN") /\ Oldest(q, "JOIN") = 1
         /\ GetStatus(q, "JOIN") <=> ok
<1>1. Positions(q, "JOIN") = {1}
  BY DEF Positions, JoinRequest
<1>2. IsCmdActive(q, "JOIN") /\ Oldest(q, "JOIN") = 1
  BY <1>1 DEF IsCmdActive, Oldest
<1> QED BY <1>2 DEF GetStatus, JoinRequest

(* LoRaMacConfirmQueueSetStatus() *)
LEMMA SetStatusIs ==
  ASSUME NEW q, NEW ok \in BOOLEAN, NEW ready \in BOOLEAN, JoinRequest(q, ok, ready), NEW b
  PROVE  JoinRequest(SetStatus(q, "JOIN", b), b, TRUE)
<1>1. IsCmdActive(q, "JOIN") /\ Oldest(q, "JOIN") = 1
  BY GetStatusIs
<1> QED BY <1>1 DEF SetStatus, JoinRequest

(* LoRaMacConfirmQueueSetStatusCmn() *)
LEMMA SetStatusCmnIs ==
  ASSUME NEW q
  PROVE  /\ \A ok, ready \in BOOLEAN :
              JoinRequest(q, ok, ready) => JoinRequest(SetStatusCmn(q, FALSE), FALSE, TRUE)
         /\ q = <<>> => SetStatusCmn(q, FALSE) = <<>>
<1>1. ASSUME NEW ok \in BOOLEAN, NEW ready \in BOOLEAN, JoinRequest(q, ok, ready)
      PROVE  JoinRequest(SetStatusCmn(q, FALSE), FALSE, TRUE)
  BY <1>1 DEF SetStatusCmn, JoinRequest
<1>2. ASSUME q = <<>>
      PROVE  SetStatusCmn(q, FALSE) = <<>>
  <2> DEFINE z == SetStatusCmn(q, FALSE)
  <2>1. DOMAIN z = {} /\ z = [i \in DOMAIN z |-> z[i]]
    BY <1>2 DEF SetStatusCmn
  <2> HIDE DEF z
  <2>2. z = <<>>
    BY <2>1
  <2> QED BY <2>2 DEF z
<1> QED BY <1>1, <1>2

(* LoRaMacConfirmQueueAdd() *)
LEMMA AddIs == JoinRequest(Add(<<>>, "JOIN"), FALSE, FALSE) /\ ~IsFull(<<>>)
<1>1. ~IsFull(<<>>)
  BY QueueLenAssumption DEF IsFull
<1> DEFINE e == [request |-> "JOIN", ok |-> FALSE, ready |-> FALSE]
<1>2. Add(<<>>, "JOIN") = Append(<<>>, e)
  BY <1>1 DEF Add
<1>3. DOMAIN e = {"request", "ok", "ready"} /\ e.request = "JOIN" /\ e.ok = FALSE /\ e.ready = FALSE
  OBVIOUS
<1> HIDE DEF e
<1>4. DOMAIN Append(<<>>, e) = {1} /\ Append(<<>>, e)[1] = e
  OBVIOUS
<1> QED BY <1>1, <1>2, <1>3, <1>4 DEF JoinRequest

(* LoRaMacConfirmQueueHandleCb() delivers a confirm that is ready. *)
LEMMA WaitingIs ==
  ASSUME NEW q, NEW ok \in BOOLEAN, JoinRequest(q, ok, TRUE)
  PROVE  Waiting(q) = <<>>
<1> DEFINE n == Waiting(q)
<1>1. Kept(q) = {}
  BY DEF Kept, JoinRequest
<1>2. Cardinality(Kept(q)) = 0
  BY <1>1, FS_EmptySet
<1>3. DOMAIN n = {} /\ n = [i \in DOMAIN n |-> n[i]]
  BY <1>2 DEF Waiting
<1> HIDE DEF n
<1>4. n = <<>>
  BY <1>3
<1> QED BY <1>4 DEF n

(* A queue with a request is not empty. *)
LEMMA NotEmpty ==
  ASSUME NEW q, NEW ok, NEW ready, JoinRequest(q, ok, ready)
  PROVE  q # <<>>
BY DEF JoinRequest

-----------------------------------------------------------------------------
(* The interrupts and the handlers keep it.                                *)

(* What is noted for the thread, and that RX2's moment has come, is no     *)
(* part of it.                                                             *)
LEMMA Unnoticed ==
  ASSUME NEW m, NEW n, NEW new, NEW old, NEW place, NEW kind,
         InvOf(m, new, old, place, kind), Changes(m, n, {"notified", "late"})
  PROVE  InvOf(n, new, old, place, kind) /\ StaysPut(m, n)
<1>1. IsMac(n) /\ \A f \in MacFields \ {"notified", "late"} : n[f] = m[f]
  BY DEF Changes
<1>2. Fields(n)
  BY <1>1 DEF InvOf, Fields, MacFields
<1>3. Stage(n, new, old, place)
  <2>1. /\ IsFree(m) => IsFree(n)
        /\ IsDelayed(m) => IsDelayed(n)
        /\ IsSending(m) => IsSending(n)
        /\ IsSent(m) => IsSent(n)
        /\ n.radioTimers = m.radioTimers
    BY <1>1 DEF IsFree, IsDelayed, IsSending, IsSent, Running, Rests, Unfinished, MacFields
  <2>2. /\ IsPausing(m, place) => IsPausing(n, place)
        /\ IsListening(m) => IsListening(n)
        /\ HasHeard(m) => HasHeard(n)
        /\ IsOver(m, place) => IsOver(n, place)
    BY <1>1 DEF IsPausing, IsListening, HasHeard, InWindow, IsOver, AckAwaited, Running, Rests,
                Unfinished, MacFields
  <2> QED BY <2>1, <2>2 DEF InvOf, Stage
<1>4. EventInv(n, new, old, place, kind) /\ CounterInv(n) /\ Spent(n)
  BY <1>1 DEF InvOf, EventInv, CounterInv, Spent, MacFields
<1>5. Work(n, new, old)
  BY <1>1 DEF InvOf, Work, Nothing, Joining, Uplink, MacFields
<1>6. StaysPut(m, n)
  BY <1>1 DEF StaysPut, JoinWaits, MacFields
<1> QED BY <1>2, <1>3, <1>4, <1>5, <1>6 DEF InvOf

(* ProcessRadioTxDone(): from the end of the frame to the windows. *)
LEMMA TxDoneStep ==
  ASSUME ClassAInv, MacHandlesTxDone
  PROVE  ClassAInv' /\ StaysPut(mac, mac')
<1> USE DEF ClassAInv, InvOf
<1> DEFINE n == ProcessRadioTxDone(mac)
<1>1. /\ "TxDone" \in taken /\ mac' = n /\ taken' = taken \ {"TxDone"} /\ pc' = "events"
      /\ UNCHANGED <<radioEvents, frame>> /\ pc = "events"
  BY DEF MacHandlesTxDone, MacHandles, ThreadAt, IsNext
<1>2. IsSent(mac) /\ radioEvents = {} /\ taken = {"TxDone"}
  BY <1>1 DEF Stage, EventInv
<1>3. /\ Changes(mac, n, {"radio", "timers", "late", "confirm"})
      /\ n.timers = mac.timers \cup {"RX1", "RX2"} \cup
                             (IF mac.DeviceClass = "C" \/ mac.NodeAckRequested THEN {"ACK"} ELSE {})
      /\ n.confirm.type = mac.confirm.type /\ n.confirm.ack = mac.confirm.ack
      /\ mac.DeviceClass = "A" => n.radio = "idle"
  BY TxDoneIs DEF Fields
<1> HIDE DEF n
<1>4. /\ IsMac(n) /\ n.radio = "idle" /\ n.confirm.type = mac.confirm.type
      /\ n.confirm.ack = mac.confirm.ack
      /\ \A f \in MacFields \ {"radio", "timers", "late", "confirm"} : n[f] = mac[f]
      /\ n.timers = {"RX1", "RX2"} \cup (IF mac.NodeAckRequested THEN {"ACK"} ELSE {})
  BY <1>2, <1>3 DEF Changes, Fields, IsSent
<1>5. Fields(n)
  BY <1>4 DEF Fields, MacFields
<1>6. IsPausing(n, "events")
  BY <1>2, <1>4 DEF IsSent, IsPausing, Running, Unfinished, Rests, AckAwaited, MacFields
<1>7. Work(n, {}, {})
  <2>1. CASE Joining(mac, radioEvents, taken)
    <3>1. mac.NodeAckRequested = FALSE /\ "MacDone" \notin mac.MacFlags
      BY <1>2, <2>1 DEF Joining, IsSent, Running, Unfinished, Fields
    <3>2. n.timers = {"RX1", "RX2"}
      BY <1>4, <3>1
    <3> QED BY <1>4, <2>1, <3>1, <3>2 DEF Work, Joining, MacFields
  <2>2. CASE Uplink(mac)
    <3>1. /\ n.NodeAckRequested = mac.NodeAckRequested
          /\ n.AckTimeoutRetry = FALSE /\ mac.AckTimeoutRetry \in BOOLEAN
          /\ n.MacState = mac.MacState /\ n.hist = mac.hist /\ n.joined = mac.joined
          /\ n.msg = mac.msg /\ n.nbTrans = mac.nbTrans /\ n.maxRetries = mac.maxRetries
          /\ n.retries = mac.retries /\ n.confirm.type = mac.confirm.type
          /\ n.MacFlags = mac.MacFlags /\ n.queue = mac.queue
      BY <1>2, <1>4 DEF MacFields, IsSent, Fields
    <3>2. "ACK" \in n.timers => n.NodeAckRequested
      BY <1>4, <3>1
    <3>3. Uplink(n)
      BY <2>2, <3>1, <3>2 DEF Uplink
    <3> QED BY <3>3 DEF Work
  <2>3. CASE Nothing(mac)
    BY <1>2, <2>3 DEF Nothing, IsSent, Running
  <2> QED BY <2>1, <2>2, <2>3 DEF Work
<1>8. CounterInv(n) /\ Spent(n)
  BY <1>4 DEF CounterInv, Spent, MacFields
<1>20. StaysPut(mac, n)
  BY <1>4 DEF StaysPut, JoinWaits, MacFields
<1> QED BY <1>20, <1>1, <1>2, <1>5, <1>6, <1>7, <1>8 DEF Stage, EventInv

(* PrepareRxDoneAbort(): a frame that is for another state, or another     *)
(* device, ends the reception.                                             *)
LEMMA StrayStep ==
  ASSUME ClassADevice, ClassAInv, MacHandlesRxDone,
         ~(JoinAnswer(mac, frame) \/ DataFrame(mac, frame))
  PROVE  ClassAInv' /\ StaysPut(mac, mac')
<1> USE DEF ClassAInv, InvOf
<1> DEFINE b == RxBegun(mac)
           n == PrepareRxDoneAbort(b)
<1>1. /\ "RxDone" \in taken /\ mac' = n /\ taken' = taken \ {"RxDone"} /\ pc' = "events"
      /\ UNCHANGED <<radioEvents, frame>> /\ pc = "events"
  <2>1. "RxDone" \in taken
    BY DEF MacHandlesRxDone, MacHandles, IsNext
  <2>2. frame # "proprietary"
    BY <2>1 DEF EventInv, ClassADevice
  <2> QED BY <2>1, <2>2, RxDoneIs DEF MacHandlesRxDone, MacHandles, ThreadAt
<1>2. HasHeard(mac) /\ radioEvents = {} /\ taken \in {{"RxDone"}, {"RxDone", "RxError"}}
  BY <1>1 DEF Stage, EventInv
<1>3. /\ Changes(mac, b, {"radio", "confirm", "timers", "ind"})
      /\ b.radio = "idle" /\ b.timers = mac.timers \ {"RX2"}
      /\ b.confirm.type = mac.confirm.type /\ b.confirm.ack = FALSE /\ b.ind.ok = FALSE
  BY RxBegunIs DEF Fields
<1> HIDE DEF b
<1>4. /\ Changes(b, n, {"MacState", "timers", "AckTimeoutRetry", "MacFlags", "notified", "RxSlot"})
      /\ n.MacState = b.MacState \cup {"RX_ABORT"}
      /\ n.MacFlags = b.MacFlags \cup {"McpsInd", "MacDone"}
      /\ n.RxSlot = SlotWhenIdle(b)
      /\ IF b.NodeAckRequested
         THEN n.timers = b.timers \ {"ACK"} /\ n.AckTimeoutRetry = TRUE
         ELSE n.timers = b.timers /\ n.AckTimeoutRetry = b.AckTimeoutRetry
  BY <1>3, RxDoneAbortIs DEF Changes
<1> HIDE DEF n
<1>5. /\ IsMac(n) /\ n.radio = "idle" /\ n.RxSlot = "NONE"
      /\ n.confirm.type = mac.confirm.type /\ n.confirm.ack = FALSE /\ n.ind.ok = FALSE
      /\ n.MacState = mac.MacState \cup {"RX_ABORT"}
      /\ n.MacFlags = mac.MacFlags \cup {"McpsInd", "MacDone"}
      /\ \A f \in MacFields \ {"radio", "confirm", "timers", "ind", "MacState", "AckTimeoutRetry",
                               "MacFlags", "notified", "RxSlot"} : n[f] = mac[f]
      /\ mac.NodeAckRequested => n.timers = {} /\ n.AckTimeoutRetry = TRUE
      /\ ~mac.NodeAckRequested =>
           n.timers = mac.timers \ {"RX2"} /\ n.AckTimeoutRetry = mac.AckTimeoutRetry
  BY <1>2, <1>3, <1>4 DEF Changes, Fields, HasHeard, InWindow, MacFields, SlotWhenIdle
<1>6. Fields(n)
  BY <1>5 DEF Fields, MacFields
<1>7. IsOver(n, "events")
  BY <1>2, <1>5 DEF HasHeard, InWindow, Windows, Running, Unfinished, Rests, IsOver, AckAwaited,
                    Fields, MacFields
<1>8. Work(n, {}, taken')
  <2>1. CASE Joining(mac, radioEvents, taken)
    <3>1. ~mac.joined
      BY <1>2, <2>1 DEF Joining, HasHeard, InWindow, Running, Unfinished
    <3>2. taken' = {"RxError"}
      BY <1>1, <1>2, <3>1 DEF EventInv, JoinAnswer
    <3> QED BY <1>2, <1>5, <2>1, <3>1, <3>2
          DEF Work, Joining, HasHeard, InWindow, Running, MacFields
  <2>2. CASE Uplink(mac)
    BY <1>2, <1>5, <2>2 DEF Work, Uplink, HasHeard, InWindow, Running, Fields, MacFields
  <2>3. CASE Nothing(mac)
    BY <1>2, <2>3 DEF Nothing, HasHeard, InWindow, Running
  <2> QED BY <2>1, <2>2, <2>3 DEF Work
<1>9. CounterInv(n) /\ Spent(n)
  BY <1>5 DEF CounterInv, Spent, MacFields
<1>20. StaysPut(mac, n)
  BY <1>5 DEF StaysPut, JoinWaits, MacFields
<1> QED BY <1>20, <1>1, <1>2, <1>6, <1>7, <1>8, <1>9 DEF Stage, EventInv

(* ProcessRadioRxDone() of an answer to the join request. *)
LEMMA AnswerStep ==
  ASSUME ClassAInv, MacHandlesRxDone, JoinAnswer(mac, frame)
  PROVE  ClassAInv' /\ Rule(mac, mac')
<1> USE DEF ClassAInv, InvOf
<1> DEFINE b == RxBegun(mac)
           a == Answered(b, frame)
           n == RxEnded(a)
<1>1. /\ "RxDone" \in taken /\ mac' = n /\ taken' = taken \ {"RxDone"} /\ pc' = "events"
      /\ UNCHANGED <<radioEvents, frame>> /\ pc = "events"
  BY RxDoneIs DEF MacHandlesRxDone, MacHandles, ThreadAt, IsNext
<1>2. /\ HasHeard(mac) /\ radioEvents = {} /\ taken = {"RxDone"}
      /\ frame \in {"accept", "badAccept"} /\ mac.joined = FALSE
  BY <1>1 DEF Stage, EventInv, JoinAnswer, Fields
<1>3. Joining(mac, radioEvents, taken)
  BY <1>2 DEF Work, Nothing, Uplink, HasHeard, InWindow, Running
<1>4. /\ Changes(mac, b, {"radio", "confirm", "timers", "ind"})
      /\ b.radio = "idle" /\ b.timers = mac.timers \ {"RX2"}
      /\ b.confirm.type = mac.confirm.type /\ b.confirm.ack = FALSE /\ b.ind.ok = FALSE
  BY RxBegunIs DEF Fields
<1> HIDE DEF b
<1>5. \/ /\ frame = "accept"
         /\ Changes(b, a, {"joined", "FCntUp", "hist", "queue"})
         /\ Notes(b, a, {"onAir"}) /\ a.hist.onAir = NoUplink
         /\ a.joined = TRUE /\ a.FCntUp = 0 /\ a.queue = SetStatus(b.queue, "JOIN", TRUE)
      \/ /\ frame = "badAccept"
         /\ Changes(b, a, {"queue"}) /\ a.queue = SetStatus(b.queue, "JOIN", FALSE)
  <2>1. IsMac(b)
    BY <1>4 DEF Changes
  <2>2. CASE frame = "accept"
    BY <2>1, <2>2, AcceptAnswered
  <2>3. CASE frame = "badAccept"
    BY <2>1, <2>3, BadAcceptAnswered
  <2> QED BY <1>2, <2>2, <2>3
<1> HIDE DEF a
<1>6. /\ IsMac(a) /\ a.radio = "idle" /\ a.timers = mac.timers \ {"RX2"}
      /\ a.confirm.type = mac.confirm.type /\ a.confirm.ack = FALSE /\ a.ind.ok = FALSE
      /\ \A f \in MacFields \ {"radio", "confirm", "timers", "ind", "joined", "FCntUp", "hist",
                               "queue"} : a[f] = mac[f]
      /\ Notes(mac, a, {"onAir"})
      /\ \/ /\ a.joined = TRUE /\ a.FCntUp = 0 /\ a.hist.onAir = NoUplink
            /\ a.queue = SetStatus(mac.queue, "JOIN", TRUE)
         \/ /\ a.joined = FALSE /\ a.FCntUp = mac.FCntUp /\ a.hist = mac.hist
            /\ a.queue = SetStatus(mac.queue, "JOIN", FALSE)
  BY <1>2, <1>4, <1>5 DEF Changes, Notes, MacFields
<1>7. /\ Changes(a, n, {"timers", "AckTimeoutRetry", "MacFlags", "notified", "RxSlot"})
      /\ n.MacFlags = a.MacFlags \cup {"MacDone"} /\ n.RxSlot = SlotWhenIdle(a)
      /\ ~AckOver(a) => n.timers = a.timers /\ n.AckTimeoutRetry = a.AckTimeoutRetry
  BY <1>6, RxEndedIs
<1> HIDE DEF n
<1>8. ~AckOver(a) /\ a.DeviceClass = "A"
  BY <1>3, <1>6 DEF AckOver, Joining, Fields, MacFields
<1>9. /\ IsMac(n) /\ n.radio = "idle" /\ n.RxSlot = "NONE" /\ n.timers = mac.timers \ {"RX2"}
      /\ n.confirm.type = mac.confirm.type /\ n.confirm.ack = FALSE /\ n.ind.ok = FALSE
      /\ n.MacFlags = mac.MacFlags \cup {"MacDone"}
      /\ \A f \in MacFields \ {"radio", "confirm", "timers", "ind", "joined", "FCntUp", "hist",
                               "queue", "MacFlags", "notified", "RxSlot"} : n[f] = mac[f]
      /\ n.hist = a.hist /\ n.joined = a.joined /\ n.FCntUp = a.FCntUp /\ n.queue = a.queue
  BY <1>6, <1>7, <1>8 DEF Changes, MacFields, SlotWhenIdle
<1>10. PICK ok \in BOOLEAN, ready \in BOOLEAN : JoinRequest(mac.queue, ok, ready)
  BY <1>3 DEF Joining
<1>11. \/ n.joined = TRUE /\ JoinRequest(n.queue, TRUE, TRUE)
       \/ n.joined = FALSE /\ JoinRequest(n.queue, FALSE, TRUE)
  <2>1. /\ JoinRequest(SetStatus(mac.queue, "JOIN", TRUE), TRUE, TRUE)
        /\ JoinRequest(SetStatus(mac.queue, "JOIN", FALSE), FALSE, TRUE)
    BY <1>10, SetStatusIs
  <2> QED BY <1>6, <1>9, <2>1
<1>12. /\ n.hist.uplink = mac.hist.uplink /\ n.hist.tries = mac.hist.tries
       /\ n.hist.owed = mac.hist.owed /\ n.hist.verdict = mac.hist.verdict
       /\ \/ n.hist.onAir = [frame |-> 0, fCnt |-> 0] /\ n.FCntUp = 0
          \/ n.hist.onAir = mac.hist.onAir /\ n.FCntUp = mac.FCntUp
  BY <1>6, <1>9 DEF Notes, HistFields, NoUplink
<1>13. Fields(n)
  <2>1. /\ n.DeviceClass = "A" /\ n.nbTrans = mac.nbTrans /\ n.retries = mac.retries
        /\ n.NodeAckRequested = mac.NodeAckRequested /\ n.AckTimeoutRetry = mac.AckTimeoutRetry
    BY <1>9 DEF Fields, MacFields
  <2>2. n.joined \in BOOLEAN /\ n.FCntUp \in Nat
    <3>1. n.joined \in BOOLEAN
      BY <1>11
    <3>2. n.FCntUp \in Nat
      <4>1. mac.FCntUp \in Nat
        BY DEF Fields
      <4> QED BY <1>12, <4>1
    <3> QED BY <3>1, <3>2
  <2> QED BY <1>9, <1>12, <2>1, <2>2 DEF Fields
<1>14. IsOver(n, "events")
  BY <1>2, <1>3, <1>9 DEF HasHeard, InWindow, Windows, Running, Unfinished, Rests, IsOver,
                    AckAwaited, Joining, Fields, MacFields
<1>15. Joining(n, {}, {})
  <2>1. /\ n.msg = "JOIN" /\ n.NodeAckRequested = mac.NodeAckRequested
        /\ n.AckTimeoutRetry = mac.AckTimeoutRetry /\ n.MacState = mac.MacState
    BY <1>3, <1>9 DEF Joining, MacFields
  <2>2. \E ok1, ready1 \in BOOLEAN :
          /\ JoinRequest(n.queue, ok1, ready1)
          /\ "MacDone" \in n.MacFlags => ready1 \/ "RxError" \in {}
          /\ n.joined => ok1 /\ ready1 /\ "MacDone" \in n.MacFlags
    BY <1>9, <1>11
  <2> QED BY <1>3, <1>9, <1>12, <2>1, <2>2 DEF Joining
<1>16. CounterInv(n) /\ Spent(n)
  BY <1>12 DEF CounterInv, Spent, Fields
<1>17. Rule(mac, n)
  <2>1. JoinWaits(mac) /\ JoinWaits(n)
    BY <1>3, <1>9 DEF JoinWaits, Joining
  <2>2. CounterRule(mac, n)
    BY <1>12 DEF CounterRule, NoUplink
  <2>3. GoesUnseen(mac, n) \/ NetworkAnswered(mac, n)
    BY <1>2, <1>11, <1>12, <2>1 DEF GoesUnseen, NetworkAnswered
  <2> QED BY <2>2, <2>3 DEF Rule
<1> QED BY <1>1, <1>2, <1>13, <1>14, <1>15, <1>16, <1>17 DEF Stage, EventInv, Work

(* ProcessRadioRxDone() of a frame for the device. *)
LEMMA DataStep ==
  ASSUME ClassAInv, MacHandlesRxDone, DataFrame(mac, frame)
  PROVE  ClassAInv' /\ StaysPut(mac, mac')
<1> USE DEF ClassAInv, InvOf
<1> DEFINE b == RxBegun(mac)
           a == Answered(b, frame)
           n == RxEnded(a)
<1>1. /\ "RxDone" \in taken /\ mac' = n /\ taken' = taken \ {"RxDone"} /\ pc' = "events"
      /\ UNCHANGED <<radioEvents, frame>> /\ pc = "events"
  BY RxDoneIs DEF MacHandlesRxDone, MacHandles, ThreadAt, IsNext
<1>2. /\ HasHeard(mac) /\ radioEvents = {} /\ taken = {"RxDone"}
      /\ frame \notin {"accept", "badAccept", "proprietary"} /\ mac.joined = TRUE
  BY <1>1 DEF Stage, EventInv, DataFrame, Fields
<1>3. Uplink(mac)
  BY <1>2 DEF Work, Nothing, Joining, HasHeard, InWindow, Running, Unfinished
<1>4. /\ Changes(mac, b, {"radio", "confirm", "timers", "ind"})
      /\ b.radio = "idle" /\ b.timers = mac.timers \ {"RX2"}
      /\ b.confirm.type = mac.confirm.type
  BY RxBegunIs DEF Fields
<1> HIDE DEF b
<1>5. /\ Changes(b, a, {"confirm", "ind", "MacFlags"})
      /\ a.confirm.type = b.confirm.type /\ a.confirm.ack = (frame = "ack")
      /\ a.ind.ok = TRUE /\ a.MacFlags = b.MacFlags \cup {"McpsInd"}
  <2>1. IsMac(b)
    BY <1>4 DEF Changes
  <2> QED BY <1>2, <2>1, DataAnswered
<1> HIDE DEF a
<1>6. /\ IsMac(a) /\ a.radio = "idle" /\ a.timers = mac.timers \ {"RX2"}
      /\ a.confirm.type = mac.confirm.type /\ a.confirm.ack \in BOOLEAN /\ a.ind.ok = TRUE
      /\ a.MacFlags = mac.MacFlags \cup {"McpsInd"}
      /\ \A f \in MacFields \ {"radio", "confirm", "timers", "ind", "MacFlags"} : a[f] = mac[f]
  BY <1>4, <1>5 DEF Changes, MacFields
<1>7. /\ Changes(a, n, {"timers", "AckTimeoutRetry", "MacFlags", "notified", "RxSlot"})
      /\ n.MacFlags = a.MacFlags \cup {"MacDone"} /\ n.RxSlot = SlotWhenIdle(a)
      /\ AckOver(a) => /\ n.timers = a.timers \ {"ACK"}
                       /\ n.AckTimeoutRetry = (a.AckTimeoutRetry \/ a.NodeAckRequested)
      /\ ~AckOver(a) => n.timers = a.timers /\ n.AckTimeoutRetry = a.AckTimeoutRetry
  BY <1>6, RxEndedIs
<1> HIDE DEF n
<1>8. AckOver(a) => a.NodeAckRequested = TRUE
  BY <1>6 DEF AckOver, Fields, MacFields
<1>9. /\ IsMac(n) /\ n.radio = "idle" /\ n.RxSlot = "NONE"
      /\ n.confirm = a.confirm /\ n.ind.ok = TRUE
      /\ n.MacFlags = mac.MacFlags \cup {"MacDone", "McpsInd"}
      /\ \A f \in MacFields \ {"radio", "confirm", "timers", "ind", "AckTimeoutRetry", "MacFlags",
                               "notified", "RxSlot"} : n[f] = mac[f]
  BY <1>6, <1>7 DEF Changes, MacFields, Fields, SlotWhenIdle
<1>10. \/ mac.NodeAckRequested = TRUE /\ n.timers = {} /\ n.AckTimeoutRetry = TRUE
       \/ n.timers = mac.timers \ {"RX2"} /\ n.AckTimeoutRetry = mac.AckTimeoutRetry
  BY <1>2, <1>6, <1>7, <1>8 DEF HasHeard, InWindow, MacFields
<1>11. Fields(n)
  <2>1. n.AckTimeoutRetry \in BOOLEAN /\ n.confirm.ack \in BOOLEAN /\ n.confirm.type \in Types
    BY <1>6, <1>9, <1>10 DEF Fields
  <2> QED BY <1>2, <1>9, <2>1 DEF Fields, MacFields
<1>12. IsOver(n, "events")
  BY <1>2, <1>9, <1>10 DEF HasHeard, InWindow, Windows, Running, Unfinished, Rests, IsOver,
                           AckAwaited, Fields, MacFields
<1>13. Uplink(n)
  <2> USE DEF Uplink
  <2>3. /\ n.NodeAckRequested = mac.NodeAckRequested /\ n.queue = mac.queue
        /\ n.MacState = mac.MacState /\ n.hist = mac.hist /\ n.joined = mac.joined
        /\ n.msg = mac.msg /\ n.nbTrans = mac.nbTrans /\ n.maxRetries = mac.maxRetries
        /\ n.retries = mac.retries /\ n.confirm.type = mac.confirm.type
        /\ n.MacFlags = mac.MacFlags \cup {"MacDone", "McpsInd"}
    BY <1>6, <1>9 DEF MacFields
  <2>1. CASE mac.NodeAckRequested = TRUE /\ n.timers = {} /\ n.AckTimeoutRetry = TRUE
    BY <1>3, <2>1, <2>3
  <2>2. CASE n.timers = mac.timers \ {"RX2"} /\ n.AckTimeoutRetry = mac.AckTimeoutRetry
    BY <1>3, <2>2, <2>3
  <2> QED BY <1>10, <2>1, <2>2
<1>14. CounterInv(n) /\ Spent(n)
  BY <1>9 DEF CounterInv, Spent, MacFields
<1>20. StaysPut(mac, n)
  BY <1>9 DEF StaysPut, JoinWaits, MacFields
<1> QED BY <1>20, <1>1, <1>2, <1>11, <1>12, <1>13, <1>14 DEF Stage, EventInv, Work

(* ProcessRadioTxTimeout(): the radio has not ended a transmission. *)
LEMMA TxTimeoutStep ==
  ASSUME ClassAInv, MacHandlesTxTimeout
  PROVE  ClassAInv' /\ StaysPut(mac, mac')
<1> USE DEF ClassAInv, InvOf
<1> DEFINE n == ProcessRadioTxTimeout(mac)
<1>1. /\ "TxTimeout" \in taken /\ mac' = n /\ taken' = taken \ {"TxTimeout"} /\ pc' = "events"
      /\ UNCHANGED <<radioEvents, frame>> /\ pc = "events"
  BY DEF MacHandlesTxTimeout, MacHandles, ThreadAt, IsNext
<1>2. IsSending(mac) /\ mac.radioTimers = {} /\ radioEvents = {} /\ taken = {"TxTimeout"}
  BY <1>1 DEF Stage, EventInv
<1>3. /\ Changes(mac, n, {"radio", "RxSlot", "confirm", "queue", "AckTimeoutRetry", "MacFlags"})
      /\ n.RxSlot = SlotWhenIdle(mac) /\ n.MacFlags = mac.MacFlags \cup {"MacDone"}
      /\ n.confirm.type = mac.confirm.type /\ n.confirm.ack = mac.confirm.ack
      /\ n.queue = SetStatusCmn(mac.queue, FALSE)
      /\ n.AckTimeoutRetry = (mac.AckTimeoutRetry \/ mac.NodeAckRequested)
      /\ mac.DeviceClass = "A" => n.radio = "idle"
  BY TxTimeoutIs DEF Fields
<1> HIDE DEF n
<1>4. /\ IsMac(n) /\ n.radio = "idle" /\ n.RxSlot = "NONE"
      /\ n.MacFlags = mac.MacFlags \cup {"MacDone"}
      /\ n.confirm.type = mac.confirm.type /\ n.confirm.ack = mac.confirm.ack
      /\ n.queue = SetStatusCmn(mac.queue, FALSE)
      /\ \A f \in MacFields \ {"radio", "RxSlot", "confirm", "queue", "AckTimeoutRetry",
                               "MacFlags"} : n[f] = mac[f]
  BY <1>3 DEF Changes, Fields, SlotWhenIdle
<1>5. \/ mac.NodeAckRequested = TRUE /\ n.AckTimeoutRetry = TRUE
      \/ mac.NodeAckRequested = FALSE /\ n.AckTimeoutRetry = FALSE
  <2>1. mac.AckTimeoutRetry = FALSE /\ mac.NodeAckRequested \in BOOLEAN
    BY <1>2 DEF IsSending, Fields
  <2> QED BY <1>3, <2>1
<1>6. Fields(n)
  <2>1. n.AckTimeoutRetry \in BOOLEAN
    BY <1>5
  <2> QED BY <1>4, <2>1 DEF Fields, MacFields
<1>7. IsOver(n, "events")
  BY <1>2, <1>4, <1>5 DEF IsSending, IsOver, Running, Unfinished, Rests, AckAwaited, MacFields
<1>8. Work(n, {}, {})
  <2>1. CASE Joining(mac, radioEvents, taken)
    <3>1. mac.joined = FALSE /\ mac.NodeAckRequested = FALSE
      BY <1>2, <2>1 DEF Joining, IsSending, Running, Unfinished, Fields
    <3>2. JoinRequest(n.queue, FALSE, TRUE)
      <4>1. PICK ok \in BOOLEAN, ready \in BOOLEAN : JoinRequest(mac.queue, ok, ready)
        BY <2>1 DEF Joining
      <4>2. JoinRequest(SetStatusCmn(mac.queue, FALSE), FALSE, TRUE)
        BY <4>1, SetStatusCmnIs
      <4> QED BY <1>4, <4>2
    <3> QED BY <1>2, <1>4, <1>5, <2>1, <3>1, <3>2 DEF Work, Joining, IsSending, MacFields
  <2>2. CASE Uplink(mac)
    <3>1. n.queue = <<>>
      <4>1. mac.queue = <<>>
        BY <2>2 DEF Uplink
      <4>2. SetStatusCmn(mac.queue, FALSE) = <<>>
        BY <4>1, SetStatusCmnIs
      <4> QED BY <1>4, <4>2
    <3>2. /\ n.NodeAckRequested = mac.NodeAckRequested /\ n.timers = mac.timers
          /\ n.MacState = mac.MacState /\ n.hist = mac.hist /\ n.joined = mac.joined
          /\ n.msg = mac.msg /\ n.nbTrans = mac.nbTrans /\ n.maxRetries = mac.maxRetries
          /\ n.retries = mac.retries /\ n.confirm.type = mac.confirm.type
          /\ n.MacFlags = mac.MacFlags \cup {"MacDone"} /\ mac.timers = {}
      BY <1>2, <1>4 DEF MacFields, IsSending
    <3>3. Uplink(n)
      BY <1>5, <2>2, <3>1, <3>2 DEF Uplink
    <3> QED BY <3>3 DEF Work
  <2>3. CASE Nothing(mac)
    BY <1>2, <2>3 DEF Nothing, IsSending, Running
  <2> QED BY <2>1, <2>2, <2>3 DEF Work
<1>9. CounterInv(n) /\ Spent(n)
  BY <1>4 DEF CounterInv, Spent, MacFields
<1>20. StaysPut(mac, n)
  BY <1>4 DEF StaysPut, JoinWaits, MacFields
<1> QED BY <1>20, <1>1, <1>2, <1>6, <1>7, <1>8, <1>9 DEF Stage, EventInv

(* LoRaMacHandleIrqEvents tests RxDone before RxError. *)
LEMMA RxDoneFirst == Rank("RxDone") = 2 /\ Rank("RxError") = 4
BY DEF Rank, EventOrder

(* HandleRadioRxErrorTimeout(): nothing was received, or with a wrong CRC. *)
LEMMA NoReceptionStep ==
  ASSUME ClassAInv, MacHandlesNoReception
  PROVE  ClassAInv' /\ StaysPut(mac, mac')
<1> USE DEF ClassAInv, InvOf
<1> DEFINE n == HandleRadioRxErrorTimeout(mac)
<1>1. PICK event \in {"RxError", "RxTimeout"} :
        /\ event \in taken /\ \A other \in taken : Rank(event) <= Rank(other)
        /\ mac' = n /\ taken' = taken \ {event} /\ pc' = "slot"
        /\ UNCHANGED <<radioEvents, frame>> /\ pc = "events"
  BY DEF MacHandlesNoReception, MacHandles, ThreadAt, IsNext
<1>2. /\ radioEvents = {} /\ taken = {event}
      /\ \/ HasHeard(mac) /\ event = "RxTimeout"
         \/ IsOver(mac, "events") /\ event = "RxError"
  <2>1. radioEvents = {} /\ event \in taken
    BY <1>1 DEF EventInv
  <2>2. \/ HasHeard(mac) /\ taken \in {{"RxDone"}, {"RxDone", "RxError"}, {"RxTimeout"}}
        \/ IsOver(mac, "events") /\ taken \subseteq {"RxError"}
    BY <1>1, <2>1 DEF Stage
  <2>3. ~(taken = {"RxDone", "RxError"})
    <3>1. SUFFICES ASSUME taken = {"RxDone", "RxError"}
                   PROVE  FALSE
      OBVIOUS
    <3>2. event = "RxError" /\ "RxDone" \in taken /\ "RxError" \in taken
      BY <2>1, <3>1
    <3>3. \A other \in taken : Rank("RxError") <= Rank(other)
      BY <1>1, <3>2
    <3>4. Rank("RxError") <= Rank("RxDone")
      BY <3>2, <3>3
    <3> QED BY <3>4, RxDoneFirst
  <2> QED BY <2>1, <2>2, <2>3
<1>3. /\ Changes(mac, n, {"radio", "confirm", "queue", "timers", "MacFlags"})
      /\ n.confirm.type = mac.confirm.type /\ n.confirm.ack = mac.confirm.ack
      /\ n.queue = SetStatusCmn(mac.queue, FALSE)
      /\ n.radio = "idle"
      /\ \/ /\ mac.RxSlot = "WIN_1" /\ mac.late
            /\ n.timers = mac.timers \ {"RX2"} /\ n.MacFlags = mac.MacFlags \cup {"MacDone"}
         \/ /\ mac.RxSlot = "WIN_1"
            /\ n.timers = mac.timers /\ n.MacFlags = mac.MacFlags
         \/ /\ mac.RxSlot # "WIN_1"
            /\ n.timers = mac.timers /\ n.MacFlags = mac.MacFlags \cup {"MacDone"}
  <2>1. mac.DeviceClass = "A" /\ IsMac(mac)
    BY DEF Fields
  <2> QED BY <2>1, NoReceptionIs
<1> HIDE DEF n
<1>4. /\ IsMac(n) /\ n.radio = "idle"
      /\ n.confirm.type = mac.confirm.type /\ n.confirm.ack = mac.confirm.ack
      /\ n.queue = SetStatusCmn(mac.queue, FALSE)
      /\ \A f \in MacFields \ {"radio", "confirm", "queue", "timers", "MacFlags"} : n[f] = mac[f]
  BY <1>3 DEF Changes
<1>5. Fields(n)
  BY <1>4 DEF Fields, MacFields
<1>6. \/ IsOver(n, "slot")
      \/ IsPausing(n, "slot")
  <2>1. CASE HasHeard(mac)
    BY <1>3, <1>4, <2>1 DEF HasHeard, InWindow, Windows, IsOver, IsPausing, Running, Unfinished,
                            Rests, AckAwaited, MacFields
  <2>2. CASE IsOver(mac, "events")
    BY <1>3, <1>4, <2>2 DEF IsOver, Rests, AckAwaited, MacFields
  <2> QED BY <1>2, <2>1, <2>2
<1>7. /\ mac.MacState = n.MacState /\ n.timers \subseteq mac.timers
      /\ {"McpsReq", "MlmeReq"} \cap n.MacFlags = {"McpsReq", "MlmeReq"} \cap mac.MacFlags
      /\ mac.MacState \notin {{}, {"STOPPED"}}
      /\ "ACK" \in n.timers => "ACK" \in mac.timers
  BY <1>2, <1>3, <1>4 DEF HasHeard, InWindow, Running, IsOver, MacFields
<1>8. Work(n, {}, {})
  <2>1. CASE Joining(mac, radioEvents, taken)
    <3>1. mac.joined = FALSE
      BY <1>2, <2>1 DEF Joining, Fields
    <3>2. JoinRequest(n.queue, FALSE, TRUE)
      <4>1. PICK ok \in BOOLEAN, ready \in BOOLEAN : JoinRequest(mac.queue, ok, ready)
        BY <2>1 DEF Joining
      <4>2. JoinRequest(SetStatusCmn(mac.queue, FALSE), FALSE, TRUE)
        BY <4>1, SetStatusCmnIs
      <4> QED BY <1>4, <4>2
    <3>3. "MlmeReq" \in n.MacFlags /\ "McpsReq" \notin n.MacFlags
      BY <1>7, <2>1 DEF Joining
    <3> QED BY <1>4, <1>7, <2>1, <3>1, <3>2, <3>3 DEF Work, Joining, MacFields
  <2>2. CASE Uplink(mac)
    <3>1. n.queue = <<>>
      <4>1. mac.queue = <<>>
        BY <2>2 DEF Uplink
      <4>2. SetStatusCmn(mac.queue, FALSE) = <<>>
        BY <4>1, SetStatusCmnIs
      <4> QED BY <1>4, <4>2
    <3>2. "McpsReq" \in n.MacFlags /\ "MlmeReq" \notin n.MacFlags
      BY <1>7, <2>2 DEF Uplink
    <3>3. /\ n.NodeAckRequested = mac.NodeAckRequested
          /\ n.AckTimeoutRetry = mac.AckTimeoutRetry
          /\ n.MacState = mac.MacState /\ n.hist = mac.hist /\ n.joined = mac.joined
          /\ n.msg = mac.msg /\ n.nbTrans = mac.nbTrans /\ n.maxRetries = mac.maxRetries
          /\ n.retries = mac.retries /\ n.confirm.type = mac.confirm.type
      BY <1>4 DEF MacFields
    <3>4. Uplink(n)
      BY <1>7, <2>2, <3>1, <3>2, <3>3 DEF Uplink
    <3> QED BY <3>4 DEF Work
  <2>3. CASE Nothing(mac)
    BY <1>7, <2>3 DEF Nothing
  <2> QED BY <2>1, <2>2, <2>3 DEF Work
<1>9. CounterInv(n) /\ Spent(n)
  BY <1>4 DEF CounterInv, Spent, MacFields
<1>10. taken' = {} /\ radioEvents' = {}
  BY <1>1, <1>2
<1>20. StaysPut(mac, n)
  BY <1>4, <1>7 DEF StaysPut, JoinWaits, MacFields
<1> QED BY <1>20, <1>1, <1>5, <1>6, <1>8, <1>9, <1>10 DEF Stage, EventInv

(* UpdateRxSlotIdleState() after it. *)
LEMMA SlotStep ==
  ASSUME ClassAInv, MacUpdatesSlot
  PROVE  ClassAInv' /\ StaysPut(mac, mac')
<1> USE DEF ClassAInv, InvOf
<1> DEFINE n == UpdateRxSlotIdleState(mac)
<1>1. /\ pc = "slot" /\ pc' = "events" /\ mac' = n /\ UNCHANGED <<radioEvents, frame, taken>>
  BY DEF MacUpdatesSlot, ThreadAt
<1>2. /\ radioEvents = {} /\ taken = {}
      /\ IsPausing(mac, "slot") \/ IsOver(mac, "slot")
  BY <1>1 DEF Stage
<1>3. Changes(mac, n, {"RxSlot"}) /\ n.RxSlot = "NONE"
  BY SlotIs DEF Fields
<1> HIDE DEF n
<1>4. IsMac(n) /\ \A f \in MacFields \ {"RxSlot"} : n[f] = mac[f]
  BY <1>3 DEF Changes
<1>5. Fields(n) /\ CounterInv(n) /\ Spent(n)
  BY <1>4 DEF Fields, CounterInv, Spent, MacFields
<1>6. IsPausing(n, "events") \/ IsOver(n, "events")
  BY <1>2, <1>3, <1>4 DEF IsPausing, IsOver, Running, Unfinished, Rests, AckAwaited, MacFields
<1>7. Work(n, {}, {})
  BY <1>2, <1>4 DEF Work, Nothing, Joining, Uplink, MacFields
<1>20. StaysPut(mac, n)
  BY <1>4 DEF StaysPut, JoinWaits, MacFields
<1> QED BY <1>20, <1>1, <1>2, <1>5, <1>6, <1>7 DEF Stage, EventInv

(* LoRaMacProcess() takes the bits. *)
LEMMA TakeStep ==
  ASSUME ClassAInv, MacTakesEvents
  PROVE  ClassAInv' /\ StaysPut(mac, mac')
<1> USE DEF ClassAInv
<1> DEFINE n == [mac EXCEPT !.notified = FALSE]
<1>1. /\ pc = "idle" /\ pc' = "events" /\ taken' = radioEvents /\ radioEvents' = {}
      /\ mac' = n /\ frame' = frame
  BY DEF MacTakesEvents, ThreadAt
<1>2. Changes(mac, n, {"notified", "late"})
  BY NotifiedIs DEF InvOf, Fields, Changes
<1> HIDE DEF n
<1>3. InvOf(mac, {}, radioEvents, "events", frame)
  <2>1. taken = {}
    BY <1>1 DEF InvOf, EventInv
  <2>2. Stage(mac, {}, radioEvents, "events")
    BY <1>1, <2>1 DEF InvOf, Stage, IsPausing, IsOver
  <2>3. Work(mac, {}, radioEvents)
    BY <2>1 DEF InvOf, Work, Joining
  <2> QED BY <1>1, <2>1, <2>2, <2>3 DEF InvOf, EventInv
<1>4. InvOf(n, {}, radioEvents, "events", frame) /\ StaysPut(mac, n)
  BY <1>2, <1>3, Unnoticed
<1> QED BY <1>1, <1>4

-----------------------------------------------------------------------------
(* The interrupts.                                                         *)

(* What the interrupts of the radio and of the window timers change is no  *)
(* part of what the upper layer waits for.                                 *)
LEMMA RadioMoves ==
  ASSUME NEW m, NEW n, NEW new, NEW old, NEW place, NEW kind, NEW events,
         InvOf(m, new, old, place, kind), Running(m),
         Changes(m, n, {"radio", "radioTimers", "RxSlot", "timers", "notified", "late", "hist"}),
         Notes(m, n, {"sent"}), n.timers \subseteq m.timers
  PROVE  /\ Fields(n) /\ Work(n, events, old) /\ CounterInv(n) /\ Spent(n) /\ Running(n)
         /\ StaysPut(m, n) /\ n.NodeAckRequested = m.NodeAckRequested
         /\ n.AckTimeoutRetry = m.AckTimeoutRetry
<1> USE DEF InvOf
<1>1. /\ IsMac(n)
      /\ \A f \in MacFields \ {"radio", "radioTimers", "RxSlot", "timers", "notified", "late",
                               "hist"} : n[f] = m[f]
      /\ n.hist.uplink = m.hist.uplink /\ n.hist.tries = m.hist.tries
      /\ n.hist.owed = m.hist.owed /\ n.hist.verdict = m.hist.verdict
      /\ n.hist.onAir = m.hist.onAir
  BY DEF Changes, Notes, HistFields
<1>2. Fields(n) /\ CounterInv(n) /\ Spent(n)
  BY <1>1 DEF Fields, CounterInv, Spent, MacFields
<1>3. Running(n) /\ StaysPut(m, n)
  BY <1>1 DEF Running, Unfinished, StaysPut, JoinWaits, MacFields
<1>4. /\ n.NodeAckRequested = m.NodeAckRequested /\ n.AckTimeoutRetry = m.AckTimeoutRetry
      /\ n.MacState = m.MacState /\ n.joined = m.joined /\ n.ind = m.ind
      /\ n.msg = m.msg /\ n.nbTrans = m.nbTrans /\ n.maxRetries = m.maxRetries
      /\ n.retries = m.retries /\ n.confirm.type = m.confirm.type
      /\ n.MacFlags = m.MacFlags /\ n.queue = m.queue
  BY <1>1 DEF MacFields
<1>5. CASE Joining(m, new, old)
  <2>1. ~m.joined /\ "MacDone" \notin m.MacFlags
    BY <1>5 DEF Joining, Running, Unfinished
  <2> QED BY <1>1, <1>2, <1>3, <1>4, <1>5, <2>1 DEF Work, Joining
<1>6. CASE Uplink(m)
  <2>1. Uplink(n)
    BY <1>1, <1>4, <1>6 DEF Uplink
  <2> QED BY <1>2, <1>3, <1>4, <2>1 DEF Work
<1>7. CASE Nothing(m)
  BY <1>7 DEF Nothing, Running
<1> QED BY <1>5, <1>6, <1>7 DEF Work

(* The end of a transmission, from the radio. *)
LEMMA RadioTxDoneStep ==
  ASSUME ClassAInv, RadioTxDone
  PROVE  ClassAInv' /\ StaysPut(mac, mac')
<1> USE DEF ClassAInv
<1> DEFINE i == [mac EXCEPT !.radio = "idle", !.radioTimers = @ \ {"tx"},
                            !.hist.sent = @ \/ mac.msg = "DATA"]
           n == [i EXCEPT !.notified = TRUE]
<1>1. /\ mac.radio = "tx" /\ "tx" \in mac.radioTimers /\ mac' = n
      /\ radioEvents' = radioEvents \cup {"TxDone"} /\ UNCHANGED <<pc, taken, frame>>
  BY DEF RadioTxDone, Interrupt
<1>2. /\ IsSending(mac) /\ mac.radioTimers = {"tx"} /\ radioEvents = {} /\ taken = {}
      /\ pc # "slot"
  BY <1>1 DEF InvOf, Stage, Rests, IsFree, IsDelayed, IsSent, IsPausing, IsListening, HasHeard,
              IsOver
<1>3. /\ Changes(mac, i, {"radio", "radioTimers", "hist"}) /\ Notes(mac, i, {"sent"})
      /\ i.radio = "idle" /\ i.radioTimers = mac.radioTimers \ {"tx"}
  BY DEF InvOf, Fields, IsMac, MacFields, HistFields, Changes, Notes
<1> HIDE DEF i
<1>4. /\ Changes(mac, n, {"radio", "radioTimers", "hist", "notified"})
      /\ Notes(mac, n, {"sent"}) /\ n.radio = i.radio /\ n.radioTimers = i.radioTimers
  <2>1. Changes(i, n, {"notified"})
    BY <1>3, NotifiedIs DEF Changes
  <2> HIDE DEF n
  <2> QED BY <1>3, <2>1 DEF Changes, Notes, MacFields
<1> HIDE DEF n
<1>5. /\ Changes(mac, n, {"radio", "radioTimers", "RxSlot", "timers", "notified", "late", "hist"})
      /\ n.timers = mac.timers /\ n.RxSlot = mac.RxSlot
  BY <1>4 DEF Changes, MacFields
<1>6. /\ Fields(n) /\ Work(n, {"TxDone"}, {}) /\ CounterInv(n) /\ Spent(n) /\ Running(n)
      /\ StaysPut(mac, n) /\ n.AckTimeoutRetry = mac.AckTimeoutRetry
  BY <1>2, <1>4, <1>5, RadioMoves DEF IsSending
<1>7. IsSent(n)
  BY <1>2, <1>3, <1>4, <1>5, <1>6 DEF IsSending, IsSent, Rests
<1>8. radioEvents' = {"TxDone"} /\ taken' = {}
  BY <1>1, <1>2
<1> QED BY <1>1, <1>2, <1>6, <1>7, <1>8 DEF InvOf, Stage, EventInv

(* The time-out of a transmission that the radio does not end. *)
LEMMA RadioTxTimeoutStep ==
  ASSUME ClassAInv, RadioOnTxTimeoutIrq
  PROVE  ClassAInv' /\ StaysPut(mac, mac')
<1> USE DEF ClassAInv
<1> DEFINE i == [mac EXCEPT !.radioTimers = @ \ {"tx"}]
           n == [i EXCEPT !.notified = TRUE]
<1>1. /\ "tx" \in mac.radioTimers /\ mac' = n
      /\ radioEvents' = radioEvents \cup {"TxTimeout"} /\ UNCHANGED <<pc, taken, frame>>
  BY DEF RadioOnTxTimeoutIrq, Interrupt
<1>2. /\ IsSending(mac) /\ mac.radioTimers = {"tx"} /\ radioEvents = {} /\ taken = {}
      /\ pc # "slot"
  BY <1>1 DEF InvOf, Stage, Rests, IsFree, IsDelayed, IsSent, IsPausing, IsListening, HasHeard,
              IsOver
<1>3. Changes(mac, i, {"radioTimers"}) /\ i.radioTimers = mac.radioTimers \ {"tx"}
  BY DEF InvOf, Fields, IsMac, MacFields, HistFields, Changes, Notes
<1> HIDE DEF i
<1>4. Changes(mac, n, {"radioTimers", "notified"}) /\ n.radioTimers = i.radioTimers
  <2>1. Changes(i, n, {"notified"})
    BY <1>3, NotifiedIs DEF Changes
  <2> HIDE DEF n
  <2> QED BY <1>3, <2>1 DEF Changes, MacFields
<1> HIDE DEF n
<1>5. /\ Changes(mac, n, {"radio", "radioTimers", "RxSlot", "timers", "notified", "late", "hist"})
      /\ n.timers = mac.timers /\ n.RxSlot = mac.RxSlot /\ n.radio = mac.radio
      /\ Notes(mac, n, {"sent"})
  BY <1>4 DEF Changes, MacFields, Notes
<1>6. /\ Fields(n) /\ Work(n, {"TxTimeout"}, {}) /\ CounterInv(n) /\ Spent(n) /\ Running(n)
      /\ StaysPut(mac, n) /\ n.AckTimeoutRetry = mac.AckTimeoutRetry
  BY <1>2, <1>5, RadioMoves DEF IsSending
<1>7. IsSending(n) /\ n.radioTimers = {}
  BY <1>2, <1>3, <1>4, <1>5, <1>6 DEF IsSending
<1>8. radioEvents' = {"TxTimeout"} /\ taken' = {}
  BY <1>1, <1>2
<1> QED BY <1>1, <1>2, <1>6, <1>7, <1>8 DEF InvOf, Stage, EventInv

(* The end of a window, with a frame or without. *)
LEMMA ReceivedStep ==
  ASSUME ClassAInv, mac.radio \in {"rx", "rxc"}, NEW events,
         Interrupt(Received, events),
         \/ events = {"RxTimeout"}
         \/ /\ events = {"RxDone"}
            /\ frame' \in Frames /\ (frame' \in {"accept", "badAccept"} <=> ~mac.joined)
         \/ events = {"RxDone", "RxError"} /\ frame' = "foreign"
  PROVE  ClassAInv' /\ StaysPut(mac, mac')
<1> USE DEF ClassAInv
<1> DEFINE n == [Received EXCEPT !.notified = TRUE]
<1>1. /\ mac.radio \in {"rx", "rxc"} /\ mac' = n
      /\ radioEvents' = radioEvents \cup events /\ UNCHANGED <<pc, taken>>
  BY DEF Receiving, Interrupt
<1>2. IsListening(mac) /\ radioEvents = {} /\ taken = {} /\ pc # "slot"
  BY <1>1 DEF InvOf, Stage, Rests, IsFree, IsDelayed, IsSending, IsSent, IsPausing, HasHeard,
              IsOver
<1>3. /\ Changes(mac, Received, {"radio", "radioTimers"})
      /\ Received.radio = "idle" /\ Received.radioTimers = {}
  BY <1>2 DEF InvOf, Fields, IsMac, MacFields, Changes, Received, IsListening
<1>4. /\ Changes(mac, n, {"radio", "radioTimers", "notified"})
      /\ n.radio = "idle" /\ n.radioTimers = {}
  <2>1. Changes(Received, n, {"notified"})
    BY <1>3, NotifiedIs DEF Changes
  <2> HIDE DEF n
  <2> QED BY <1>3, <2>1 DEF Changes, MacFields
<1> HIDE DEF n
<1>5. /\ Changes(mac, n, {"radio", "radioTimers", "RxSlot", "timers", "notified", "late", "hist"})
      /\ n.timers = mac.timers /\ n.RxSlot = mac.RxSlot /\ Notes(mac, n, {"sent"})
  BY <1>4 DEF Changes, MacFields, Notes
<1>6. /\ Fields(n) /\ Work(n, events, {}) /\ CounterInv(n) /\ Spent(n) /\ Running(n)
      /\ StaysPut(mac, n) /\ n.AckTimeoutRetry = mac.AckTimeoutRetry
      /\ n.NodeAckRequested = mac.NodeAckRequested
  BY <1>2, <1>5, RadioMoves DEF IsListening, InWindow
<1>7. HasHeard(n)
  BY <1>2, <1>4, <1>5, <1>6 DEF IsListening, HasHeard, InWindow, Rests, AckAwaited
<1>8. radioEvents' = events /\ taken' = {}
  BY <1>1, <1>2
<1>9. Stage(n, events, {}, pc)
  BY <1>2, <1>7 DEF Stage
<1>10. EventInv(n, events, {}, pc, frame')
  BY <1>2, <1>6 DEF EventInv, StaysPut
<1> QED BY <1>1, <1>6, <1>8, <1>9, <1>10 DEF InvOf

(* So do the three interrupts of a reception. *)
LEMMA ReceptionStep ==
  ASSUME ClassADevice, ClassAInv, RadioRxDone \/ RadioCrcError \/ RadioRxTimeout
  PROVE  ClassAInv' /\ StaysPut(mac, mac')
<1>1. CASE RadioRxDone
  <2>1. PICK kind \in Frames : MayArrive(kind) /\ frame' = kind
    BY <1>1 DEF RadioRxDone
  <2>2. /\ kind \in FrameKinds /\ kind \notin {"foreign", "proprietary"}
        /\ mac.joined \in BOOLEAN
    BY LoRaMacAssumption DEF ClassADevice, ClassAInv, InvOf, Fields
  <2>3. kind \in {"accept", "badAccept"} <=> ~mac.joined
    BY <2>1, <2>2 DEF MayArrive, FrameKinds
  <2> QED BY <1>1, <2>1, <2>3, ReceivedStep DEF RadioRxDone, Receiving
<1>2. CASE RadioCrcError
  BY <1>2, ReceivedStep DEF RadioCrcError, Receiving
<1>3. CASE RadioRxTimeout
  BY <1>3, ReceivedStep DEF RadioRxTimeout
<1> QED BY <1>1, <1>2, <1>3

(* The time-out of a window does not come before its end. *)
LEMMA NoLongFrame ==
  ASSUME ClassADevice, ClassAInv
  PROVE  ~RadioOnRxTimeoutIrq
<1> SUFFICES ASSUME "rx" \in mac.radioTimers, mac.radio = "rx" => "longFrame" \in Faults
             PROVE  FALSE
  BY DEF RadioOnRxTimeoutIrq
<1>1. IsListening(mac)
  BY DEF ClassAInv, InvOf, Stage, Rests, IsFree, IsDelayed, IsSending, IsSent, IsPausing,
         HasHeard, IsOver
<1> QED BY <1>1 DEF IsListening, ClassADevice

(* RxWindow2Delay is over. *)
LEMMA TimeStep ==
  ASSUME ClassAInv, TimePasses
  PROVE  ClassAInv' /\ StaysPut(mac, mac')
<1> DEFINE n == [mac EXCEPT !.late = TRUE]
<1>1. mac' = n /\ UNCHANGED <<radioEvents, frame, pc, taken>>
  BY DEF TimePasses, TimerInterrupt
<1>2. Changes(mac, n, {"notified", "late"})
  BY DEF ClassAInv, InvOf, Fields, IsMac, MacFields, Changes
<1> HIDE DEF n
<1> QED BY <1>1, <1>2, Unnoticed DEF ClassAInv

(* A window that opens after the transmission. *)
LEMMA WindowOpens ==
  ASSUME ClassAInv, NEW timer \in {"RX1", "RX2"}, NEW slot \in Windows,
         mac' = RxWindowSetup(mac, timer, slot), UNCHANGED <<radioEvents, frame, pc, taken>>,
         IsPausing(mac, pc), pc # "slot", radioEvents = {}, taken = {},
         mac.timers \ {timer} \subseteq {"RX2", "ACK"}, slot = "WIN_2" => timer = "RX2"
  PROVE  ClassAInv' /\ StaysPut(mac, mac')
<1> USE DEF ClassAInv
<1> DEFINE n == RxWindowSetup(mac, timer, slot)
<1>1. /\ Changes(mac, n, {"radio", "radioTimers", "RxSlot", "timers"})
      /\ n.radio = "rx" /\ n.radioTimers = mac.radioTimers \cup {"rx"}
      /\ n.RxSlot = slot /\ n.timers = mac.timers \ {timer}
  BY RxWindowSetupIs DEF InvOf, Fields
<1>2. mac' = n
  OBVIOUS
<1> HIDE DEF n
<1>3. /\ Changes(mac, n, {"radio", "radioTimers", "RxSlot", "timers", "notified", "late", "hist"})
      /\ Notes(mac, n, {"sent"}) /\ n.timers \subseteq mac.timers
  BY <1>1 DEF Changes, MacFields, Notes
<1>4. /\ Fields(n) /\ Work(n, {}, {}) /\ CounterInv(n) /\ Spent(n) /\ Running(n)
      /\ StaysPut(mac, n) /\ n.AckTimeoutRetry = mac.AckTimeoutRetry
      /\ n.NodeAckRequested = mac.NodeAckRequested
  BY <1>3, RadioMoves DEF IsPausing
<1>5. IsListening(n)
  BY <1>1, <1>4 DEF IsPausing, IsListening, InWindow, Windows, Rests, AckAwaited
<1> QED BY <1>2, <1>4, <1>5 DEF InvOf, Stage, EventInv

(* OnRxWindow1TimerEvent() *)
LEMMA Window1Step ==
  ASSUME ClassAInv, OnRxWindow1TimerEvent
  PROVE  ClassAInv' /\ StaysPut(mac, mac')
<1>1. /\ "RX1" \in mac.timers /\ mac' = RxWindowSetup(mac, "RX1", "WIN_1")
      /\ UNCHANGED <<radioEvents, frame, pc, taken>>
  BY DEF OnRxWindow1TimerEvent, TimerInterrupt
<1>2. /\ IsPausing(mac, pc) /\ pc # "slot" /\ radioEvents = {} /\ taken = {}
      /\ mac.timers \ {"RX1"} \subseteq {"RX2", "ACK"}
  BY <1>1 DEF ClassAInv, InvOf, Stage, IsFree, IsDelayed, IsSending, IsSent, IsPausing,
              IsListening, InWindow, HasHeard, IsOver
<1> QED BY <1>1, <1>2, WindowOpens DEF Windows

(* OnRxWindow2TimerEvent(): the second window opens if the first is not    *)
(* open any more.                                                          *)
LEMMA Window2Step ==
  ASSUME ClassAInv, OnRxWindow2TimerEvent
  PROVE  ClassAInv' /\ StaysPut(mac, mac')
<1> DEFINE n == [mac EXCEPT !.timers = @ \ {"RX2"}]
<1>1. /\ "RX2" \in mac.timers /\ "RX1" \notin mac.timers
      /\ UNCHANGED <<radioEvents, frame, pc, taken>>
      /\ mac' = IF mac.RxSlot = "WIN_1" THEN n ELSE RxWindowSetup(mac, "RX2", "WIN_2")
  BY DEF OnRxWindow2TimerEvent, TimerInterrupt
<1>2. /\ IsPausing(mac, pc) \/ (pc # "slot" /\ (IsListening(mac) \/ HasHeard(mac)))
      /\ IsPausing(mac, pc) => radioEvents = {} /\ taken = {}
      /\ mac.timers \ {"RX2"} \subseteq {"ACK"} /\ Running(mac)
  <2>1. /\ IsPausing(mac, pc) \/ (pc # "slot" /\ (IsListening(mac) \/ HasHeard(mac)))
        /\ IsPausing(mac, pc) => radioEvents = {} /\ taken = {}
    BY <1>1 DEF ClassAInv, InvOf, Stage, IsFree, IsDelayed, IsSending, IsSent, IsPausing,
                IsListening, InWindow, HasHeard, IsOver, Windows
  <2> QED BY <1>1, <2>1 DEF IsPausing, IsListening, InWindow, HasHeard
<1>3. CASE mac.RxSlot # "WIN_1"
  <2>1. ~IsListening(mac) /\ ~HasHeard(mac)
    BY <1>1, <1>3 DEF IsListening, HasHeard, InWindow, Windows
  <2>2. pc # "slot" /\ IsPausing(mac, pc) /\ mac.timers \ {"RX2"} \subseteq {"RX2", "ACK"}
    BY <1>2, <1>3, <2>1 DEF IsPausing
  <2> HIDE DEF n
  <2> QED BY <1>1, <1>2, <1>3, <2>2, WindowOpens DEF Windows
<1>4. CASE mac.RxSlot = "WIN_1"
  <2>1. Changes(mac, n, {"timers"}) /\ n.timers = mac.timers \ {"RX2"}
    BY DEF ClassAInv, InvOf, Fields, IsMac, MacFields, Changes
  <2> HIDE DEF n
  <2>2. /\ Changes(mac, n, {"radio", "radioTimers", "RxSlot", "timers", "notified", "late", "hist"})
        /\ Notes(mac, n, {"sent"}) /\ n.timers \subseteq mac.timers
        /\ n.radio = mac.radio /\ n.radioTimers = mac.radioTimers /\ n.RxSlot = mac.RxSlot
    BY <2>1 DEF Changes, MacFields, Notes
  <2>3. /\ Fields(n) /\ Work(n, radioEvents, taken) /\ CounterInv(n) /\ Spent(n) /\ Running(n)
        /\ StaysPut(mac, n) /\ n.AckTimeoutRetry = mac.AckTimeoutRetry
        /\ n.NodeAckRequested = mac.NodeAckRequested
    BY <1>2, <2>2, RadioMoves DEF ClassAInv
  <2>4. /\ IsPausing(mac, pc) => IsPausing(n, pc)
        /\ IsListening(mac) => IsListening(n)
        /\ HasHeard(mac) => HasHeard(n)
    BY <1>1, <2>1, <2>2, <2>3 DEF IsPausing, IsListening, HasHeard, InWindow, Rests, AckAwaited
  <2>5. Stage(n, radioEvents, taken, pc)
    <3>1. CASE IsPausing(mac, pc)
      BY <1>2, <2>4, <3>1 DEF Stage
    <3>2. CASE IsListening(mac)
      <4>1. radioEvents \cup taken = {} /\ pc # "slot"
        BY <3>2 DEF ClassAInv, InvOf, Stage, IsListening, IsFree, IsDelayed, IsSending, IsSent,
                    IsPausing, HasHeard, IsOver, Rests
      <4> QED BY <2>4, <3>2, <4>1 DEF Stage
    <3>3. CASE HasHeard(mac) /\ ~IsPausing(mac, pc)
      <4>1. /\ radioEvents \cup taken \in {{"RxDone"}, {"RxDone", "RxError"}, {"RxTimeout"}}
            /\ pc # "slot"
        BY <3>3 DEF ClassAInv, InvOf, Stage, IsListening, IsFree, IsDelayed, IsSending, IsSent,
                    HasHeard, InWindow, IsOver, Rests, Running, Unfinished, Windows
      <4> QED BY <2>4, <3>3, <4>1 DEF Stage
    <3> QED BY <1>2, <3>1, <3>2, <3>3
  <2>6. EventInv(n, radioEvents, taken, pc, frame)
    BY <2>3 DEF ClassAInv, InvOf, EventInv, StaysPut
  <2> QED BY <1>1, <1>4, <2>3, <2>5, <2>6 DEF ClassAInv, InvOf
<1> QED BY <1>3, <1>4

(* OnAckTimeoutTimerEvent(): no acknowledgement has come. *)
LEMMA AckStep ==
  ASSUME ClassAInv, AckTimeoutTimer
  PROVE  ClassAInv' /\ StaysPut(mac, mac')
<1> USE DEF ClassAInv
<1> DEFINE n == OnAckTimeoutTimerEvent(mac)
<1>1. /\ "ACK" \in mac.timers /\ mac.timers \cap {"RX1", "RX2"} = {}
      /\ mac' = n /\ UNCHANGED <<radioEvents, frame, pc, taken>>
  BY DEF AckTimeoutTimer, TimerInterrupt
<1>2. /\ Changes(mac, n, {"timers", "AckTimeoutRetry", "MacFlags", "notified"})
      /\ n.timers = mac.timers \ {"ACK"}
      /\ n.AckTimeoutRetry = (mac.AckTimeoutRetry \/ mac.NodeAckRequested)
      /\ n.MacFlags = mac.MacFlags \cup (IF mac.DeviceClass = "C" THEN {"MacDone"} ELSE {})
  BY AckTimeoutIs DEF InvOf, Fields
<1> HIDE DEF n
<1>3. /\ mac.timers = {"ACK"}
      /\ \/ IsPausing(mac, pc)
         \/ IsListening(mac)
         \/ HasHeard(mac)
         \/ IsOver(mac, pc)
  BY <1>1 DEF InvOf, Stage, IsFree, IsDelayed, IsSending, IsSent, IsPausing, IsListening,
              InWindow, HasHeard, IsOver
<1>4. Uplink(mac) /\ mac.NodeAckRequested = TRUE
  <2>1. Uplink(mac)
    BY <1>3 DEF InvOf, Work, Nothing, Joining, IsPausing, IsListening, InWindow, HasHeard, IsOver,
                Running
  <2> QED BY <1>1, <2>1 DEF Uplink, InvOf, Fields
<1>5. /\ IsMac(n) /\ n.timers = {} /\ n.AckTimeoutRetry = TRUE /\ n.NodeAckRequested = TRUE
      /\ n.MacFlags = mac.MacFlags
      /\ \A f \in MacFields \ {"timers", "AckTimeoutRetry", "MacFlags", "notified"} : n[f] = mac[f]
  BY <1>2, <1>3, <1>4 DEF InvOf, Fields, Changes, MacFields
<1>6. Fields(n) /\ CounterInv(n) /\ Spent(n) /\ StaysPut(mac, n)
  BY <1>5 DEF InvOf, Fields, CounterInv, Spent, StaysPut, JoinWaits, MacFields
<1>7. Uplink(n)
  <2>1. /\ n.MacState = mac.MacState /\ n.joined = mac.joined /\ n.hist = mac.hist
        /\ n.msg = mac.msg /\ n.nbTrans = mac.nbTrans /\ n.maxRetries = mac.maxRetries
        /\ n.retries = mac.retries /\ n.confirm = mac.confirm /\ n.queue = mac.queue
    BY <1>5 DEF MacFields
  <2> QED BY <1>4, <1>5, <2>1 DEF Uplink
<1>8. /\ IsPausing(mac, pc) => IsPausing(n, pc)
      /\ IsListening(mac) => IsListening(n)
      /\ HasHeard(mac) => HasHeard(n)
      /\ IsOver(mac, pc) => IsOver(n, pc)
  BY <1>5 DEF IsPausing, IsListening, HasHeard, InWindow, IsOver, Running, Unfinished, Rests,
              AckAwaited, MacFields
<1>9. Stage(n, radioEvents, taken, pc)
  <2>1. CASE IsPausing(mac, pc)
    <3>1. /\ mac.radio = "idle" /\ "MacDone" \notin mac.MacFlags
          /\ pc # "slot" => mac.RxSlot = "NONE"
      BY <2>1 DEF IsPausing, Running, Unfinished, Rests
    <3>2. ~IsOver(mac, pc) /\ ~IsListening(mac) /\ (HasHeard(mac) => pc = "slot")
      BY <3>1 DEF IsListening, HasHeard, InWindow, IsOver, Windows
    <3>3. ~IsFree(mac) /\ ~IsDelayed(mac) /\ ~IsSending(mac) /\ ~IsSent(mac)
      BY <1>3 DEF IsFree, IsDelayed, IsSending, IsSent
    <3>4. radioEvents \cup taken = {}
      BY <3>2, <3>3 DEF InvOf, Stage
    <3> QED BY <1>8, <2>1, <3>4 DEF Stage
  <2>2. CASE IsListening(mac)
    <3>1. radioEvents \cup taken = {} /\ pc # "slot"
      BY <2>2 DEF InvOf, Stage, IsListening, IsFree, IsDelayed, IsSending, IsSent,
                  IsPausing, HasHeard, IsOver, Rests
    <3> QED BY <1>8, <2>2, <3>1 DEF Stage
  <2>3. CASE HasHeard(mac) /\ ~IsPausing(mac, pc)
    <3>1. /\ radioEvents \cup taken \in {{"RxDone"}, {"RxDone", "RxError"}, {"RxTimeout"}}
          /\ pc # "slot"
      BY <2>3 DEF InvOf, Stage, IsListening, IsFree, IsDelayed, IsSending, IsSent,
                  HasHeard, InWindow, IsOver, Rests, Running, Unfinished, Windows
    <3> QED BY <1>8, <2>3, <3>1 DEF Stage
  <2>4. CASE IsOver(mac, pc)
    <3>1. radioEvents = {} /\ taken \subseteq {"RxError"} /\ (pc = "slot" => taken = {})
      BY <2>4 DEF InvOf, Stage, IsListening, IsFree, IsDelayed, IsSending, IsSent,
                  HasHeard, InWindow, IsPausing, IsOver, Rests, Running, Unfinished
    <3> QED BY <1>8, <2>4, <3>1 DEF Stage
  <2> QED BY <1>3, <2>1, <2>2, <2>3, <2>4
<1>10. EventInv(n, radioEvents, taken, pc, frame)
  BY <1>6 DEF InvOf, EventInv, StaysPut
<1> QED BY <1>1, <1>6, <1>7, <1>9, <1>10 DEF InvOf, Work

-----------------------------------------------------------------------------
(* A frame that is to be sent.                                             *)

(* An uplink whose next transmission is due. *)
IsDue(m) ==
  /\ Rests(m) /\ "MacDone" \notin m.MacFlags /\ m.timers \subseteq {"DELAYED"}
  /\ m.RxSlot = "NONE" /\ ~m.AckTimeoutRetry
  /\ m.MacState \subseteq {"TX_DELAYED", "TX_RUNNING"}
  /\ "McpsReq" \in m.MacFlags /\ "MlmeReq" \notin m.MacFlags
  /\ m.queue = <<>> /\ m.hist.owed = 1 /\ m.joined /\ m.msg = "DATA"
  /\ m.NodeAckRequested = (m.confirm.type = "CONFIRMED")
  /\ IF m.NodeAckRequested
     THEN /\ m.nbTrans = 0 /\ m.maxRetries = NbTrials /\ m.retries <= NbTrials
          /\ m.hist.tries = m.retries - 1
     ELSE m.retries = 1 /\ m.hist.tries = m.nbTrans
  /\ IF m.hist.tries > 0 THEN m.hist.onAir.frame = m.hist.uplink
     ELSE m.hist.onAir.frame < m.hist.uplink

(* It is on the air, with a counter that is the frame's. *)
LEMMA DueIsSent ==
  ASSUME NEW m, Fields(m), CounterInv(m), Spent(m), IsDue(m)
  PROVE  LET n == SendFrameOnChannel(Woken(m))
         IN  /\ Fields(n) /\ CounterInv(n) /\ Spent(n) /\ Uplink(n)
             /\ n.radio = "tx" /\ n.radioTimers = {"tx"} /\ n.timers = {} /\ n.RxSlot = "NONE"
             /\ n.MacState = {"TX_RUNNING"} /\ n.MacFlags = m.MacFlags /\ ~n.AckTimeoutRetry
             /\ GoesUnseen(m, n) /\ CounterRule(m, n)
<1> DEFINE w == Woken(m)
           n == SendFrameOnChannel(w)
<1>1. /\ Changes(m, w, {"timers", "MacState"}) /\ w.timers = m.timers \ {"DELAYED"}
      /\ w.MacState = m.MacState \ {"TX_DELAYED"}
  BY TxDelayedIs DEF Fields
<1> HIDE DEF w
<1>2. /\ Changes(w, n, {"radio", "radioTimers", "MacState", "nbTrans", "confirm", "FCntUp", "hist"})
      /\ Notes(w, n, {"onAir", "tries"})
      /\ n.radio = "tx" /\ n.radioTimers = w.radioTimers \cup {"tx"}
      /\ n.MacState = w.MacState \cup {"TX_RUNNING"}
      /\ n.nbTrans = (IF w.NodeAckRequested THEN w.nbTrans ELSE w.nbTrans + 1)
      /\ n.confirm.type = w.confirm.type /\ n.confirm.ack = w.confirm.ack
      /\ w.msg # "JOIN" =>
           /\ n.FCntUp = FCntOf(w) /\ n.hist.tries = w.hist.tries + 1
           /\ n.hist.onAir = [frame |-> w.hist.uplink, fCnt |-> FCntOf(w)]
  <2>1. IsMac(w)
    BY <1>1 DEF Changes
  <2> QED BY <2>1, SendFrameIs
<1> HIDE DEF n
<1>3. /\ IsMac(n) /\ n.radio = "tx" /\ n.radioTimers = {"tx"} /\ n.timers = {}
      /\ n.RxSlot = "NONE" /\ n.MacState = {"TX_RUNNING"} /\ n.MacFlags = m.MacFlags
      /\ ~n.AckTimeoutRetry /\ n.DeviceClass = "A"
      /\ n.nbTrans = (IF m.NodeAckRequested THEN m.nbTrans ELSE m.nbTrans + 1)
      /\ n.confirm.type = m.confirm.type /\ n.confirm.ack = m.confirm.ack
      /\ n.ind = m.ind /\ n.joined = m.joined /\ n.NodeAckRequested = m.NodeAckRequested
      /\ n.AckTimeoutRetry = m.AckTimeoutRetry /\ n.msg = m.msg /\ n.queue = m.queue
      /\ n.retries = m.retries /\ n.maxRetries = m.maxRetries
  <2>1. /\ w.timers = {} /\ w.MacState \subseteq {"TX_RUNNING"} /\ w.radioTimers = {}
        /\ w.RxSlot = "NONE" /\ ~w.AckTimeoutRetry /\ w.DeviceClass = "A"
    BY <1>1 DEF Changes, MacFields, IsDue, Rests, Fields
  <2>2. /\ w.MacFlags = m.MacFlags /\ w.nbTrans = m.nbTrans /\ w.confirm = m.confirm
        /\ w.ind = m.ind /\ w.joined = m.joined /\ w.NodeAckRequested = m.NodeAckRequested
        /\ w.AckTimeoutRetry = m.AckTimeoutRetry /\ w.msg = m.msg /\ w.queue = m.queue
        /\ w.retries = m.retries /\ w.maxRetries = m.maxRetries
    BY <1>1 DEF Changes, MacFields
  <2>3. /\ n.timers = w.timers /\ n.RxSlot = w.RxSlot /\ n.AckTimeoutRetry = w.AckTimeoutRetry
        /\ n.DeviceClass = w.DeviceClass /\ n.MacFlags = w.MacFlags /\ n.ind = w.ind
        /\ n.joined = w.joined /\ n.NodeAckRequested = w.NodeAckRequested
        /\ n.msg = w.msg /\ n.queue = w.queue /\ n.retries = w.retries
        /\ n.maxRetries = w.maxRetries /\ IsMac(n)
    BY <1>2 DEF Changes, MacFields
  <2>4. n.MacState = {"TX_RUNNING"} /\ n.radioTimers = {"tx"}
    BY <1>2, <2>1
  <2> QED BY <1>2, <2>1, <2>2, <2>3, <2>4
<1>4. FCntOf(w) = (IF m.nbTrans >= 1 \/ m.retries > 1 THEN m.FCntUp ELSE m.FCntUp + 1)
  BY <1>1 DEF FCntOf, Changes, MacFields
<1>5. w.hist = m.hist /\ w.msg = "DATA"
  BY <1>1 DEF Changes, MacFields, IsDue
<1>6. /\ n.FCntUp = FCntOf(w) /\ n.hist.tries = m.hist.tries + 1
      /\ n.hist.onAir = [frame |-> m.hist.uplink, fCnt |-> FCntOf(w)]
      /\ n.hist.uplink = m.hist.uplink /\ n.hist.owed = m.hist.owed
      /\ n.hist.verdict = m.hist.verdict
  BY <1>2, <1>5 DEF Notes, HistFields
<1>7. /\ m.nbTrans \in Nat /\ m.retries \in Nat \ {0} /\ m.FCntUp \in Nat
      /\ m.hist.uplink \in Nat /\ m.hist.tries \in Nat
      /\ m.joined \in BOOLEAN /\ m.NodeAckRequested \in BOOLEAN /\ m.AckTimeoutRetry \in BOOLEAN
      /\ m.confirm.type \in Types /\ m.confirm.ack \in BOOLEAN
      /\ m.ind.ok \in BOOLEAN /\ (m.ind.ok => m.joined)
  BY DEF Fields
<1>8. n.FCntUp \in Nat /\ n.nbTrans \in Nat /\ n.hist.tries \in Nat
  BY <1>3, <1>4, <1>6, <1>7
<1>9. Fields(n)
  BY <1>3, <1>6, <1>7, <1>8 DEF Fields
<1>10. CounterInv(n) /\ Spent(n)
  <2>1. Spent(n)
    BY <1>6 DEF Spent
  <2>2. n.hist.onAir = [frame |-> m.hist.uplink, fCnt |-> n.FCntUp] /\ m.hist.uplink <= n.hist.uplink
    BY <1>6, <1>7
  <2> QED BY <1>7, <2>1, <2>2 DEF CounterInv
<1>11. Uplink(n)
  <2>1. n.hist.onAir.frame = n.hist.uplink /\ n.hist.tries > 0
    BY <1>6, <1>7
  <2>2. IF n.NodeAckRequested
        THEN /\ n.nbTrans = 0 /\ n.maxRetries = NbTrials /\ n.retries <= NbTrials
             /\ n.hist.tries = n.retries
        ELSE n.retries = 1 /\ n.hist.tries = n.nbTrans
    BY <1>3, <1>6, <1>7 DEF IsDue
  <2> QED BY <1>3, <1>6, <2>1, <2>2 DEF Uplink, IsDue
<1>12. GoesUnseen(m, n)
  BY <1>3, <1>6 DEF GoesUnseen, JoinWaits
<1>13. CounterRule(m, n)
  <2>1. PICK k \in Nat : m.hist.onAir = [frame |-> k, fCnt |-> m.FCntUp]
    BY DEF CounterInv
  <2>2. CASE m.hist.tries > 0
    <3>1. m.nbTrans >= 1 \/ m.retries > 1
      BY <1>7, <2>2 DEF IsDue
    <3>2. n.hist.onAir = m.hist.onAir
      BY <1>4, <1>6, <2>1, <2>2, <3>1 DEF IsDue
    <3> QED BY <3>2 DEF CounterRule
  <2>3. CASE m.hist.tries = 0
    <3>1. ~(m.nbTrans >= 1 \/ m.retries > 1)
      BY <1>7, <2>3 DEF IsDue
    <3>2. n.hist.onAir.fCnt = m.FCntUp + 1 /\ n.hist.onAir.frame = m.hist.uplink
      BY <1>4, <1>6, <3>1
    <3>3. m.hist.onAir.fCnt = m.FCntUp /\ m.hist.onAir.frame < m.hist.uplink
      BY <2>1, <2>3 DEF IsDue
    <3> QED BY <1>7, <2>1, <3>2, <3>3 DEF CounterRule
  <2> QED BY <1>7, <2>2, <2>3
<1> QED BY <1>3, <1>9, <1>10, <1>11, <1>12, <1>13 DEF n, w

(* Or it waits for the duty cycle. *)
LEMMA DueWaits ==
  ASSUME NEW m, Fields(m), CounterInv(m), Spent(m), IsDue(m)
  PROVE  LET n == Postponed(Woken(m))
         IN  /\ Fields(n) /\ CounterInv(n) /\ Spent(n) /\ Uplink(n)
             /\ Rests(n) /\ n.timers = {"DELAYED"} /\ n.RxSlot = "NONE"
             /\ "TX_DELAYED" \in n.MacState /\ n.MacState \subseteq {"TX_DELAYED", "TX_RUNNING"}
             /\ n.MacFlags = m.MacFlags /\ ~n.AckTimeoutRetry /\ StaysPut(m, n)
<1> DEFINE w == Woken(m)
           n == Postponed(w)
<1>1. /\ Changes(m, w, {"timers", "MacState"}) /\ w.timers = m.timers \ {"DELAYED"}
      /\ w.MacState = m.MacState \ {"TX_DELAYED"}
  BY TxDelayedIs DEF Fields
<1> HIDE DEF w
<1>2. /\ Changes(w, n, {"MacState", "timers"}) /\ n.MacState = w.MacState \cup {"TX_DELAYED"}
      /\ n.timers = w.timers \cup {"DELAYED"}
  <2>1. IsMac(w)
    BY <1>1 DEF Changes
  <2> QED BY <2>1, PostponedIs
<1> HIDE DEF n
<1>3. IsMac(n) /\ \A f \in MacFields \ {"MacState", "timers"} : n[f] = m[f]
  BY <1>1, <1>2 DEF Changes
<1>4. /\ n.timers = {"DELAYED"} /\ "TX_DELAYED" \in n.MacState
      /\ n.MacState \subseteq {"TX_DELAYED", "TX_RUNNING"}
  BY <1>1, <1>2 DEF IsDue
<1>5. /\ n.hist = m.hist /\ n.MacFlags = m.MacFlags /\ n.nbTrans = m.nbTrans
      /\ n.confirm = m.confirm /\ n.joined = m.joined /\ n.queue = m.queue
      /\ n.NodeAckRequested = m.NodeAckRequested /\ n.AckTimeoutRetry = m.AckTimeoutRetry
      /\ n.msg = m.msg /\ n.retries = m.retries /\ n.maxRetries = m.maxRetries
      /\ n.radio = m.radio /\ n.radioTimers = m.radioTimers /\ n.RxSlot = m.RxSlot
  BY <1>3 DEF MacFields
<1>6. Fields(n) /\ CounterInv(n) /\ Spent(n) /\ StaysPut(m, n)
  BY <1>3 DEF Fields, CounterInv, Spent, StaysPut, JoinWaits, MacFields
<1>7. Uplink(n) /\ Rests(n) /\ n.RxSlot = "NONE" /\ ~n.AckTimeoutRetry
  BY <1>4, <1>5 DEF Uplink, IsDue, Rests
<1> QED BY <1>4, <1>5, <1>6, <1>7 DEF n, w

(* An uplink that is over, and its confirm not yet given. *)
IsEnded(m) ==
  /\ Rests(m) /\ m.timers = {} /\ m.RxSlot = "NONE" /\ m.MacState = {}
  /\ "McpsReq" \in m.MacFlags /\ "MlmeReq" \notin m.MacFlags
  /\ m.queue = <<>> /\ m.hist.owed = 1 /\ m.joined = TRUE
  /\ m.nbTrans = 0 /\ ~m.NodeAckRequested /\ ~m.AckTimeoutRetry
  /\ m.confirm.type = "CONFIRMED" =>
       m.confirm.ack \/ m.hist.gaveUp \/ m.hist.tries = NbTrials

(* A repetition that cannot be scheduled ends the uplink. *)
LEMMA DueIsGivenUp ==
  ASSUME NEW m, Fields(m), CounterInv(m), Spent(m), IsDue(m), NEW outcome,
         outcome # "NO_WAIT_TIME",
         outcome \notin {"OK", "DUTYCYCLE_RESTRICTED"}
  PROVE  LET n == OnTxDelayedTimerEvent(m, outcome)
         IN  /\ Fields(n) /\ CounterInv(n) /\ Spent(n) /\ IsEnded(n)
             /\ n.ind = m.ind /\ StaysPut(m, n)
<1> DEFINE n == OnTxDelayedTimerEvent(m, outcome)
<1>1. /\ Changes(m, n, {"timers", "MacState", "confirm", "queue", "hist", "nbTrans",
                        "NodeAckRequested", "AckTimeoutRetry"})
      /\ n.timers = m.timers \ {"DELAYED"}
      /\ n.MacState = m.MacState \ {"TX_DELAYED", "TX_RUNNING"}
      /\ n.confirm.type = m.confirm.type /\ n.confirm.ack = m.confirm.ack
      /\ n.confirm.ok = FALSE
      /\ n.queue = SetStatusCmn(m.queue, FALSE)
      /\ Notes(m, n, {"gaveUp"}) /\ n.hist.gaveUp = TRUE
      /\ n.nbTrans = 0 /\ n.NodeAckRequested = FALSE /\ n.AckTimeoutRetry = FALSE
  <2>1. IsMac(m)
    BY DEF Fields
  <2> QED BY <2>1, TxDelayedIs
<1> HIDE DEF n
<1>2. /\ IsMac(n) /\ n.DeviceClass = m.DeviceClass /\ n.MacFlags = m.MacFlags /\ n.ind = m.ind
      /\ n.joined = m.joined /\ n.retries = m.retries /\ n.FCntUp = m.FCntUp
      /\ n.radio = m.radio /\ n.radioTimers = m.radioTimers /\ n.RxSlot = m.RxSlot
      /\ n.hist.uplink = m.hist.uplink /\ n.hist.tries = m.hist.tries
      /\ n.hist.owed = m.hist.owed /\ n.hist.onAir = m.hist.onAir
      /\ n.hist.verdict = m.hist.verdict
  BY <1>1 DEF Changes, Notes, MacFields, HistFields
<1>3. Fields(n) /\ CounterInv(n) /\ Spent(n) /\ StaysPut(m, n)
  <2>1. /\ n.nbTrans = 0 /\ n.NodeAckRequested = FALSE /\ n.AckTimeoutRetry = FALSE
        /\ n.confirm.type = m.confirm.type /\ n.confirm.ack = m.confirm.ack
    BY <1>1
  <2>2. Fields(n)
    <3>1. n.nbTrans \in Nat
      BY <2>1
    <3>3. n.NodeAckRequested \in BOOLEAN /\ n.AckTimeoutRetry \in BOOLEAN
      BY <2>1, Zenon
    <3>2. n.confirm.type \in Types /\ n.confirm.ack \in BOOLEAN
      BY <2>1 DEF Fields
    <3> QED BY <1>2, <3>1, <3>2, <3>3 DEF Fields
  <2>3. CounterInv(n) /\ Spent(n)
    BY <1>2 DEF CounterInv, Spent
  <2>4. StaysPut(m, n)
    BY <1>2 DEF StaysPut, JoinWaits
  <2> QED BY <2>2, <2>3, <2>4
<1>4. n.queue = <<>>
  <2>1. m.queue = <<>>
    BY DEF IsDue
  <2>2. SetStatusCmn(m.queue, FALSE) = <<>>
    BY <2>1, SetStatusCmnIs
  <2> QED BY <1>1, <2>2
<1>5. n.timers = {} /\ n.MacState = {}
  BY <1>1 DEF IsDue
<1>6. m.joined = TRUE
  BY DEF IsDue, Fields
<1>7. IsEnded(n)
  BY <1>1, <1>2, <1>4, <1>5, <1>6 DEF IsDue, IsEnded, Rests
<1> QED BY <1>2, <1>3, <1>7 DEF n

(* OnTxDelayedTimerEvent(), in the interrupt. *)
LEMMA TxDelayedStep ==
  ASSUME ClassADevice, ClassAInv, TxDelayedTimer
  PROVE  ClassAInv' /\ Rule(mac, mac')
<1> USE DEF ClassAInv
<1>1. PICK outcome \in IsrOutcomes :
        /\ mac' = OnTxDelayedTimerEvent(mac, outcome)
        /\ UNCHANGED <<radioEvents, frame, pc, taken>>
  BY DEF TxDelayedTimer, TimerInterrupt
<1>2. "DELAYED" \in mac.timers
  BY DEF TxDelayedTimer
<1>3. /\ IsDelayed(mac) /\ radioEvents = {} /\ taken = {} /\ pc # "slot"
  BY <1>2 DEF InvOf, Stage, IsFree, IsSending, IsSent, IsPausing, IsListening, InWindow,
              HasHeard, IsOver
<1>4. Uplink(mac)
  BY <1>2, <1>3 DEF InvOf, Work, Nothing, Joining, IsDelayed
<1>5. IsDue(mac)
  BY <1>3, <1>4 DEF IsDue, IsDelayed, Uplink, Unfinished
<1>6. outcome = "OK" \/ outcome = "DUTYCYCLE_RESTRICTED"
  BY DEF ClassADevice
<1>7. CASE outcome = "OK"
  <2> DEFINE n == SendFrameOnChannel(Woken(mac))
  <2>1. mac' = n
    BY <1>1, <1>7, TxDelayedIs DEF InvOf, Fields
  <2>2. /\ Fields(n) /\ CounterInv(n) /\ Spent(n) /\ Uplink(n)
        /\ n.radio = "tx" /\ n.radioTimers = {"tx"} /\ n.timers = {} /\ n.RxSlot = "NONE"
        /\ n.MacState = {"TX_RUNNING"} /\ n.MacFlags = mac.MacFlags /\ ~n.AckTimeoutRetry
        /\ GoesUnseen(mac, n) /\ CounterRule(mac, n)
    BY <1>5, DueIsSent DEF InvOf
  <2> HIDE DEF n
  <2>3. IsSending(n)
    BY <1>3, <2>2 DEF IsSending, Running, Unfinished, IsDelayed
  <2> QED BY <1>1, <1>3, <2>1, <2>2, <2>3 DEF InvOf, Stage, EventInv, Work, Rule
<1>8. CASE outcome = "DUTYCYCLE_RESTRICTED"
  <2> DEFINE n == Postponed(Woken(mac))
  <2>1. mac' = n
    BY <1>1, <1>8, TxDelayedIs DEF InvOf, Fields
  <2>2. /\ Fields(n) /\ CounterInv(n) /\ Spent(n) /\ Uplink(n)
        /\ Rests(n) /\ n.timers = {"DELAYED"} /\ n.RxSlot = "NONE"
        /\ "TX_DELAYED" \in n.MacState /\ n.MacState \subseteq {"TX_DELAYED", "TX_RUNNING"}
        /\ n.MacFlags = mac.MacFlags /\ ~n.AckTimeoutRetry /\ StaysPut(mac, n)
    BY <1>5, DueWaits DEF InvOf
  <2> HIDE DEF n
  <2>3. IsDelayed(n)
    BY <1>3, <2>2 DEF IsDelayed, Unfinished
  <2>4. Rule(mac, n)
    BY <2>2, PutIsRule
  <2> QED BY <1>1, <1>3, <2>1, <2>2, <2>3, <2>4 DEF InvOf, Stage, EventInv, Work
<1> QED BY <1>6, <1>7, <1>8

-----------------------------------------------------------------------------
(* The end of a state, when LoRaMacProcess() finishes it.                  *)

(* StopUplinkRetransmission, of an uplink that is over. *)
LEMMA StopIsEnded ==
  ASSUME NEW m, Fields(m), CounterInv(m), Spent(m),
         Rests(m), m.timers = {}, m.RxSlot = "NONE", m.MacState \subseteq {"TX_RUNNING"},
         "McpsReq" \in m.MacFlags, "MlmeReq" \notin m.MacFlags,
         m.queue = <<>>, m.hist.owed = 1, m.joined = TRUE,
         m.confirm.type = "CONFIRMED" => m.confirm.ack \/ m.hist.tries = NbTrials
  PROVE  LET n == StopUplink(m)
         IN  /\ Fields(n) /\ CounterInv(n) /\ Spent(n) /\ IsEnded(n) /\ StaysPut(m, n)
<1> DEFINE n == StopUplink(m)
<1>1. /\ Changes(m, n, {"timers", "MacState", "nbTrans", "NodeAckRequested", "AckTimeoutRetry"})
      /\ n.timers = m.timers \ {"DELAYED"}
      /\ n.MacState = m.MacState \ {"TX_DELAYED", "TX_RUNNING"}
      /\ n.nbTrans = 0 /\ n.NodeAckRequested = FALSE /\ n.AckTimeoutRetry = FALSE
  BY StopUplinkIs DEF Fields
<1> HIDE DEF n
<1>2. /\ IsMac(n) /\ n.DeviceClass = m.DeviceClass /\ n.MacFlags = m.MacFlags /\ n.ind = m.ind
      /\ n.joined = m.joined /\ n.retries = m.retries /\ n.FCntUp = m.FCntUp
      /\ n.radio = m.radio /\ n.radioTimers = m.radioTimers /\ n.RxSlot = m.RxSlot
      /\ n.hist = m.hist /\ n.confirm = m.confirm /\ n.queue = m.queue
  BY <1>1 DEF Changes, MacFields
<1>3. n.nbTrans \in Nat
  BY <1>1
<1>4. n.NodeAckRequested \in BOOLEAN /\ n.AckTimeoutRetry \in BOOLEAN
  BY <1>1, Zenon
<1>5. Fields(n)
  BY <1>2, <1>3, <1>4 DEF Fields
<1>6. CounterInv(n) /\ Spent(n) /\ StaysPut(m, n)
  BY <1>2 DEF CounterInv, Spent, StaysPut, JoinWaits
<1>7. n.timers = {} /\ n.MacState = {}
  BY <1>1
<1>8. IsEnded(n)
  BY <1>1, <1>2, <1>7 DEF IsEnded, Rests
<1> QED BY <1>5, <1>6, <1>8 DEF n

(* An uplink that goes on: its frame is sent again, ... *)
IsResent(n) ==
  /\ Uplink(n) /\ "MacDone" \notin n.MacFlags
  /\ n.radio = "tx" /\ n.radioTimers = {"tx"} /\ n.timers = {} /\ n.RxSlot = "NONE"
  /\ n.MacState = {"TX_RUNNING"} /\ ~n.AckTimeoutRetry

(* ... waits for the duty cycle, ... *)
IsPutOff(n) ==
  /\ Uplink(n) /\ "MacDone" \notin n.MacFlags
  /\ Rests(n) /\ n.timers = {"DELAYED"} /\ n.RxSlot = "NONE"
  /\ "TX_DELAYED" \in n.MacState /\ n.MacState \subseteq {"TX_DELAYED", "TX_RUNNING"}
  /\ ~n.AckTimeoutRetry

(* ... or waits for the time-out of its acknowledgement. *)
IsAwaited(n) == Uplink(n) /\ IsOver(n, "idle") /\ n.MacState = {"TX_RUNNING"}

Settles(m, n) ==
  /\ Fields(n) /\ CounterInv(n) /\ Spent(n) /\ GoesUnseen(m, n) /\ CounterRule(m, n)
  /\ \/ IsEnded(n) /\ StaysPut(m, n)
     \/ IsResent(n) \/ IsPutOff(n) \/ IsAwaited(n)

(* A repetition: it is sent, it waits, or it is given up. *)
LEMMA DueSettles ==
  ASSUME NEW m, NEW b, Fields(b), CounterInv(b), Spent(b), StaysPut(m, b), NEW outcome,
         outcome # "NO_WAIT_TIME",
         IsDue(Cleared(b)), Changes(b, Cleared(b), {"MacFlags", "AckTimeoutRetry"}),
         Cleared(b).MacFlags = b.MacFlags \ {"MacDone"}, Cleared(b).AckTimeoutRetry = FALSE
  PROVE  Settles(m, OnTxDelayedTimerEvent(Cleared(b), outcome))
<1> DEFINE c == Cleared(b)
           n == OnTxDelayedTimerEvent(c, outcome)
<1>1. /\ IsMac(c) /\ \A f \in MacFields \ {"MacFlags", "AckTimeoutRetry"} : c[f] = b[f]
      /\ c.MacFlags = b.MacFlags \ {"MacDone"} /\ c.AckTimeoutRetry = FALSE
  BY DEF Changes
<1>2. IsDue(c)
  OBVIOUS
<1> HIDE DEF c
<1>3. Fields(c) /\ CounterInv(c) /\ Spent(c)
  <2>1. c.AckTimeoutRetry \in BOOLEAN
    BY <1>1, Zenon
  <2> QED BY <1>1, <2>1 DEF Fields, CounterInv, Spent, MacFields
<1>4. StaysPut(m, c)
  BY <1>1 DEF StaysPut, JoinWaits, MacFields
<1>5. \/ outcome = "OK" /\ n = SendFrameOnChannel(Woken(c))
      \/ outcome = "DUTYCYCLE_RESTRICTED" /\ n = Postponed(Woken(c))
      \/ outcome \notin {"OK", "DUTYCYCLE_RESTRICTED"}
  BY <1>1, TxDelayedIs
<1>6. CASE n = SendFrameOnChannel(Woken(c))
  <2>1. /\ Fields(n) /\ CounterInv(n) /\ Spent(n) /\ Uplink(n)
        /\ n.radio = "tx" /\ n.radioTimers = {"tx"} /\ n.timers = {} /\ n.RxSlot = "NONE"
        /\ n.MacState = {"TX_RUNNING"} /\ n.MacFlags = c.MacFlags /\ ~n.AckTimeoutRetry
        /\ GoesUnseen(c, n) /\ CounterRule(c, n)
    BY <1>2, <1>3, <1>6, DueIsSent
  <2> HIDE DEF n
  <2>2. IsResent(n)
    BY <1>1, <2>1 DEF IsResent
  <2>3. GoesUnseen(m, n) /\ CounterRule(m, n)
    BY <1>4, <2>1 DEF StaysPut, GoesUnseen, CounterRule
  <2> QED BY <2>1, <2>2, <2>3 DEF Settles, n, c
<1>7. CASE n = Postponed(Woken(c))
  <2>1. /\ Fields(n) /\ CounterInv(n) /\ Spent(n) /\ Uplink(n)
        /\ Rests(n) /\ n.timers = {"DELAYED"} /\ n.RxSlot = "NONE"
        /\ "TX_DELAYED" \in n.MacState /\ n.MacState \subseteq {"TX_DELAYED", "TX_RUNNING"}
        /\ n.MacFlags = c.MacFlags /\ ~n.AckTimeoutRetry /\ StaysPut(c, n)
    BY <1>2, <1>3, <1>7, DueWaits
  <2> HIDE DEF n
  <2>2. IsPutOff(n)
    BY <1>1, <2>1 DEF IsPutOff
  <2>3. GoesUnseen(m, n) /\ CounterRule(m, n)
    BY <1>4, <2>1 DEF StaysPut, GoesUnseen, CounterRule
  <2> QED BY <2>1, <2>2, <2>3 DEF Settles, n, c
<1>8. CASE outcome \notin {"OK", "DUTYCYCLE_RESTRICTED"}
  <2>1. Fields(n) /\ CounterInv(n) /\ Spent(n) /\ IsEnded(n) /\ StaysPut(c, n)
    BY <1>2, <1>3, <1>8, DueIsGivenUp
  <2> HIDE DEF n
  <2>2. GoesUnseen(m, n) /\ CounterRule(m, n) /\ StaysPut(m, n)
    BY <1>4, <2>1 DEF StaysPut, GoesUnseen, CounterRule
  <2> QED BY <2>1, <2>2 DEF Settles, n, c
<1> QED BY <1>5, <1>6, <1>7, <1>8

(* LoRaMacHandleMcpsRequest() of an uplink whose windows are over: m is    *)
(* what it was before LoRaMacCheckForRxAbort().                            *)
LEMMA McpsIsHandled ==
  ASSUME NEW m, Fields(m), CounterInv(m), Spent(m), Uplink(m), IsOver(m, "events"),
         NEW b, Changes(m, b, {"MacState"}), b.MacState \subseteq {"TX_RUNNING"},
         m.NodeAckRequested /\ ~m.AckTimeoutRetry => b.MacState = {"TX_RUNNING"},
         NEW outcome, outcome # "NO_WAIT_TIME"
  PROVE  Settles(m, LoRaMacHandleMcpsRequest(b, outcome))
<1>1. /\ IsMac(b) /\ \A f \in MacFields \ {"MacState"} : b[f] = m[f]
      /\ b.radio = m.radio /\ b.radioTimers = m.radioTimers /\ b.RxSlot = "NONE"
      /\ b.hist = m.hist /\ b.confirm = m.confirm /\ b.queue = <<>> /\ b.timers = m.timers
      /\ b.MacFlags = m.MacFlags /\ b.NodeAckRequested = m.NodeAckRequested
      /\ b.AckTimeoutRetry = m.AckTimeoutRetry /\ b.joined = TRUE /\ b.msg = "DATA"
      /\ b.nbTrans = m.nbTrans /\ b.retries = m.retries /\ b.maxRetries = m.maxRetries
  BY DEF Changes, MacFields, IsOver, Uplink, Fields
<1>2. Fields(b) /\ CounterInv(b) /\ Spent(b) /\ StaysPut(m, b)
  BY <1>1 DEF Fields, CounterInv, Spent, StaysPut, JoinWaits, MacFields
<1>3. /\ Rests(b) /\ "McpsReq" \in b.MacFlags /\ "MlmeReq" \notin b.MacFlags
      /\ b.hist.owed = 1 /\ "MacDone" \in m.MacFlags /\ m.timers \subseteq {"ACK"}
      /\ m.NodeAckRequested = (m.confirm.type = "CONFIRMED")
      /\ "ACK" \in m.timers => m.NodeAckRequested /\ ~m.AckTimeoutRetry
      /\ m.AckTimeoutRetry => m.NodeAckRequested /\ m.timers = {}
      /\ "TX_RUNNING" \in m.MacState /\ m.MacState \subseteq {"TX_RUNNING", "RX_ABORT"}
      /\ m.hist.tries > 0 /\ m.hist.onAir.frame = m.hist.uplink
      /\ IF m.NodeAckRequested
         THEN /\ m.nbTrans = 0 /\ m.maxRetries = NbTrials /\ m.retries <= NbTrials
              /\ m.hist.tries = m.retries
         ELSE m.retries = 1 /\ m.hist.tries = m.nbTrans
  BY <1>1 DEF Uplink, IsOver, Rests
<1>4. ASSUME NEW n, StaysPut(m, n)
      PROVE  GoesUnseen(m, n) /\ CounterRule(m, n)
  BY <1>4 DEF StaysPut, GoesUnseen, CounterRule
<1>5. CASE m.confirm.type = "UNCONFIRMED"
  <2>1. /\ m.NodeAckRequested = FALSE /\ b.timers = {} /\ b.confirm.type = "UNCONFIRMED"
    <3>1. m.NodeAckRequested = FALSE
      <4>1. m.NodeAckRequested = (m.confirm.type = "CONFIRMED")
        BY <1>3
      <4>2. ~(m.confirm.type = "CONFIRMED")
        BY <1>5
      <4> QED BY <4>1, <4>2
    <3>2. "ACK" \notin m.timers /\ m.timers \subseteq {"ACK"}
      BY <1>3, <3>1
    <3> QED BY <1>1, <1>5, <3>1, <3>2
  <2>2. LoRaMacHandleMcpsRequest(b, outcome) =
          IF CheckRetransUnconfirmedUplink(b) THEN StopUplink(b) ELSE RepeatUplink(b, outcome)
    BY <1>3, <2>1 DEF LoRaMacHandleMcpsRequest
  <2>3. CASE CheckRetransUnconfirmedUplink(b)
    <3> DEFINE n == StopUplink(b)
    <3>1. Fields(n) /\ CounterInv(n) /\ Spent(n) /\ IsEnded(n) /\ StaysPut(b, n)
      BY <1>1, <1>2, <1>3, <2>1, StopIsEnded
    <3> HIDE DEF n
    <3>2. StaysPut(m, n)
      BY <1>2, <3>1 DEF StaysPut
    <3>3. Settles(m, n)
      BY <1>4, <3>1, <3>2 DEF Settles
    <3> QED BY <2>2, <2>3, <3>3 DEF n
  <2>4. CASE ~CheckRetransUnconfirmedUplink(b)
    <3>1. /\ RepeatUplink(b, outcome) = OnTxDelayedTimerEvent(Cleared(b), outcome)
          /\ Changes(b, Cleared(b), {"MacFlags", "AckTimeoutRetry"})
          /\ Cleared(b).MacFlags = b.MacFlags \ {"MacDone"} /\ Cleared(b).AckTimeoutRetry = FALSE
      BY <1>1, RepeatUplinkIs
    <3>2. IsDue(Cleared(b))
      BY <1>1, <1>3, <2>1, <3>1 DEF IsDue, Changes, MacFields, Rests
    <3>3. Settles(m, OnTxDelayedTimerEvent(Cleared(b), outcome))
      BY <1>2, <3>1, <3>2, DueSettles
    <3> QED BY <2>2, <2>4, <3>1, <3>3
  <2> QED BY <2>3, <2>4
<1>6. CASE m.confirm.type # "UNCONFIRMED"
  <2>1. m.confirm.type = "CONFIRMED" /\ m.NodeAckRequested = TRUE
    BY <1>3, <1>6 DEF Fields, Types
  <2>2. CASE ~m.AckTimeoutRetry
    <3>1. LoRaMacHandleMcpsRequest(b, outcome) = b
      BY <1>1, <1>3, <1>6, <2>2 DEF LoRaMacHandleMcpsRequest
    <3>2. b.MacState = {"TX_RUNNING"}
      BY <2>1, <2>2
    <3>3. Uplink(b)
      BY <1>1, <1>3, <2>1, <3>2 DEF Uplink
    <3>4. IsOver(b, "idle")
      BY <1>1, <1>3, <3>2 DEF IsOver, AckAwaited, Rests
    <3> QED BY <1>2, <1>4, <3>1, <3>2, <3>3, <3>4 DEF Settles, IsAwaited
  <2>3. CASE m.AckTimeoutRetry
    <3> DEFINE a == AckTimeoutRetries(b)
    <3>1. /\ Changes(b, a, {"NodeAckRequested", "retries"})
          /\ CheckRetransConfirmedUplink(b) => a.retries = b.retries
          /\ ~CheckRetransConfirmedUplink(b) =>
               a.retries = b.retries + 1 /\ a.NodeAckRequested = b.NodeAckRequested
      BY <1>1, AckTimeoutRetriesIs
    <3>2. LoRaMacHandleMcpsRequest(b, outcome) =
            IF CheckRetransConfirmedUplink(b) THEN StopUplink(a) ELSE RepeatUplink(a, outcome)
      BY <1>1, <1>3, <1>6, <2>3 DEF LoRaMacHandleMcpsRequest
    <3>3. /\ IsMac(a) /\ \A f \in MacFields \ {"NodeAckRequested", "retries"} : a[f] = b[f]
          /\ a.radio = b.radio /\ a.radioTimers = b.radioTimers /\ a.RxSlot = "NONE"
          /\ a.hist = m.hist /\ a.confirm = m.confirm /\ a.queue = <<>> /\ a.timers = {}
          /\ a.MacFlags = m.MacFlags /\ a.joined = TRUE /\ a.msg = "DATA"
          /\ a.nbTrans = m.nbTrans /\ a.maxRetries = m.maxRetries /\ a.MacState = b.MacState
          /\ StaysPut(m, a)
      BY <1>1, <1>3, <2>3, <3>1 DEF Changes, MacFields, StaysPut, JoinWaits
    <3>4. CounterInv(a) /\ Spent(a)
      BY <1>2, <3>3 DEF CounterInv, Spent, MacFields
    <3>5. CASE CheckRetransConfirmedUplink(b)
      <4>1. a.NodeAckRequested \in BOOLEAN
        BY <1>1, <3>5 DEF AckTimeoutRetries, IsMac, MacFields
      <4>2. Fields(a)
        BY <1>2, <3>1, <3>3, <3>5, <4>1 DEF Fields, MacFields
      <4>3. a.confirm.ack \/ a.hist.tries = NbTrials
        <5>1. m.retries >= NbTrials \/ m.confirm.ack
          BY <1>1, <1>3, <2>1, <3>5 DEF CheckRetransConfirmedUplink
        <5>2. NbTrials \in Nat /\ m.retries \in Nat
          BY LoRaMacAssumption DEF Fields
        <5>3. m.retries <= NbTrials /\ m.hist.tries = m.retries
          BY <1>3, <2>1
        <5> QED BY <3>3, <5>1, <5>2, <5>3
      <4> DEFINE n == StopUplink(a)
      <4>4. /\ Rests(a) /\ a.MacState \subseteq {"TX_RUNNING"}
            /\ "McpsReq" \in a.MacFlags /\ "MlmeReq" \notin a.MacFlags /\ a.hist.owed = 1
        BY <1>1, <1>3, <3>3 DEF Rests
      <4> HIDE DEF a
      <4>5. Fields(n) /\ CounterInv(n) /\ Spent(n) /\ IsEnded(n) /\ StaysPut(a, n)
        BY <3>3, <3>4, <4>2, <4>3, <4>4, StopIsEnded
      <4> HIDE DEF n
      <4>6. StaysPut(m, n)
        BY <3>3, <4>5 DEF StaysPut
      <4>7. Settles(m, n)
        BY <1>4, <4>5, <4>6 DEF Settles
      <4> QED BY <3>2, <3>5, <4>7 DEF n
    <3>6. CASE ~CheckRetransConfirmedUplink(b)
      <4> HIDE DEF a
      <4>1. Fields(a)
        BY <1>2, <3>1, <3>3, <3>6 DEF Fields, MacFields
      <4>2. /\ RepeatUplink(a, outcome) = OnTxDelayedTimerEvent(Cleared(a), outcome)
            /\ Changes(a, Cleared(a), {"MacFlags", "AckTimeoutRetry"})
            /\ Cleared(a).MacFlags = a.MacFlags \ {"MacDone"} /\ Cleared(a).AckTimeoutRetry = FALSE
        <5>1. IsMac(a)
          BY <3>3
        <5> QED BY <5>1, RepeatUplinkIs
      <4>3. m.retries + 1 <= NbTrials /\ m.retries \in Nat
        <5>1. ~(m.retries >= NbTrials)
          BY <1>1, <1>3, <2>1, <3>6 DEF CheckRetransConfirmedUplink
        <5>2. NbTrials \in Nat /\ m.retries \in Nat
          BY LoRaMacAssumption DEF Fields
        <5> QED BY <5>1, <5>2
      <4>4. /\ Rests(a) /\ a.MacState \subseteq {"TX_RUNNING"}
            /\ "McpsReq" \in a.MacFlags /\ "MlmeReq" \notin a.MacFlags /\ a.hist.owed = 1
            /\ a.NodeAckRequested = TRUE /\ a.retries = m.retries + 1
        BY <1>1, <1>3, <2>1, <3>1, <3>3, <3>6 DEF Rests
      <4>5. /\ m.nbTrans = 0 /\ m.maxRetries = NbTrials /\ m.hist.tries = m.retries
        BY <1>3, <2>1
      <4>6. IsDue(Cleared(a))
        <5>1. \A f \in MacFields \ {"MacFlags", "AckTimeoutRetry"} : Cleared(a)[f] = a[f]
          BY <4>2 DEF Changes
        <5>2. /\ Rests(Cleared(a)) /\ Cleared(a).timers = {} /\ Cleared(a).RxSlot = "NONE"
              /\ Cleared(a).MacState \subseteq {"TX_RUNNING"}
              /\ Cleared(a).queue = <<>> /\ Cleared(a).hist = m.hist
              /\ Cleared(a).joined = TRUE /\ Cleared(a).msg = "DATA"
              /\ Cleared(a).NodeAckRequested = TRUE /\ Cleared(a).confirm = m.confirm
              /\ Cleared(a).nbTrans = 0 /\ Cleared(a).maxRetries = NbTrials
              /\ Cleared(a).retries = m.retries + 1
          BY <3>3, <4>4, <4>5, <5>1 DEF MacFields, Rests
        <5>3. Cleared(a).hist.tries = Cleared(a).retries - 1
          BY <4>3, <4>5, <5>2
        <5>4. /\ "McpsReq" \in Cleared(a).MacFlags /\ "MlmeReq" \notin Cleared(a).MacFlags
              /\ "MacDone" \notin Cleared(a).MacFlags /\ Cleared(a).AckTimeoutRetry = FALSE
          BY <4>2, <4>4
        <5>5. /\ Cleared(a).hist.owed = 1
              /\ Cleared(a).hist.tries > 0
              /\ Cleared(a).hist.onAir.frame = Cleared(a).hist.uplink
          BY <1>1, <1>3, <5>2
        <5> QED BY <2>1, <4>3, <5>2, <5>3, <5>4, <5>5 DEF IsDue
      <4>7. Settles(m, OnTxDelayedTimerEvent(Cleared(a), outcome))
        BY <3>3, <3>4, <4>1, <4>2, <4>6, DueSettles
      <4> QED BY <3>2, <3>6, <4>2, <4>7 DEF a
    <3> QED BY <3>5, <3>6
  <2> QED BY <2>2, <2>3
<1> QED BY <1>5, <1>6

(* Nothing is left of the state, but an indication perhaps. *)
IsIdle(m) ==
  /\ Rests(m) /\ m.timers = {} /\ m.RxSlot = "NONE" /\ m.MacState = {}
  /\ "MacDone" \notin m.MacFlags /\ "McpsReq" \notin m.MacFlags /\ "MlmeReq" \notin m.MacFlags
  /\ m.queue = <<>> /\ m.hist.owed = 0 /\ ~m.NodeAckRequested /\ ~m.AckTimeoutRetry
  /\ m.joined => m.nbTrans = 0

(* LoRaMacHandleRequestEvents() confirms an uplink that is over. *)
LEMMA EndedIsConfirmed ==
  ASSUME DefaultClass = "A", NEW m, Fields(m), CounterInv(m), IsEnded(m)
  PROVE  LET n == LoRaMacHandleRequestEvents(m)
         IN  /\ Fields(n) /\ CounterInv(n) /\ Spent(n) /\ IsIdle(n) /\ UplinkIsOver(m, n)
             /\ n.hist.onAir = m.hist.onAir
<1> DEFINE n == LoRaMacHandleRequestEvents(m)
<1>1. /\ IsMac(m) /\ m.MacState = {} /\ DefaultClass = m.DeviceClass
      /\ "McpsReq" \in m.MacFlags /\ "MlmeReq" \notin m.MacFlags
  BY DEF Fields, IsEnded
<1>2. /\ Changes(m, n, {"MacFlags", "hist", "queue"})
      /\ n.MacFlags = m.MacFlags \ {"McpsReq", "MlmeReq", "MacDone"}
      /\ n.queue = m.queue /\ Notes(m, n, {"owed", "verdict"})
      /\ n.hist.owed = m.hist.owed - 1
      /\ n.hist.verdict = [type |-> m.confirm.type, ok |-> m.confirm.ok,
                           ack |-> m.confirm.ack, tries |-> m.hist.tries,
                           sent |-> m.hist.sent, gaveUp |-> m.hist.gaveUp]
  BY <1>1, RequestEventsIs
<1> HIDE DEF n
<1>3. /\ IsMac(n) /\ \A f \in MacFields \ {"MacFlags", "hist", "queue"} : n[f] = m[f]
      /\ n.hist.uplink = m.hist.uplink /\ n.hist.tries = m.hist.tries
      /\ n.hist.onAir = m.hist.onAir /\ n.hist.owed = 0 /\ m.hist.owed = 1
  BY <1>2 DEF Changes, Notes, HistFields, IsEnded
<1>4. Fields(n) /\ CounterInv(n)
  BY <1>3 DEF Fields, CounterInv, MacFields
<1>5. Spent(n)
  <2>1. /\ n.hist.verdict.type = m.confirm.type /\ n.hist.verdict.ack = m.confirm.ack
        /\ n.hist.verdict.tries = m.hist.tries /\ n.hist.verdict.gaveUp = m.hist.gaveUp
    BY <1>2
  <2> QED BY <2>1 DEF Spent, IsEnded
<1>6. IsIdle(n)
  BY <1>2, <1>3 DEF IsEnded, IsIdle, Rests, MacFields
<1>7. UplinkIsOver(m, n)
  BY <1>1, <1>2, <1>3 DEF UplinkIsOver, JoinWaits, MacFields
<1> QED BY <1>3, <1>4, <1>5, <1>6, <1>7 DEF n

(* It waits until the MAC is free. *)
LEMMA BusyIsLeft ==
  ASSUME NEW m, m.MacState # {}
  PROVE  LoRaMacHandleRequestEvents(m) = m
BY DEF LoRaMacHandleRequestEvents

(* A join request whose windows are over is confirmed. *)
LEMMA JoinIsConfirmedThen ==
  ASSUME DefaultClass = "A", NEW m, Fields(m), CounterInv(m), Spent(m), IsOver(m, "events"),
         Joining(m, {}, {}), NEW outcome
  PROVE  LET n == MacDoneIsHandled(m, outcome)
         IN  /\ Fields(n) /\ CounterInv(n) /\ Spent(n) /\ IsIdle(n) /\ JoinIsOver(m, n)
             /\ n.hist.onAir = m.hist.onAir /\ ~n.ind.ok
<1> DEFINE a == LoRaMacCheckForRxAbort(m)
           b == LoRaMacHandleMlmeRequest(a)
           n == LoRaMacHandleRequestEvents(b)
<1>1. /\ Changes(m, a, {"MacState"})
      /\ a.MacState = IF "RX_ABORT" \in m.MacState
                      THEN m.MacState \ {"RX_ABORT", "TX_RUNNING"} ELSE m.MacState
  BY RxAbortIs DEF Fields
<1> HIDE DEF a
<1>2. /\ IsMac(a) /\ \A f \in MacFields \ {"MacState"} : a[f] = m[f]
      /\ a.MacState \ {"TX_RUNNING"} = {} /\ "MlmeReq" \in a.MacFlags
      /\ "McpsReq" \notin a.MacFlags
  BY <1>1 DEF Changes, MacFields, IsOver, Joining
<1>3. PICK ok \in BOOLEAN : JoinRequest(m.queue, ok, TRUE) /\ (m.joined => ok)
  BY DEF Joining, IsOver
<1>4. IsCmdActive(a.queue, "JOIN") /\ (GetStatus(a.queue, "JOIN") <=> ok) /\ Waiting(m.queue) = <<>>
      /\ a.queue = m.queue
  <2>1. a.queue = m.queue
    BY <1>2 DEF MacFields
  <2>2. IsCmdActive(m.queue, "JOIN") /\ (GetStatus(m.queue, "JOIN") <=> ok)
    BY <1>3, GetStatusIs
  <2>3. Waiting(m.queue) = <<>>
    BY <1>3, WaitingIs
  <2> QED BY <2>1, <2>2, <2>3
<1>5. /\ Changes(a, b, {"nbTrans", "MacState"})
      /\ b.nbTrans = (IF GetStatus(a.queue, "JOIN") THEN 0 ELSE a.nbTrans)
      /\ b.MacState = a.MacState \ {"TX_RUNNING"}
  <2>1. /\ Changes(a, b, {"nbTrans", "MacState"})
        /\ IF "MlmeReq" \in a.MacFlags /\ IsCmdActive(a.queue, "JOIN")
           THEN /\ b.nbTrans = IF GetStatus(a.queue, "JOIN") THEN 0 ELSE a.nbTrans
                /\ b.MacState = a.MacState \ {"TX_RUNNING"}
           ELSE b = a
    BY <1>2, MlmeRequestIs
  <2> QED BY <1>2, <1>4, <2>1
<1> HIDE DEF b
<1>6. /\ IsMac(b) /\ \A f \in MacFields \ {"MacState", "nbTrans"} : b[f] = m[f]
      /\ b.MacState = {} /\ (m.joined => b.nbTrans = 0) /\ (b.nbTrans = 0 \/ b.nbTrans = m.nbTrans)
      /\ "MlmeReq" \in b.MacFlags /\ "McpsReq" \notin b.MacFlags
      /\ b.DeviceClass = "A" /\ b.queue = m.queue /\ b.MacFlags = m.MacFlags /\ b.hist = m.hist
  BY <1>2, <1>3, <1>4, <1>5 DEF Changes, MacFields, Fields
<1>7. /\ Changes(b, n, {"MacFlags", "hist", "queue"})
      /\ n.MacFlags = (b.MacFlags \ {"McpsReq", "MlmeReq", "MacDone"}) \cup
                  (IF "MlmeReq" \in b.MacFlags /\ n.queue # <<>> THEN {"MlmeReq"} ELSE {})
      /\ n.queue = (IF "MlmeReq" \in b.MacFlags THEN Waiting(b.queue) ELSE b.queue)
      /\ "McpsReq" \notin b.MacFlags => n.hist = b.hist
  <2>1. DefaultClass = b.DeviceClass
    BY <1>6
  <2> QED BY <1>6, <2>1, RequestEventsIs
<1> HIDE DEF n
<1>8. n.queue = <<>> /\ n.MacFlags = m.MacFlags \ {"McpsReq", "MlmeReq", "MacDone"}
  BY <1>4, <1>6, <1>7
<1>9. /\ IsMac(n) /\ \A f \in MacFields \ {"MacState", "nbTrans", "MacFlags", "hist", "queue"} :
                        n[f] = m[f]
      /\ n.hist = m.hist /\ n.MacState = {} /\ (m.joined => n.nbTrans = 0)
      /\ (n.nbTrans = 0 \/ n.nbTrans = m.nbTrans)
  BY <1>6, <1>7 DEF Changes, MacFields
<1>10. MacDoneIsHandled(m, outcome) = n
  <2>1. LoRaMacHandleMcpsRequest(b, outcome) = b
    BY <1>6 DEF LoRaMacHandleMcpsRequest
  <2>2. MacDoneIsHandled(m, outcome) =
          LoRaMacHandleRequestEvents(LoRaMacHandleMcpsRequest(b, outcome))
    BY DEF MacDoneIsHandled, IsOver, a, b
  <2> QED BY <2>1, <2>2 DEF n
<1>11. Fields(n) /\ CounterInv(n) /\ Spent(n)
  <2>1. n.nbTrans \in Nat
    BY <1>9 DEF Fields
  <2> QED BY <1>9, <2>1 DEF Fields, CounterInv, Spent, MacFields
<1>12. IsIdle(n)
  BY <1>8, <1>9 DEF IsIdle, IsOver, Joining, Rests, MacFields
<1>13. JoinIsOver(m, n) /\ ~n.ind.ok
  BY <1>8, <1>9 DEF JoinIsOver, Joining, JoinWaits, MacFields
<1> QED BY <1>9, <1>10, <1>11, <1>12, <1>13

(* LoRaMacProcess() with MacDone: the state is over, or it goes on. *)
LEMMA MacDoneSettles ==
  ASSUME DefaultClass = "A", NEW m, Fields(m), CounterInv(m), Spent(m), IsOver(m, "events"),
         Work(m, {}, {}), NEW outcome, outcome # "NO_WAIT_TIME"
  PROVE  LET n == MacDoneIsHandled(m, outcome)
         IN  /\ Fields(n) /\ CounterInv(n) /\ Spent(n) /\ CounterRule(m, n)
             /\ \/ IsIdle(n) /\ JoinIsOver(m, n) /\ n.hist.onAir = m.hist.onAir /\ ~n.ind.ok
                \/ IsIdle(n) /\ UplinkIsOver(m, n) /\ n.hist.onAir = m.hist.onAir
                \/ (IsResent(n) \/ IsPutOff(n) \/ IsAwaited(n)) /\ GoesUnseen(m, n)
<1>1. CASE Joining(m, {}, {})
  <2> DEFINE n == MacDoneIsHandled(m, outcome)
  <2>1. /\ Fields(n) /\ CounterInv(n) /\ Spent(n) /\ IsIdle(n) /\ JoinIsOver(m, n)
        /\ n.hist.onAir = m.hist.onAir /\ ~n.ind.ok
    BY <1>1, JoinIsConfirmedThen
  <2> HIDE DEF n
  <2> QED BY <2>1 DEF CounterRule, n
<1>2. CASE Uplink(m)
  <2> DEFINE a == LoRaMacCheckForRxAbort(m)
             d == LoRaMacHandleMcpsRequest(a, outcome)
             n == LoRaMacHandleRequestEvents(d)
  <2>1. /\ Changes(m, a, {"MacState"})
        /\ a.MacState = IF "RX_ABORT" \in m.MacState
                        THEN m.MacState \ {"RX_ABORT", "TX_RUNNING"} ELSE m.MacState
    BY RxAbortIs DEF Fields
  <2>2. MacDoneIsHandled(m, outcome) =
          LoRaMacHandleRequestEvents(LoRaMacHandleMcpsRequest(LoRaMacHandleMlmeRequest(a), outcome))
    BY DEF MacDoneIsHandled, IsOver
  <2> HIDE DEF a
  <2>3. LoRaMacHandleMlmeRequest(a) = a
    <3>1. "MlmeReq" \notin a.MacFlags
      BY <1>2, <2>1 DEF Changes, MacFields, Uplink
    <3> QED BY <3>1 DEF LoRaMacHandleMlmeRequest
  <2>4. /\ a.MacState \subseteq {"TX_RUNNING"}
        /\ m.NodeAckRequested /\ ~m.AckTimeoutRetry => a.MacState = {"TX_RUNNING"}
    BY <2>1 DEF IsOver
  <2>5. Settles(m, d)
    BY <1>2, <2>1, <2>4, McpsIsHandled
  <2> HIDE DEF d
  <2>6. MacDoneIsHandled(m, outcome) = n
    BY <2>2, <2>3 DEF d
  <2>7. CASE IsEnded(d) /\ StaysPut(m, d)
    <3>1. /\ Fields(n) /\ CounterInv(n) /\ Spent(n) /\ IsIdle(n) /\ UplinkIsOver(d, n)
          /\ n.hist.onAir = d.hist.onAir
      BY <2>5, <2>7, EndedIsConfirmed DEF Settles
    <3> HIDE DEF n
    <3>2. UplinkIsOver(m, n) /\ n.hist.onAir = m.hist.onAir
      BY <2>7, <3>1 DEF UplinkIsOver, StaysPut
    <3>3. CounterRule(m, n)
      BY <3>2 DEF CounterRule
    <3> QED BY <2>6, <3>1, <3>2, <3>3
  <2>8. CASE IsResent(d) \/ IsPutOff(d) \/ IsAwaited(d)
    <3>1. d.MacState # {}
      BY <2>8 DEF IsResent, IsPutOff, IsAwaited
    <3>2. n = d
      BY <3>1, BusyIsLeft
    <3> QED BY <2>5, <2>6, <2>8, <3>2 DEF Settles
  <2> QED BY <2>5, <2>7, <2>8 DEF Settles
<1>3. CASE Nothing(m)
  BY <1>3 DEF Nothing, IsOver
<1> QED BY <1>1, <1>2, <1>3 DEF Work

-----------------------------------------------------------------------------
(* A request to a MAC that is free.                                        *)

(* LmHandlerJoin() *)
LEMMA FreeJoins ==
  ASSUME NEW m, Fields(m), CounterInv(m), Spent(m), IsFree(m), Nothing(m), ~m.joined,
         NEW outcome, NEW kind
  PROVE  LET n == LmHandlerJoin(m, outcome)
         IN  /\ InvOf(n, {}, {}, "idle", kind) /\ n.hist.onAir = m.hist.onAir
             /\ GoesUnseen(m, n) \/ JoinIsAsked(m, n)
<1> DEFINE n == LmHandlerJoin(m, outcome)
           r == Rejoining(m)
           s == SendFrameOnChannel(r)
<1>1. /\ IsMac(m) /\ m.queue = <<>> /\ ~IsFull(<<>>) /\ m.DeviceClass = "A" /\ m.joined = FALSE
      /\ JoinRequest(Add(<<>>, "JOIN"), FALSE, FALSE)
  BY AddIs DEF Fields, Nothing
<1>2. /\ Changes(m, r, {"radio", "DeviceClass", "MacState", "MacFlags", "joined", "msg", "nbTrans",
                        "maxRetries", "retries", "AckTimeoutRetry", "NodeAckRequested"})
      /\ r.MacState = {} /\ r.MacFlags = m.MacFlags \cup {"MlmeReq"}
      /\ r.joined = FALSE /\ r.msg = "JOIN" /\ r.nbTrans = 0 /\ r.retries = 1
      /\ r.AckTimeoutRetry = FALSE /\ r.NodeAckRequested = FALSE
      /\ r.radio = m.radio /\ r.DeviceClass = "A"
  BY <1>1, RejoiningIs
<1>3. \/ /\ outcome = "OK"
         /\ Changes(s, n, {"queue", "hist"}) /\ Notes(s, n, {"joins"})
         /\ n.queue = Add(m.queue, "JOIN")
      \/ /\ Changes(r, n, {"MacFlags"}) /\ n.MacFlags = m.MacFlags \ {"MlmeReq"}
  <2>1. \/ /\ IsFull(m.queue) /\ Changes(m, n, {"MacState"}) /\ n.MacState = {}
        \/ /\ ~IsFull(m.queue) /\ outcome = "OK"
           /\ Changes(s, n, {"queue", "hist"}) /\ Notes(s, n, {"joins"})
           /\ n.queue = Add(m.queue, "JOIN")
        \/ /\ outcome # "OK" /\ Changes(r, n, {"MacFlags"})
           /\ n.MacFlags = IF m.queue = <<>> THEN m.MacFlags \ {"MlmeReq"} ELSE r.MacFlags
    BY <1>1, JoinIs
  <2> HIDE DEF n, s, r
  <2> QED BY <1>1, <2>1
<1> HIDE DEF n, r
<1>4. /\ IsMac(r) /\ r.ind = m.ind /\ r.confirm = m.confirm /\ r.FCntUp = m.FCntUp
      /\ r.hist = m.hist /\ r.timers = {} /\ r.radioTimers = {} /\ r.radio = "idle"
      /\ r.RxSlot = "NONE" /\ r.queue = <<>> /\ r.late = m.late
  BY <1>1, <1>2 DEF Changes, MacFields, IsFree, Rests
<1>5. CASE Changes(r, n, {"MacFlags"}) /\ n.MacFlags = m.MacFlags \ {"MlmeReq"}
  <2>1. /\ IsMac(n) /\ \A f \in MacFields \ {"MacFlags"} : n[f] = r[f]
        /\ n.MacFlags = m.MacFlags
    BY <1>5 DEF Changes, Nothing
  <2>2. /\ n.ind = m.ind /\ n.confirm = m.confirm /\ n.FCntUp = m.FCntUp
        /\ n.hist = m.hist /\ n.timers = {} /\ n.radioTimers = {} /\ n.radio = "idle"
        /\ n.RxSlot = "NONE" /\ n.queue = <<>> /\ n.MacState = {}
        /\ n.joined = FALSE /\ n.nbTrans = 0 /\ n.retries = 1
        /\ n.AckTimeoutRetry = FALSE /\ n.NodeAckRequested = FALSE /\ n.DeviceClass = "A"
    BY <1>2, <1>4, <2>1 DEF MacFields
  <2>3. Fields(n)
    <3>1. n.joined \in BOOLEAN /\ n.NodeAckRequested \in BOOLEAN /\ n.AckTimeoutRetry \in BOOLEAN
      BY <2>2, Zenon
    <3>2. n.nbTrans \in Nat /\ n.retries \in Nat \ {0}
      BY <2>2
    <3>3. n.ind.ok \in BOOLEAN /\ ~n.ind.ok
      BY <1>1, <2>2 DEF Fields
    <3> QED BY <2>1, <2>2, <3>1, <3>2, <3>3 DEF Fields
  <2>4. CounterInv(n) /\ Spent(n)
    BY <2>2 DEF CounterInv, Spent
  <2>5. IsFree(n) /\ Nothing(n)
    BY <2>1, <2>2 DEF IsFree, Nothing, Rests, Unfinished
  <2>6. GoesUnseen(m, n) /\ n.hist.onAir = m.hist.onAir
    BY <1>1, <2>1, <2>2 DEF GoesUnseen, JoinWaits
  <2> QED BY <2>3, <2>4, <2>5, <2>6 DEF n, InvOf, Stage, EventInv, Work
<1>6. CASE Changes(s, n, {"queue", "hist"}) /\ Notes(s, n, {"joins"}) /\ n.queue = Add(m.queue, "JOIN")
  <2>1. /\ Changes(r, s, {"radio", "radioTimers", "MacState", "nbTrans", "confirm", "FCntUp", "hist"})
        /\ s.radio = "tx" /\ s.radioTimers = r.radioTimers \cup {"tx"}
        /\ s.MacState = r.MacState \cup {"TX_RUNNING"}
        /\ s.nbTrans = (IF r.NodeAckRequested THEN r.nbTrans ELSE r.nbTrans + 1)
        /\ s.confirm.type = r.confirm.type /\ s.confirm.ack = r.confirm.ack
        /\ r.msg = "JOIN" => s.FCntUp = r.FCntUp /\ s.hist = r.hist
    BY <1>4, SendFrameIs
  <2> HIDE DEF s
  <2>2. /\ s.FCntUp = m.FCntUp /\ s.hist = m.hist /\ s.MacState = {"TX_RUNNING"}
        /\ s.radioTimers = {"tx"} /\ s.nbTrans = 1 /\ s.radio = "tx"
        /\ s.confirm.type = m.confirm.type /\ s.confirm.ack = m.confirm.ack
    BY <1>2, <1>4, <2>1
  <2>3. /\ s.MacFlags = m.MacFlags \cup {"MlmeReq"} /\ s.joined = FALSE /\ s.msg = "JOIN"
        /\ s.retries = 1 /\ s.AckTimeoutRetry = FALSE /\ s.NodeAckRequested = FALSE
        /\ s.DeviceClass = "A" /\ s.ind = m.ind /\ s.timers = {} /\ s.RxSlot = "NONE"
    BY <1>2, <1>4, <2>1 DEF Changes, MacFields
  <2>4. /\ IsMac(n) /\ \A f \in MacFields \ {"queue", "hist"} : n[f] = s[f]
        /\ n.hist.uplink = m.hist.uplink /\ n.hist.tries = m.hist.tries
        /\ n.hist.owed = m.hist.owed /\ n.hist.onAir = m.hist.onAir
        /\ n.hist.verdict = m.hist.verdict
        /\ JoinRequest(n.queue, FALSE, FALSE)
    BY <1>1, <1>6, <2>2 DEF Changes, Notes, HistFields
  <2>5. /\ n.FCntUp = m.FCntUp /\ n.MacState = {"TX_RUNNING"}
        /\ n.radioTimers = {"tx"} /\ n.nbTrans = 1 /\ n.radio = "tx"
        /\ n.confirm.type = m.confirm.type /\ n.confirm.ack = m.confirm.ack
        /\ n.MacFlags = m.MacFlags \cup {"MlmeReq"} /\ n.joined = FALSE /\ n.msg = "JOIN"
        /\ n.retries = 1 /\ n.AckTimeoutRetry = FALSE /\ n.NodeAckRequested = FALSE
        /\ n.DeviceClass = "A" /\ n.ind = m.ind /\ n.timers = {} /\ n.RxSlot = "NONE"
    BY <2>2, <2>3, <2>4 DEF MacFields
  <2>6. Fields(n)
    <3>1. n.joined \in BOOLEAN /\ n.NodeAckRequested \in BOOLEAN /\ n.AckTimeoutRetry \in BOOLEAN
      BY <2>5, Zenon
    <3>2. n.nbTrans \in Nat /\ n.retries \in Nat \ {0}
      BY <2>5
    <3>3. n.ind.ok \in BOOLEAN /\ ~n.ind.ok
      BY <1>1, <2>5 DEF Fields
    <3> QED BY <2>4, <2>5, <3>1, <3>2, <3>3 DEF Fields
  <2>7. CounterInv(n) /\ Spent(n)
    BY <2>4, <2>5 DEF CounterInv, Spent
  <2>8. IsSending(n)
    BY <2>5 DEF IsFree, IsSending, Running, Unfinished
  <2>9. Joining(n, {}, {})
    <3>1. ~n.ind.ok
      BY <1>1, <2>5 DEF Fields
    <3> QED BY <2>4, <2>5, <3>1 DEF Nothing, Joining, IsFree, Unfinished
  <2>10. JoinIsAsked(m, n)
    BY <1>1, <2>4, <2>5 DEF JoinIsAsked, JoinWaits, Nothing
  <2> QED BY <2>4, <2>5, <2>6, <2>7, <2>8, <2>9, <2>10 DEF n, InvOf, Stage, EventInv, Work
<1> QED BY <1>3, <1>5, <1>6

(* LoRaMacMcpsRequest() *)
LEMMA FreeSends ==
  ASSUME NEW m, Fields(m), CounterInv(m), Spent(m), IsFree(m), Nothing(m), m.joined,
         NEW type \in Types, NEW allow \in BOOLEAN, NEW outcome, outcome # "NO_WAIT_TIME", NEW kind
  PROVE  LET n == LoRaMacMcpsRequest(m, type, allow, outcome)
         IN  /\ InvOf(n, {}, {}, "idle", kind) /\ CounterRule(m, n)
             /\ GoesUnseen(m, n) \/ UplinkIsTaken(m, n)
<1> DEFINE n == LoRaMacMcpsRequest(m, type, allow, outcome)
<1>1. GoesOut(m, n, type) \/ IsPostponed(m, n, type) \/ Refused(m, n)
  BY McpsRequestIs DEF Fields
<1> HIDE DEF n
<1>2. /\ m.joined = TRUE /\ m.nbTrans = 0 /\ m.MacState = {} /\ m.queue = <<>> /\ m.hist.owed = 0
      /\ "McpsReq" \notin m.MacFlags /\ "MlmeReq" \notin m.MacFlags
      /\ Rests(m) /\ m.timers = {} /\ m.RxSlot = "NONE" /\ m.DeviceClass = "A"
      /\ "MacDone" \notin m.MacFlags /\ "McpsInd" \notin m.MacFlags
      /\ m.AckTimeoutRetry = FALSE /\ m.NodeAckRequested = FALSE
  BY DEF Nothing, IsFree, Fields, Unfinished
<1>3. /\ m.FCntUp \in Nat /\ m.hist.uplink \in Nat /\ NbTrials \in Nat \ {0}
      /\ m.ind.ok \in BOOLEAN /\ m.confirm.type \in Types
  BY LoRaMacAssumption DEF Fields
<1>4. PICK k \in Nat : m.hist.onAir = [frame |-> k, fCnt |-> m.FCntUp] /\ k <= m.hist.uplink
  BY DEF CounterInv
<1>5. type = "UNCONFIRMED" \/ type = "CONFIRMED"
  BY DEF Types
<1>6. CASE Refused(m, n)
  <2>1. /\ IsMac(n) /\ n.hist = m.hist /\ n.MacFlags = m.MacFlags /\ n.joined = TRUE
        /\ n.nbTrans = 0 /\ n.MacState = {} /\ n.queue = <<>> /\ n.DeviceClass = "A"
        /\ n.radio = m.radio /\ n.radioTimers = m.radioTimers /\ n.timers = {}
        /\ n.RxSlot = "NONE" /\ n.AckTimeoutRetry = FALSE /\ n.FCntUp = m.FCntUp
        /\ n.ind = m.ind /\ n.NodeAckRequested = FALSE /\ n.retries = 1
        /\ n.confirm.type = m.confirm.type /\ n.confirm.ack = FALSE
    BY <1>2, <1>6 DEF Refused, Changes, MacFields
  <2>2. n.joined \in BOOLEAN /\ n.NodeAckRequested \in BOOLEAN /\ n.AckTimeoutRetry \in BOOLEAN
        /\ n.confirm.ack \in BOOLEAN
    BY <2>1, Zenon
  <2>3. n.nbTrans \in Nat /\ n.retries \in Nat \ {0}
    BY <2>1
  <2>4. Fields(n)
    BY <1>3, <2>1, <2>2, <2>3 DEF Fields
  <2>5. CounterInv(n) /\ Spent(n)
    BY <2>1 DEF CounterInv, Spent
  <2>6. IsFree(n) /\ Nothing(n)
    BY <1>2, <2>1 DEF IsFree, Nothing, Rests, Unfinished
  <2>7. GoesUnseen(m, n) /\ CounterRule(m, n)
    BY <1>2, <2>1 DEF GoesUnseen, JoinWaits, CounterRule
  <2> QED BY <2>4, <2>5, <2>6, <2>7 DEF n, InvOf, Stage, EventInv, Work
<1>7. ASSUME Accepted(m, n, type), n.queue = m.queue, n.joined = m.joined
      PROVE  /\ UplinkIsTaken(m, n) /\ Spent(n)
             /\ "McpsReq" \in n.MacFlags /\ "MlmeReq" \notin n.MacFlags
             /\ "MacDone" \notin n.MacFlags /\ "McpsInd" \notin n.MacFlags
             /\ n.queue = <<>> /\ n.hist.owed = 1 /\ n.joined = TRUE /\ n.msg = "DATA"
             /\ n.confirm.type = type /\ n.confirm.ack = FALSE /\ n.retries = 1
             /\ n.hist.uplink = m.hist.uplink + 1
             /\ type = "CONFIRMED" => n.NodeAckRequested = TRUE /\ n.maxRetries = NbTrials
             /\ type = "UNCONFIRMED" => n.NodeAckRequested = FALSE
  <2>1. /\ "McpsReq" \in n.MacFlags /\ "MlmeReq" \notin n.MacFlags
        /\ "MacDone" \notin n.MacFlags /\ "McpsInd" \notin n.MacFlags
        /\ n.queue = <<>> /\ n.hist.owed = 1 /\ n.joined = TRUE /\ n.msg = "DATA"
        /\ n.confirm.type = type /\ n.confirm.ack = FALSE /\ n.retries = 1
        /\ n.hist.uplink = m.hist.uplink + 1 /\ n.hist.verdict = m.hist.verdict
    BY <1>2, <1>7 DEF Accepted, Notes, HistFields
  <2>2. /\ type = "CONFIRMED" => n.NodeAckRequested = TRUE /\ n.maxRetries = NbTrials
        /\ type = "UNCONFIRMED" => n.NodeAckRequested = FALSE
    BY <1>7 DEF Accepted
  <2>3. Spent(n)
    BY <2>1 DEF Spent
  <2>4. UplinkIsTaken(m, n)
    BY <1>2, <2>1 DEF UplinkIsTaken, JoinWaits
  <2> QED BY <2>1, <2>2, <2>3, <2>4
<1>8. CASE GoesOut(m, n, type)
  <2>1. /\ IsMac(n) /\ n.queue = m.queue /\ n.joined = m.joined /\ n.ind = m.ind
        /\ n.timers = {} /\ n.RxSlot = "NONE" /\ n.DeviceClass = "A"
        /\ n.AckTimeoutRetry = FALSE /\ Accepted(m, n, type)
        /\ n.radio = "tx" /\ n.radioTimers = m.radioTimers \cup {"tx"}
        /\ n.MacState = m.MacState \cup {"TX_RUNNING"}
        /\ n.nbTrans = (IF type = "CONFIRMED" THEN m.nbTrans ELSE m.nbTrans + 1)
        /\ n.hist.tries = 1
    BY <1>2, <1>8 DEF GoesOut, Changes, MacFields
  <2>2. n.FCntUp = m.FCntUp + 1 /\ n.hist.onAir = [frame |-> m.hist.uplink + 1, fCnt |-> m.FCntUp + 1]
    BY <1>2, <1>8 DEF GoesOut
  <2>3. /\ n.radioTimers = {"tx"} /\ n.MacState = {"TX_RUNNING"}
        /\ type = "CONFIRMED" => n.nbTrans = 0
        /\ type = "UNCONFIRMED" => n.nbTrans = 1
    BY <1>2, <2>1 DEF Rests
  <2>4. /\ UplinkIsTaken(m, n) /\ Spent(n)
        /\ "McpsReq" \in n.MacFlags /\ "MlmeReq" \notin n.MacFlags
        /\ "MacDone" \notin n.MacFlags /\ "McpsInd" \notin n.MacFlags
        /\ n.queue = <<>> /\ n.hist.owed = 1 /\ n.joined = TRUE /\ n.msg = "DATA"
        /\ n.confirm.type = type /\ n.confirm.ack = FALSE /\ n.retries = 1
        /\ n.hist.uplink = m.hist.uplink + 1
        /\ type = "CONFIRMED" => n.NodeAckRequested = TRUE /\ n.maxRetries = NbTrials
        /\ type = "UNCONFIRMED" => n.NodeAckRequested = FALSE
    BY <1>7, <2>1
  <2>5. n.joined \in BOOLEAN /\ n.NodeAckRequested \in BOOLEAN /\ n.AckTimeoutRetry \in BOOLEAN
        /\ n.confirm.ack \in BOOLEAN /\ n.confirm.type \in Types
    BY <1>5, <2>1, <2>4, Zenon
  <2>6. /\ n.nbTrans \in Nat /\ n.retries \in Nat \ {0} /\ n.FCntUp \in Nat
        /\ n.hist.uplink \in Nat /\ n.hist.tries \in Nat
    BY <1>3, <1>5, <2>1, <2>2, <2>3, <2>4
  <2>7. Fields(n)
    BY <1>3, <2>1, <2>4, <2>5, <2>6 DEF Fields
  <2>8. CounterInv(n)
    <3>1. /\ n.hist.onAir = [frame |-> m.hist.uplink + 1, fCnt |-> n.FCntUp]
          /\ m.hist.uplink + 1 <= n.hist.uplink /\ m.hist.uplink + 1 \in Nat
      BY <1>3, <2>2, <2>4
    <3> QED BY <3>1 DEF CounterInv
  <2>9. CounterRule(m, n)
    BY <1>3, <1>4, <2>2 DEF CounterRule
  <2>10. IsSending(n)
    BY <2>1, <2>3, <2>4 DEF IsSending, Running, Unfinished
  <2>11. Uplink(n)
    <3>a. n.hist.onAir.frame = n.hist.uplink
      BY <2>2, <2>4
    <3>b. n.hist.tries > 0 /\ ~n.AckTimeoutRetry /\ "ACK" \notin n.timers
      BY <2>1
    <3>c. "TX_DELAYED" \notin n.MacState /\ n.MacState \notin {{}, {"STOPPED"}}
      BY <2>3
    <3>1. /\ n.hist.onAir.frame = n.hist.uplink /\ n.hist.tries > 0
          /\ "TX_DELAYED" \notin n.MacState /\ n.MacState \notin {{}, {"STOPPED"}}
          /\ ~n.AckTimeoutRetry /\ "ACK" \notin n.timers
      BY <3>a, <3>b, <3>c
    <3>2. CASE type = "CONFIRMED"
      <4>1. /\ n.NodeAckRequested = TRUE /\ n.confirm.type = "CONFIRMED"
            /\ n.nbTrans = 0 /\ n.maxRetries = NbTrials /\ n.retries <= NbTrials
            /\ n.hist.tries = n.retries
        BY <1>3, <2>1, <2>3, <2>4, <3>2
      <4> QED BY <2>4, <3>1, <4>1 DEF Uplink
    <3>3. CASE type = "UNCONFIRMED"
      <4>1. /\ n.NodeAckRequested = FALSE /\ n.confirm.type = "UNCONFIRMED"
            /\ n.retries = 1 /\ n.hist.tries = n.nbTrans
        BY <2>1, <2>3, <2>4, <3>3
      <4> QED BY <2>4, <3>1, <4>1 DEF Uplink
    <3> QED BY <1>5, <3>2, <3>3
  <2> QED BY <2>3, <2>4, <2>7, <2>8, <2>9, <2>10, <2>11 DEF n, InvOf, Stage, EventInv, Work
<1>9. CASE IsPostponed(m, n, type)
  <2>1. /\ IsMac(n) /\ n.queue = m.queue /\ n.joined = m.joined /\ n.ind = m.ind
        /\ n.timers = m.timers \cup {"DELAYED"} /\ n.RxSlot = "NONE" /\ n.DeviceClass = "A"
        /\ n.AckTimeoutRetry = FALSE /\ Accepted(m, n, type)
        /\ n.radio = m.radio /\ n.radioTimers = m.radioTimers
        /\ n.MacState = m.MacState \cup {"TX_DELAYED"} /\ n.nbTrans = 0 /\ n.FCntUp = m.FCntUp
        /\ n.hist.tries = 0 /\ n.hist.onAir = m.hist.onAir
    BY <1>2, <1>9 DEF IsPostponed, Changes, MacFields
  <2>3. n.timers = {"DELAYED"} /\ n.MacState = {"TX_DELAYED"} /\ Rests(n)
    BY <1>2, <2>1 DEF Rests
  <2>4. /\ UplinkIsTaken(m, n) /\ Spent(n)
        /\ "McpsReq" \in n.MacFlags /\ "MlmeReq" \notin n.MacFlags
        /\ "MacDone" \notin n.MacFlags /\ "McpsInd" \notin n.MacFlags
        /\ n.queue = <<>> /\ n.hist.owed = 1 /\ n.joined = TRUE /\ n.msg = "DATA"
        /\ n.confirm.type = type /\ n.confirm.ack = FALSE /\ n.retries = 1
        /\ n.hist.uplink = m.hist.uplink + 1
        /\ type = "CONFIRMED" => n.NodeAckRequested = TRUE /\ n.maxRetries = NbTrials
        /\ type = "UNCONFIRMED" => n.NodeAckRequested = FALSE
    BY <1>7, <2>1
  <2>5. n.joined \in BOOLEAN /\ n.NodeAckRequested \in BOOLEAN /\ n.AckTimeoutRetry \in BOOLEAN
        /\ n.confirm.ack \in BOOLEAN /\ n.confirm.type \in Types
    BY <1>5, <2>1, <2>4, Zenon
  <2>6. /\ n.nbTrans \in Nat /\ n.retries \in Nat \ {0} /\ n.FCntUp \in Nat
        /\ n.hist.uplink \in Nat /\ n.hist.tries \in Nat
    BY <1>3, <2>1, <2>4
  <2>7. Fields(n)
    BY <1>3, <2>1, <2>4, <2>5, <2>6 DEF Fields
  <2>8. CounterInv(n)
    BY <1>3, <1>4, <2>1, <2>4 DEF CounterInv
  <2>9. CounterRule(m, n)
    BY <2>1 DEF CounterRule
  <2>10. IsDelayed(n)
    BY <2>1, <2>3, <2>4 DEF IsDelayed, Unfinished
  <2>11. Uplink(n)
    <3>a. n.hist.onAir.frame < n.hist.uplink
      <4>1. n.hist.onAir.frame = k
        BY <1>4, <2>1
      <4> QED BY <1>3, <1>4, <2>4, <4>1
    <3>b. n.hist.tries = 0 /\ ~n.AckTimeoutRetry
      BY <2>1
    <3>c. /\ "TX_DELAYED" \in n.MacState /\ n.MacState \notin {{}, {"STOPPED"}}
          /\ "ACK" \notin n.timers
      BY <2>3
    <3>1. /\ n.hist.onAir.frame < n.hist.uplink /\ n.hist.tries = 0
          /\ "TX_DELAYED" \in n.MacState /\ n.MacState \notin {{}, {"STOPPED"}}
          /\ ~n.AckTimeoutRetry /\ "ACK" \notin n.timers
      BY <3>a, <3>b, <3>c
    <3>2. CASE type = "CONFIRMED"
      <4>a. n.NodeAckRequested = TRUE /\ n.confirm.type = "CONFIRMED" /\ n.maxRetries = NbTrials
        BY <2>4, <3>2
      <4>b. n.nbTrans = 0 /\ n.retries <= NbTrials /\ n.hist.tries = n.retries - 1
        <5>1. n.retries = 1 /\ n.hist.tries = 0 /\ n.nbTrans = 0
          BY <2>1, <2>4
        <5> QED BY <1>3, <5>1
      <4>1. /\ n.NodeAckRequested = TRUE /\ n.confirm.type = "CONFIRMED"
            /\ n.nbTrans = 0 /\ n.maxRetries = NbTrials /\ n.retries <= NbTrials
            /\ n.hist.tries = n.retries - 1
        BY <4>a, <4>b
      <4>2. n.NodeAckRequested = (n.confirm.type = "CONFIRMED")
        BY <4>a
      <4>3. ~(n.hist.tries > 0)
        BY <3>b
      <4> QED BY <2>4, <3>1, <4>1, <4>2, <4>3 DEF Uplink
    <3>3. CASE type = "UNCONFIRMED"
      <4>1. n.NodeAckRequested = FALSE /\ n.confirm.type = "UNCONFIRMED"
        BY <2>4, <3>3
      <4>2. n.NodeAckRequested = (n.confirm.type = "CONFIRMED")
        BY <4>1
      <4>3. n.retries = 1 /\ n.hist.tries = n.nbTrans /\ ~(n.hist.tries > 0)
        BY <2>1, <2>4
      <4> QED BY <2>4, <3>1, <4>1, <4>2, <4>3 DEF Uplink
    <3> QED BY <1>5, <3>2, <3>3
  <2> QED BY <2>4, <2>7, <2>8, <2>9, <2>10, <2>11 DEF n, InvOf, Stage, EventInv, Work
<1> QED BY <1>1, <1>6, <1>8, <1>9

-----------------------------------------------------------------------------
(* The thread finishes, and the application asks.                          *)

(* LoRaMacHandleIndicationEvents() leaves nothing but a state that is      *)
(* free, or one that goes on.                                              *)
LEMMA SeenIs ==
  ASSUME NEW m, NEW n, Fields(m), CounterInv(m), Spent(m),
         Changes(m, n, {"MacFlags"}), n.MacFlags = m.MacFlags \ {"McpsInd"}, NEW kind
  PROVE  /\ Fields(n) /\ CounterInv(n) /\ Spent(n) /\ StaysPut(m, n) /\ n.ind = m.ind
         /\ IsIdle(m) => IsFree(n) /\ Nothing(n) /\ n.MacState = {}
         /\ IsResent(m) \/ IsPutOff(m) \/ IsAwaited(m) =>
              InvOf(n, {}, {}, "idle", kind) /\ n.MacState # {}
<1>1. /\ IsMac(n) /\ \A f \in MacFields \ {"MacFlags"} : n[f] = m[f]
  BY DEF Changes
<1>2. /\ Fields(n) /\ CounterInv(n) /\ Spent(n) /\ n.ind = m.ind
  BY <1>1 DEF Fields, CounterInv, Spent, MacFields
<1>3. StaysPut(m, n)
  BY <1>1 DEF StaysPut, JoinWaits, MacFields
<1>4. ASSUME IsIdle(m)
      PROVE  IsFree(n) /\ Nothing(n) /\ n.MacState = {}
  BY <1>1, <1>4 DEF IsIdle, IsFree, Nothing, Rests, Unfinished, MacFields
<1>5. ASSUME Uplink(m)
      PROVE  Uplink(n) /\ n.MacState # {}
  BY <1>1, <1>5 DEF Uplink, MacFields
<1>6. ASSUME IsResent(m)
      PROVE  InvOf(n, {}, {}, "idle", kind) /\ n.MacState # {}
  <2>1. IsSending(n) /\ n.radioTimers = {"tx"}
    BY <1>1, <1>6 DEF IsResent, IsSending, Running, Unfinished, MacFields
  <2> QED BY <1>2, <1>5, <1>6, <2>1 DEF IsResent, InvOf, Stage, EventInv, Work
<1>7. ASSUME IsPutOff(m)
      PROVE  InvOf(n, {}, {}, "idle", kind) /\ n.MacState # {}
  <2>1. IsDelayed(n)
    BY <1>1, <1>7 DEF IsPutOff, IsDelayed, Rests, Unfinished, MacFields
  <2> QED BY <1>2, <1>5, <1>7, <2>1 DEF IsPutOff, InvOf, Stage, EventInv, Work
<1>8. ASSUME IsAwaited(m)
      PROVE  InvOf(n, {}, {}, "idle", kind) /\ n.MacState # {}
  <2>1. IsOver(n, "idle")
    BY <1>1, <1>8 DEF IsAwaited, IsOver, Rests, AckAwaited, MacFields
  <2> QED BY <1>2, <1>5, <1>8, <2>1 DEF IsAwaited, InvOf, Stage, EventInv, Work
<1> QED BY <1>2, <1>3, <1>4, <1>6, <1>7, <1>8

(* LoRaMacProcess() at its end, when no state is finished. *)
LEMMA UnfinishedIsLeft ==
  ASSUME ClassADevice, ClassAInv, MacFinishes, "MacDone" \notin mac.MacFlags
  PROVE  ClassAInv' /\ Rule(mac, mac')
<1> USE DEF ClassAInv
<1>1. /\ pc = "events" /\ taken = {} /\ pc' = "idle"
      /\ UNCHANGED <<radioEvents, frame, taken>>
  BY DEF MacFinishes, ThreadAt
<1>2. PICK repeat \in Outcomes, flush \in Outcomes, class \in AppClasses \cup {mac.DeviceClass} :
        mac' = MacReopensRxC(
                 LoRaMacHandleIndicationEvents(MacDoneIsHandled(mac, repeat), class, flush))
  BY DEF MacFinishes
<1>3. IsMac(mac) /\ "McpsInd" \notin mac.MacFlags
      /\ mac.RxSlot \in Windows \cup {"NONE"} /\ Stage(mac, radioEvents, {}, "idle")
  BY <1>1 DEF InvOf, Fields, Stage, IsFree, IsDelayed, IsSending, IsSent, IsPausing, IsListening,
              InWindow, HasHeard, IsOver, Running, Unfinished
<1>4. MacDoneIsHandled(mac, repeat) = mac
  BY DEF MacDoneIsHandled
<1> DEFINE seen == [mac EXCEPT !.MacFlags = @ \ {"McpsInd"}]
<1>5. /\ LoRaMacHandleIndicationEvents(mac, class, flush) = seen
      /\ Changes(mac, seen, {"MacFlags"}) /\ seen.MacFlags = mac.MacFlags \ {"McpsInd"}
  BY <1>3, IndicationIs
<1> HIDE DEF seen
<1>6. Changes(mac, seen, {"notified", "late"})
  <2>1. seen.MacFlags = mac.MacFlags
    BY <1>3, <1>5
  <2> QED BY <1>5, <2>1 DEF Changes, MacFields
<1>7. mac' = seen
  <2>1. IsMac(seen) /\ seen.RxSlot # "CLASS_C"
    BY <1>3, <1>5 DEF Changes, MacFields, Windows
  <2> QED BY <1>2, <1>4, <1>5, <2>1, ReopensIs
<1>8. InvOf(mac, radioEvents, {}, "idle", frame)
  BY <1>1, <1>3 DEF InvOf, EventInv
<1>9. InvOf(seen, radioEvents, {}, "idle", frame) /\ StaysPut(mac, seen)
  BY <1>6, <1>8, Unnoticed
<1> QED BY <1>1, <1>7, <1>9, PutIsRule

(* The answer to a frame that says more are pending, once the uplink it    *)
(* came for is confirmed.                                                  *)
LEMMA UplinkIsFollowed ==
  ASSUME NEW m, NEW n, NEW r, NEW kind, UplinkIsOver(m, n), n.hist.onAir = m.hist.onAir,
         InvOf(r, {}, {}, "idle", kind), CounterRule(n, r),
         GoesUnseen(n, r) \/ UplinkIsTaken(n, r)
  PROVE  Rule(m, r)
<1>1. CounterRule(m, r)
  BY DEF CounterRule
<1>2. CASE GoesUnseen(n, r)
  <2>1. UplinkIsOver(m, r)
    BY <1>2 DEF GoesUnseen, UplinkIsOver
  <2> QED BY <1>1, <2>1 DEF Rule
<1>3. CASE UplinkIsTaken(n, r)
  <2>1. UplinkIsAnswered(m, r)
    <3>1. /\ r.hist.uplink = m.hist.uplink + 1 /\ r.hist.owed = 1 /\ m.hist.owed = 1
          /\ m.joined = TRUE /\ r.joined = TRUE
      BY <1>3 DEF UplinkIsTaken, UplinkIsOver
    <3>2. JoinWaits(r) = JoinWaits(m)
      BY <1>3 DEF UplinkIsTaken, UplinkIsOver, JoinWaits
    <3> QED BY <3>1, <3>2 DEF UplinkIsAnswered
  <2> QED BY <1>1, <2>1 DEF Rule
<1> QED BY <1>2, <1>3

(* LoRaMacProcess() at its end, when a state is finished. *)
LEMMA FinishedIsSettled ==
  ASSUME ClassADevice, ClassAInv, MacFinishes, "MacDone" \in mac.MacFlags
  PROVE  ClassAInv' /\ Rule(mac, mac')
<1> USE DEF ClassAInv
<1>1. /\ pc = "events" /\ taken = {} /\ pc' = "idle"
      /\ UNCHANGED <<radioEvents, frame, taken>>
  BY DEF MacFinishes, ThreadAt
<1>2. PICK repeat \in Outcomes, flush \in Outcomes, class \in AppClasses \cup {mac.DeviceClass} :
        mac' = MacReopensRxC(
                 LoRaMacHandleIndicationEvents(MacDoneIsHandled(mac, repeat), class, flush))
  BY DEF MacFinishes
<1>3. IsOver(mac, "events") /\ radioEvents = {} /\ Work(mac, {}, {})
  BY <1>1 DEF InvOf, Stage, IsFree, IsDelayed, IsSending, IsSent, IsPausing, IsListening,
              InWindow, HasHeard, Running, Unfinished
<1>4. /\ class = "A" /\ DefaultClass = "A"
      /\ repeat # "NO_WAIT_TIME" /\ flush # "NO_WAIT_TIME"
  BY <1>2 DEF ClassADevice, InvOf, Fields
<1> DEFINE n == MacDoneIsHandled(mac, repeat)
           seen == [n EXCEPT !.MacFlags = @ \ {"McpsInd"}]
           r == LoRaMacHandleIndicationEvents(n, class, flush)
           s == LmHandlerSend(seen, "UNCONFIRMED", TRUE, flush)
<1>5. /\ Fields(n) /\ CounterInv(n) /\ Spent(n) /\ CounterRule(mac, n)
      /\ \/ IsIdle(n) /\ JoinIsOver(mac, n) /\ n.hist.onAir = mac.hist.onAir /\ ~n.ind.ok
         \/ IsIdle(n) /\ UplinkIsOver(mac, n) /\ n.hist.onAir = mac.hist.onAir
         \/ (IsResent(n) \/ IsPutOff(n) \/ IsAwaited(n)) /\ GoesUnseen(mac, n)
  BY <1>3, <1>4, MacDoneSettles DEF InvOf
<1> HIDE DEF n
<1>6. /\ Changes(n, seen, {"MacFlags"}) /\ seen.MacFlags = n.MacFlags \ {"McpsInd"}
      /\ \/ r = seen
         \/ n.ind.ok /\ r = LmHandlerRequestClass(seen, class)
         \/ n.ind.ok /\ r = LmHandlerSend(LmHandlerRequestClass(seen, class),
                                          "UNCONFIRMED", TRUE, flush)
  <2>1. IsMac(n)
    BY <1>5 DEF Fields
  <2> QED BY <2>1, IndicationIs
<1> HIDE DEF seen, r
<1>7. /\ Fields(seen) /\ CounterInv(seen) /\ Spent(seen) /\ StaysPut(n, seen) /\ seen.ind = n.ind
      /\ IsIdle(n) => IsFree(seen) /\ Nothing(seen) /\ seen.MacState = {}
      /\ IsResent(n) \/ IsPutOff(n) \/ IsAwaited(n) =>
           InvOf(seen, {}, {}, "idle", frame) /\ seen.MacState # {}
  BY <1>5, <1>6, SeenIs
<1>8. r = seen \/ (n.ind.ok /\ r = s)
  <2>1. IsMac(seen) /\ class = seen.DeviceClass
    BY <1>4, <1>7 DEF Fields
  <2>2. LmHandlerRequestClass(seen, class) = seen
    BY <2>1, RequestClassIs
  <2> QED BY <1>6, <2>2
<1>9. InvOf(r, {}, {}, "idle", frame) /\ Rule(mac, r)
  <2>1. ASSUME IsIdle(n)
        PROVE  InvOf(seen, {}, {}, "idle", frame)
    BY <1>7, <2>1 DEF InvOf, Stage, EventInv, Work
  <2>2. CounterRule(mac, seen)
    BY <1>5, <1>7 DEF CounterRule, StaysPut
  <2>3. CASE IsIdle(n) /\ JoinIsOver(mac, n) /\ n.hist.onAir = mac.hist.onAir /\ ~n.ind.ok
    <3>1. r = seen
      BY <1>8, <2>3
    <3>2. JoinIsOver(mac, seen)
      BY <1>7, <2>3 DEF JoinIsOver, StaysPut
    <3> QED BY <2>1, <2>2, <2>3, <3>1, <3>2 DEF Rule
  <2>4. CASE IsIdle(n) /\ UplinkIsOver(mac, n) /\ n.hist.onAir = mac.hist.onAir
    <3>1. UplinkIsOver(mac, seen) /\ seen.hist.onAir = mac.hist.onAir
      BY <1>7, <2>4 DEF UplinkIsOver, StaysPut
    <3>2. CASE r = seen
      BY <2>1, <2>2, <2>4, <3>1, <3>2 DEF Rule
    <3>3. CASE n.ind.ok /\ r = s
      <4>1. seen.joined /\ seen.MacState = {}
        BY <1>7, <2>4, <3>3 DEF Fields
      <4>2. r = LoRaMacMcpsRequest(seen, "UNCONFIRMED", TRUE, flush)
        BY <3>3, <4>1 DEF LmHandlerSend, LoRaMacIsBusy
      <4>3. /\ InvOf(r, {}, {}, "idle", frame) /\ CounterRule(seen, r)
            /\ GoesUnseen(seen, r) \/ UplinkIsTaken(seen, r)
        BY <1>4, <1>7, <2>4, <4>1, <4>2, FreeSends DEF Types
      <4> QED BY <3>1, <4>3, UplinkIsFollowed
    <3> QED BY <1>8, <3>2, <3>3
  <2>5. CASE (IsResent(n) \/ IsPutOff(n) \/ IsAwaited(n)) /\ GoesUnseen(mac, n)
    <3>1. InvOf(seen, {}, {}, "idle", frame) /\ seen.MacState # {}
      BY <1>7, <2>5
    <3>2. s = seen
      BY <3>1 DEF LmHandlerSend, LoRaMacIsBusy
    <3>3. r = seen
      BY <1>8, <3>2
    <3>4. GoesUnseen(mac, seen)
      BY <1>7, <2>5 DEF GoesUnseen, StaysPut
    <3> QED BY <2>2, <3>1, <3>3, <3>4 DEF Rule
  <2> QED BY <1>5, <2>3, <2>4, <2>5
<1>10. mac' = r
  <2>1. IsMac(r) /\ r.RxSlot # "CLASS_C"
    BY <1>9 DEF InvOf, Fields, Stage, IsFree, IsDelayed, IsSending, IsSent, IsPausing, IsListening,
                InWindow, HasHeard, IsOver, Windows
  <2> QED BY <1>2, <2>1, ReopensIs DEF n, r
<1> QED BY <1>1, <1>3, <1>9, <1>10

(* LmHandlerJoin() of the application. *)
LEMMA AppJoinsStep ==
  ASSUME ClassAInv, AppJoins
  PROVE  ClassAInv' /\ Rule(mac, mac')
<1> USE DEF ClassAInv
<1>1. PICK outcome \in Outcomes : mac' = LmHandlerJoin(mac, outcome)
  BY DEF AppJoins
<1>2. /\ pc = "idle" /\ mac.MacState = {"STOPPED"}
      /\ UNCHANGED <<radioEvents, frame, pc, taken>>
  BY DEF AppJoins, ThreadAt
<1>3. IsFree(mac) /\ radioEvents = {} /\ taken = {}
  BY <1>2 DEF InvOf, Stage, IsDelayed, IsSending, IsSent, IsPausing, IsListening, InWindow,
              HasHeard, IsOver, Running
<1>4. Nothing(mac) /\ ~mac.joined
  <2>1. Nothing(mac)
    BY <1>2 DEF InvOf, Work, Joining, Uplink
  <2> QED BY <1>2, <2>1 DEF Nothing
<1> DEFINE n == LmHandlerJoin(mac, outcome)
<1>5. /\ InvOf(n, {}, {}, "idle", frame) /\ n.hist.onAir = mac.hist.onAir
      /\ GoesUnseen(mac, n) \/ JoinIsAsked(mac, n)
  BY <1>3, <1>4, FreeJoins DEF InvOf
<1> HIDE DEF n
<1>6. Rule(mac, n)
  BY <1>5 DEF Rule, CounterRule
<1>7. mac' = n
  BY <1>1 DEF n
<1> QED BY <1>2, <1>3, <1>5, <1>6, <1>7

(* LmHandlerSend() of the application. *)
LEMMA AppSendsStep ==
  ASSUME ClassADevice, ClassAInv, AppSends
  PROVE  ClassAInv' /\ Rule(mac, mac')
<1> USE DEF ClassAInv
<1>1. PICK type \in AppTypes, outcome \in Outcomes :
        \E allowDelayedTx \in {FALSE} \cup {type \in DelayedTypes} :
          mac' = LmHandlerSend(mac, type, allowDelayedTx, outcome)
  BY DEF AppSends
<1>2. PICK allow \in {FALSE} \cup {type \in DelayedTypes} :
        mac' = LmHandlerSend(mac, type, allow, outcome)
  BY <1>1
<1>3. pc = "idle" /\ UNCHANGED <<radioEvents, frame, pc, taken>>
  BY DEF AppSends, ThreadAt
<1>4. type \in Types /\ allow \in BOOLEAN /\ outcome # "NO_WAIT_TIME"
  BY LoRaMacAssumption DEF ClassADevice
<1> DEFINE n == LmHandlerSend(mac, type, allow, outcome)
<1>5. CASE mac.MacState # {}
  <2>1. n = mac
    BY <1>5 DEF LmHandlerSend, LoRaMacIsBusy
  <2>2. mac' = mac
    BY <1>2, <2>1
  <2>3. StaysPut(mac, mac)
    BY DEF StaysPut
  <2> QED BY <1>3, <2>2, <2>3, PutIsRule
<1>6. CASE mac.MacState = {}
  <2>1. IsFree(mac) /\ radioEvents = {} /\ taken = {}
    BY <1>3, <1>6 DEF InvOf, Stage, IsDelayed, IsSending, IsSent, IsPausing, IsListening, InWindow,
                      HasHeard, IsOver, Running
  <2>2. Nothing(mac)
    BY <1>6 DEF InvOf, Work, Joining, Uplink
  <2>3. /\ InvOf(n, {}, {}, "idle", frame) /\ CounterRule(mac, n)
        /\ GoesUnseen(mac, n) \/ JoinIsAsked(mac, n) \/ UplinkIsTaken(mac, n)
    <3>1. CASE mac.joined
      <4>1. n = LoRaMacMcpsRequest(mac, type, allow, outcome)
        BY <1>6, <3>1 DEF LmHandlerSend, LoRaMacIsBusy
      <4> HIDE DEF n
      <4> QED BY <1>4, <2>1, <2>2, <3>1, <4>1, FreeSends DEF InvOf
    <3>2. CASE ~mac.joined
      <4>1. n = LmHandlerJoin(mac, outcome)
        BY <1>6, <3>2 DEF LmHandlerSend, LoRaMacIsBusy
      <4> HIDE DEF n
      <4>2. /\ InvOf(n, {}, {}, "idle", frame) /\ n.hist.onAir = mac.hist.onAir
            /\ GoesUnseen(mac, n) \/ JoinIsAsked(mac, n)
        BY <2>1, <2>2, <3>2, <4>1, FreeJoins DEF InvOf
      <4> QED BY <4>2 DEF CounterRule
    <3> QED BY <3>1, <3>2
  <2> HIDE DEF n
  <2>4. Rule(mac, n)
    BY <2>3 DEF Rule
  <2>5. mac' = n
    BY <1>2 DEF n
  <2> QED BY <1>3, <2>1, <2>3, <2>4, <2>5
<1> QED BY <1>5, <1>6

-----------------------------------------------------------------------------
(* The invariant, and what follows from it.                                *)

(* Every step keeps the invariant, and is one the upper layer may see. *)
LEMMA ClassAStep ==
  ASSUME ClassADevice, ClassAInv, [Next]_vars
  PROVE  ClassAInv' /\ Rule(mac, mac')
<1>1. ASSUME ClassAInv', StaysPut(mac, mac')
      PROVE  ClassAInv' /\ Rule(mac, mac')
  BY <1>1, PutIsRule
<1>2. CASE Thread
  <2>1. CASE MacTakesEvents
    BY <1>1, <2>1, TakeStep
  <2>2. CASE MacHandlesTxDone
    BY <1>1, <2>2, TxDoneStep
  <2>3. CASE MacHandlesRxDone
    BY <1>1, <2>3, AnswerStep, DataStep, StrayStep
  <2>4. CASE MacHandlesTxTimeout
    BY <1>1, <2>4, TxTimeoutStep
  <2>5. CASE MacHandlesNoReception
    BY <1>1, <2>5, NoReceptionStep
  <2>6. CASE MacUpdatesSlot
    BY <1>1, <2>6, SlotStep
  <2>7. CASE MacFinishes
    BY <2>7, UnfinishedIsLeft, FinishedIsSettled
  <2> QED BY <1>2, <2>1, <2>2, <2>3, <2>4, <2>5, <2>6, <2>7 DEF Thread
<1>3. CASE AppJoins
  BY <1>3, AppJoinsStep
<1>4. CASE AppSends
  BY <1>4, AppSendsStep
<1>5. CASE Radio
  BY <1>1, <1>5, RadioTxDoneStep, RadioTxTimeoutStep, ReceptionStep, NoLongFrame DEF Radio
<1>6. CASE Timers
  <2>1. CASE TxDelayedTimer
    BY <2>1, TxDelayedStep
  <2> QED BY <1>1, <1>6, <2>1, TimeStep, Window1Step, Window2Step, AckStep DEF Timers
<1>7. CASE UNCHANGED vars
  <2>1. mac' = mac /\ ClassAInv'
    BY <1>7 DEF vars, ClassAInv
  <2>2. StaysPut(mac, mac')
    BY <2>1 DEF StaysPut
  <2> QED BY <1>1, <2>1, <2>2
<1> QED BY <1>2, <1>3, <1>4, <1>5, <1>6, <1>7 DEF Next

(* The device starts with nothing asked. *)
LEMMA ClassAInit ==
  ASSUME Init
  PROVE  ClassAInv
<1>1. Fields(mac)
  <2>1. IsMac(mac)
    BY DEF Init, IsMac, MacFields, HistFields
  <2>2. /\ mac.joined = FALSE /\ mac.NodeAckRequested = FALSE /\ mac.AckTimeoutRetry = FALSE
        /\ mac.ind.ok = FALSE /\ mac.confirm.ack = FALSE /\ mac.confirm.type = "UNCONFIRMED"
        /\ mac.DeviceClass = "A"
    BY DEF Init
  <2>3. /\ mac.joined \in BOOLEAN /\ mac.NodeAckRequested \in BOOLEAN
        /\ mac.AckTimeoutRetry \in BOOLEAN /\ mac.ind.ok \in BOOLEAN /\ ~mac.ind.ok
        /\ mac.confirm.ack \in BOOLEAN
    BY <2>2, Zenon
  <2>4. /\ mac.nbTrans \in Nat /\ mac.retries \in Nat \ {0} /\ mac.FCntUp \in Nat
        /\ mac.hist.uplink \in Nat /\ mac.hist.tries \in Nat
    BY DEF Init
  <2> QED BY <2>1, <2>2, <2>3, <2>4 DEF Fields, Types
<1>2. Stage(mac, {}, {}, "idle") /\ Nothing(mac)
  BY DEF Init, Stage, IsFree, Rests, Unfinished, Nothing
<1>3. CounterInv(mac)
  <2>1. mac.hist.onAir = [frame |-> 0, fCnt |-> mac.FCntUp] /\ 0 <= mac.hist.uplink
    BY DEF Init, NoUplink
  <2> QED BY <2>1 DEF CounterInv
<1>4. Spent(mac)
  BY DEF Init, Spent, NoVerdict
<1>5. radioEvents = {} /\ taken = {} /\ pc = "idle"
  BY DEF Init
<1> QED BY <1>1, <1>2, <1>3, <1>4, <1>5 DEF ClassAInv, InvOf, EventInv, Work

(* A device of class A is always in a stage of a transmission, with the    *)
(* events, the timers and the work of the upper layer that belong to it.   *)
THEOREM StagesInOrder ==
  ASSUME ClassADevice
  PROVE  Spec => []ClassAInv
<1>1. Init => ClassAInv
  BY ClassAInit
<1>2. ClassAInv /\ [Next]_vars => ClassAInv'
  BY ClassAStep
<1> QED BY <1>1, <1>2, PTL DEF Spec

(* When LoRaMacIsBusy() lets a request in, no timer, no time-out and no    *)
(* event of the radio is left of the last one.                             *)
THEOREM FreeIsQuiet ==
  ASSUME ClassADevice
  PROVE  Spec => []QuietWhenFree
<1>1. ClassAInv => QuietWhenFree
  <2> SUFFICES ASSUME ClassAInv, pc = "idle", mac.MacState = {}
               PROVE  /\ mac.timers = {} /\ mac.radioTimers = {} /\ radioEvents = {}
                      /\ mac.radio \in {"idle", "rxc"}
    BY DEF QuietWhenFree, ThreadAt, LoRaMacIsBusy
  <2>1. IsFree(mac) /\ radioEvents = {}
    BY DEF ClassAInv, InvOf, Stage, IsDelayed, IsSending, IsSent, IsPausing, IsListening, InWindow,
           HasHeard, IsOver, Running
  <2> QED BY <2>1 DEF IsFree, Rests
<1> QED BY <1>1, StagesInOrder, PTL

(* A confirmed uplink is reported when it is acknowledged, when it was     *)
(* sent NbTrials times, or when it could not be scheduled again.           *)
THEOREM TrialsAreSpent ==
  ASSUME ClassADevice
  PROVE  Spec => []RetriesAreSpent
<1>1. ClassAInv => RetriesAreSpent
  BY DEF ClassAInv, InvOf, Spent, RetriesAreSpent
<1> QED BY <1>1, StagesInOrder, PTL

(* No two uplinks go out under one counter, and the counter grows from one *)
(* uplink to the next.                                                     *)
THEOREM CountersAreFresh ==
  ASSUME ClassADevice
  PROVE  Spec => CounterPerFrame
<1>1. ClassAInv /\ [Next]_vars =>
        [mac'.hist.onAir \notin {mac.hist.onAir, NoUplink} =>
           /\ mac'.hist.onAir.frame # mac.hist.onAir.frame
           /\ mac'.hist.onAir.fCnt > mac.hist.onAir.fCnt]_vars
  BY ClassAStep DEF Rule, CounterRule
<1> QED BY <1>1, StagesInOrder, PTL DEF Spec, CounterPerFrame

(* What the invariant says of the variables of LoRaMacService. *)
LEMMA WorkIs ==
  ASSUME NEW m, NEW new, NEW old, NEW place, NEW kind, InvOf(m, new, old, place, kind)
  PROVE  /\ JoinWaits(m) <=> m.queue # <<>>
         /\ m.hist.uplink \in Nat /\ m.hist.owed \in {0, 1}
         /\ JoinWaits(m) => m.hist.owed = 0
<1>1. CASE Nothing(m)
  BY <1>1 DEF Nothing, JoinWaits, InvOf, Fields
<1>2. CASE Joining(m, new, old)
  <2>1. m.queue # <<>>
    BY <1>2, NotEmpty DEF Joining
  <2> QED BY <1>2, <2>1 DEF Joining, JoinWaits, InvOf, Fields
<1>3. CASE Uplink(m)
  BY <1>3 DEF Uplink, JoinWaits, InvOf, Fields
<1> QED BY <1>1, <1>2, <1>3 DEF InvOf, Work

(* A step the upper layer may see is a step of the service. *)
LEMMA RuleIsService ==
  ASSUME ClassAInv, ClassAInv', Rule(mac, mac')
  PROVE  [Service!Next]_(Service!vars)
<1>1. /\ JoinWaits(mac) <=> mac.queue # <<>>
      /\ mac.hist.uplink \in Nat /\ mac.hist.owed \in {0, 1}
      /\ JoinWaits(mac) => mac.hist.owed = 0
  BY WorkIs DEF ClassAInv
<1>2. /\ JoinWaits(mac') <=> mac'.queue # <<>>
      /\ mac'.hist.uplink \in Nat /\ mac'.hist.owed \in {0, 1}
  BY WorkIs DEF ClassAInv
<1>3. mac.joined \in BOOLEAN /\ mac'.joined \in BOOLEAN
  BY DEF ClassAInv, InvOf, Fields
<1>4. CASE GoesUnseen(mac, mac')
  BY <1>1, <1>2, <1>4 DEF GoesUnseen, Service!vars
<1>5. CASE JoinIsAsked(mac, mac')
  <2>1. Service!AcceptJoin
    <3>1. /\ mac.joined = FALSE /\ mac'.joined = FALSE /\ mac.hist.owed = 0
          /\ mac'.hist.owed = 0 /\ mac'.hist.uplink = mac.hist.uplink
      BY <1>5 DEF JoinIsAsked
    <3>2. mac.queue = <<>> /\ mac'.queue # <<>>
      BY <1>1, <1>2, <1>5 DEF JoinIsAsked
    <3>3. Service!Free
      BY <1>1, <3>1, <3>2 DEF Service!Free
    <3>4. /\ mac'.hist.uplink - mac'.hist.owed = mac.hist.uplink - mac.hist.owed
          /\ (mac'.queue # <<>>) = TRUE /\ mac'.joined = mac.joined /\ ~mac.joined
      BY <3>1, <3>2
    <3> QED BY <3>1, <3>3, <3>4 DEF Service!AcceptJoin
  <2> QED BY <2>1 DEF Service!Next
<1>6. CASE NetworkAnswered(mac, mac')
  <2>1. Service!NetworkAnswers
    BY <1>1, <1>2, <1>6 DEF NetworkAnswered, Service!NetworkAnswers
  <2> QED BY <2>1 DEF Service!Next
<1>7. CASE JoinIsOver(mac, mac')
  <2>1. Service!ConfirmJoin
    BY <1>1, <1>2, <1>7 DEF JoinIsOver, Service!ConfirmJoin
  <2> QED BY <2>1 DEF Service!Next, Service!Confirms
<1>8. CASE UplinkIsTaken(mac, mac')
  <2>1. Service!AcceptUplink
    <3>1. /\ mac.joined = TRUE /\ mac'.joined = TRUE /\ mac.hist.owed = 0
          /\ mac'.hist.owed = 1 /\ mac'.hist.uplink = mac.hist.uplink + 1
      BY <1>8 DEF UplinkIsTaken
    <3>2. mac.queue = <<>> /\ mac'.queue = <<>>
      BY <1>1, <1>2, <1>8 DEF UplinkIsTaken
    <3>3. Service!Free
      BY <1>1, <3>1, <3>2 DEF Service!Free
    <3>4. /\ mac'.hist.uplink - mac'.hist.owed = mac.hist.uplink - mac.hist.owed
          /\ (mac'.queue # <<>>) = (mac.queue # <<>>)
      BY <1>1, <3>1, <3>2
    <3>5. mac'.joined = mac.joined
      BY <3>1, Zenon
    <3>6. mac.joined
      BY <3>1, Zenon
    <3> QED BY <3>1, <3>3, <3>4, <3>5, <3>6 DEF Service!AcceptUplink
  <2> QED BY <2>1 DEF Service!Next
<1>9. CASE UplinkIsOver(mac, mac')
  <2>1. Service!ConfirmUplink
    BY <1>1, <1>2, <1>9 DEF UplinkIsOver, Service!ConfirmUplink
  <2> QED BY <2>1 DEF Service!Next, Service!Confirms
<1>10. CASE UplinkIsAnswered(mac, mac')
  <2>1. Service!ConfirmAndAnswer
    <3>1. /\ mac.joined = TRUE /\ mac'.joined = TRUE /\ mac.hist.owed = 1
          /\ mac'.hist.owed = 1 /\ mac'.hist.uplink = mac.hist.uplink + 1
      BY <1>10 DEF UplinkIsAnswered
    <3>2. (mac'.queue # <<>>) = (mac.queue # <<>>)
      BY <1>1, <1>2, <1>10 DEF UplinkIsAnswered
    <3>3. /\ mac'.hist.uplink - mac'.hist.owed = (mac.hist.uplink - mac.hist.owed) + 1
          /\ mac.hist.uplink - mac.hist.owed < mac.hist.uplink
      BY <1>1, <3>1
    <3>4. mac'.joined = mac.joined
      BY <3>1, Zenon
    <3>5. mac.joined
      BY <3>1, Zenon
    <3> QED BY <3>1, <3>2, <3>3, <3>4, <3>5 DEF Service!ConfirmAndAnswer
  <2> QED BY <2>1 DEF Service!Next, Service!Confirms
<1> QED BY <1>4, <1>5, <1>6, <1>7, <1>8, <1>9, <1>10 DEF Rule

(* The MAC implements the service of LoRaMac.h: a request it accepts is    *)
(* confirmed once, before it accepts the next one, and a device joins by   *)
(* an answer to its join request.                                          *)
THEOREM ServiceIsKept ==
  ASSUME ClassADevice
  PROVE  Spec => Service!SafeSpec
<1>1. Init => Service!Init
  BY DEF Init, Service!Init
<1>2. ClassAInv /\ [Next]_vars => [Service!Next]_(Service!vars)
  <2> SUFFICES ASSUME ClassAInv, [Next]_vars
               PROVE  [Service!Next]_(Service!vars)
    OBVIOUS
  <2>1. ClassAInv' /\ Rule(mac, mac')
    BY ClassAStep
  <2> QED BY <2>1, RuleIsService
<1> QED BY <1>1, <1>2, StagesInOrder, PTL DEF Spec, Service!SafeSpec

-----------------------------------------------------------------------------
(* While the radio sends, no other timer runs, and the only event of the   *)
(* radio that may wait to be handled is the time-out.                      *)
LEMMA WhileItSends ==
  ASSUME ClassAInv, mac.radio = "tx"
  PROVE  /\ IsSending(mac) /\ pc # "slot"
         /\ radioEvents \cup taken \subseteq {"TxTimeout"}
BY DEF ClassAInv, InvOf, Stage, Rests, IsFree, IsDelayed, IsSent, IsPausing, IsListening,
       HasHeard, IsOver

(* What the thread does then, but for the time-out. *)
LEMMA ThreadLeavesTheAir ==
  ASSUME ClassADevice, ClassAInv, mac.radio = "tx", Thread, ~MacHandlesTxTimeout
  PROVE  mac'.radio = "tx"
<1>1. IsSending(mac) /\ pc # "slot" /\ taken \subseteq {"TxTimeout"}
  BY WhileItSends
<1>2. CASE MacTakesEvents
  <2>1. IsMac(mac)
    BY DEF ClassAInv, InvOf, Fields
  <2>2. mac' = [mac EXCEPT !.notified = FALSE]
    BY <1>2 DEF MacTakesEvents
  <2> QED BY <2>1, <2>2 DEF IsMac, MacFields
<1>3. ~MacHandlesTxDone /\ ~MacHandlesRxDone /\ ~MacHandlesNoReception
  BY <1>1 DEF MacHandlesTxDone, MacHandlesRxDone, MacHandlesNoReception, MacHandles, IsNext
<1>4. ~MacUpdatesSlot
  BY <1>1 DEF MacUpdatesSlot, ThreadAt
<1>5. CASE MacFinishes
  <2>1. PICK repeat \in Outcomes, flush \in Outcomes, class \in AppClasses \cup {mac.DeviceClass} :
          mac' = MacReopensRxC(
                   LoRaMacHandleIndicationEvents(MacDoneIsHandled(mac, repeat), class, flush))
    BY <1>5 DEF MacFinishes
  <2> DEFINE seen == [mac EXCEPT !.MacFlags = @ \ {"McpsInd"}]
  <2>2. MacDoneIsHandled(mac, repeat) = mac
    BY <1>1 DEF MacDoneIsHandled, IsSending, Running, Unfinished
  <2>3. /\ LoRaMacHandleIndicationEvents(mac, class, flush) = seen
        /\ Changes(mac, seen, {"MacFlags"})
    <3>1. IsMac(mac) /\ "McpsInd" \notin mac.MacFlags
      BY <1>1 DEF ClassAInv, InvOf, Fields, IsSending, Running, Unfinished
    <3> QED BY <3>1, IndicationIs
  <2> HIDE DEF seen
  <2>4. seen.radio = "tx" /\ seen.RxSlot = "NONE" /\ IsMac(seen)
    BY <1>1, <2>3 DEF Changes, MacFields, IsSending
  <2>5. mac' = seen
    BY <2>1, <2>2, <2>3, <2>4, ReopensIs
  <2> QED BY <2>4, <2>5
<1> QED BY <1>2, <1>3, <1>4, <1>5 DEF Thread

(* A frame on the air is cut by nothing but the time-out of its            *)
(* transmission.                                                           *)
THEOREM TheAirIsLeft ==
  ASSUME ClassADevice
  PROVE  Spec => TransmissionUndisturbed
<1>1. ASSUME ClassAInv, [Next]_vars, mac.radio = "tx", mac'.radio # "tx"
      PROVE  RadioTxDone \/ MacHandlesTxTimeout
  <2> SUFFICES ASSUME ~RadioTxDone, ~MacHandlesTxTimeout
               PROVE  FALSE
    OBVIOUS
  <2>1. IsSending(mac) /\ pc # "slot" /\ IsMac(mac)
    BY <1>1, WhileItSends DEF ClassAInv, InvOf, Fields
  <2>2. ~Thread
    BY <1>1, ThreadLeavesTheAir
  <2>3. ~AppJoins
    BY <2>1 DEF AppJoins, IsSending, Running
  <2>4. ~AppSends
    <3> SUFFICES ASSUME AppSends
                 PROVE  FALSE
      OBVIOUS
    <3>1. PICK type \in AppTypes, outcome \in Outcomes :
            \E allowDelayedTx \in {FALSE} \cup {type \in DelayedTypes} :
              mac' = LmHandlerSend(mac, type, allowDelayedTx, outcome)
      BY DEF AppSends
    <3>2. PICK allow \in {FALSE} \cup {type \in DelayedTypes} :
            mac' = LmHandlerSend(mac, type, allow, outcome)
      BY <3>1
    <3>3. LmHandlerSend(mac, type, allow, outcome) = mac
      BY <2>1 DEF LmHandlerSend, LoRaMacIsBusy, IsSending, Running
    <3> QED BY <1>1, <3>2, <3>3
  <2>5. ~Radio
    <3>1. ~RadioRxDone /\ ~RadioCrcError /\ ~RadioRxTimeout
      BY <1>1 DEF RadioRxDone, RadioCrcError, RadioRxTimeout, Receiving
    <3>2. ~RadioOnRxTimeoutIrq
      BY <1>1, NoLongFrame
    <3>3. ~RadioOnTxTimeoutIrq
      <4> SUFFICES ASSUME RadioOnTxTimeoutIrq
                   PROVE  FALSE
        OBVIOUS
      <4>1. mac' = [[mac EXCEPT !.radioTimers = @ \ {"tx"}] EXCEPT !.notified = TRUE]
        BY DEF RadioOnTxTimeoutIrq, Interrupt
      <4> QED BY <1>1, <2>1, <4>1 DEF IsMac, MacFields
    <3> QED BY <3>1, <3>2, <3>3 DEF Radio
  <2>6. ~Timers
    <3>1. CASE TimePasses
      <4>1. mac' = [mac EXCEPT !.late = TRUE]
        BY <3>1 DEF TimePasses, TimerInterrupt
      <4> QED BY <1>1, <2>1, <4>1 DEF IsMac, MacFields
    <3>2. mac.timers = {}
      BY <2>1 DEF IsSending
    <3> QED BY <3>1, <3>2 DEF Timers, OnRxWindow1TimerEvent, OnRxWindow2TimerEvent,
                              AckTimeoutTimer, TxDelayedTimer
  <2>7. ~UNCHANGED vars
    BY <1>1 DEF vars
  <2> QED BY <1>1, <2>2, <2>3, <2>4, <2>5, <2>6, <2>7 DEF Next
<1>2. ClassAInv /\ [Next]_vars =>
        [mac.radio = "tx" /\ mac'.radio # "tx" => RadioTxDone \/ MacHandlesTxTimeout]_vars
  BY <1>1
<1> QED BY <1>2, StagesInOrder, PTL DEF Spec, TransmissionUndisturbed

-----------------------------------------------------------------------------
(* What the upper layer is told of an uplink that is over.                 *)

(* "OK" is not said, nor will it be of the uplink at hand, unless a        *)
(* transmission of it was completed.                                       *)
Earned(m) ==
  /\ m.hist.verdict.ok => m.hist.verdict.sent
  /\ "McpsReq" \in m.MacFlags /\ m.confirm.ok => m.hist.sent

(* A transmission is over, and its state is not finished. *)
AfterTx(m) == m.MacState = {"TX_RUNNING"} /\ "MacDone" \notin m.MacFlags /\ m.radio # "tx"

Sincere(m) == Earned(m) /\ ("McpsReq" \in m.MacFlags /\ AfterTx(m) => m.hist.sent)

(* A step that tells nothing of the uplink keeps it so, ... *)
LEMMA CalmIsSincere ==
  ASSUME NEW m, NEW n, Earned(m), AfterTx(n) => Sincere(m) /\ AfterTx(m),
         n.hist.verdict = m.hist.verdict, n.hist.sent = m.hist.sent,
         "McpsReq" \in n.MacFlags => "McpsReq" \in m.MacFlags,
         n.confirm.ok => m.confirm.ok
  PROVE  Sincere(n)
BY DEF Sincere, Earned

(* ... and so does one after which it is not OK, or there is none. *)
LEMMA NotOkIsSincere ==
  ASSUME NEW m, NEW n, Earned(m), n.hist.verdict = m.hist.verdict,
         "McpsReq" \in n.MacFlags => ~n.confirm.ok /\ ~AfterTx(n)
  PROVE  Sincere(n)
BY DEF Sincere, Earned

(* OnTxDelayedTimerEvent() *)
LEMMA TxDelayedIsSincere ==
  ASSUME NEW m, IsMac(m), Earned(m), NEW outcome, outcome # "NO_WAIT_TIME"
  PROVE  LET n == OnTxDelayedTimerEvent(m, outcome)
         IN  IsMac(n) /\ Sincere(n)
<1> DEFINE n == OnTxDelayedTimerEvent(m, outcome)
           w == Woken(m)
<1>1. /\ Changes(m, w, {"timers", "MacState"})
      /\ \/ n = SendFrameOnChannel(w)
         \/ n = Postponed(w)
         \/ /\ Changes(m, n, {"timers", "MacState", "confirm", "queue", "hist", "nbTrans",
                              "NodeAckRequested", "AckTimeoutRetry"})
            /\ n.MacState = m.MacState \ {"TX_DELAYED", "TX_RUNNING"}
            /\ n.confirm.ok = FALSE /\ Notes(m, n, {"gaveUp"})
  BY TxDelayedIs
<1> HIDE DEF n, w
<1>2. /\ IsMac(w) /\ w.hist = m.hist /\ w.confirm = m.confirm /\ w.MacFlags = m.MacFlags
  BY <1>1 DEF Changes, MacFields
<1>3. Earned(w)
  BY <1>2 DEF Earned
<1>4. CASE n = SendFrameOnChannel(w)
  <2>1. /\ Changes(w, n, {"radio", "radioTimers", "MacState", "nbTrans", "confirm", "FCntUp",
                          "hist"})
        /\ Notes(w, n, {"onAir", "tries"}) /\ n.radio = "tx" /\ n.confirm.ok = FALSE
    BY <1>2, <1>4, SendFrameIs
  <2>2. IsMac(n) /\ n.hist.verdict = w.hist.verdict /\ ~n.confirm.ok /\ ~AfterTx(n)
    BY <2>1 DEF Changes, Notes, HistFields, AfterTx
  <2> QED BY <1>3, <2>2, NotOkIsSincere DEF n
<1>5. CASE n = Postponed(w)
  <2>1. Changes(w, n, {"MacState", "timers"}) /\ n.MacState = w.MacState \cup {"TX_DELAYED"}
    BY <1>2, <1>5, PostponedIs
  <2>2. /\ IsMac(n) /\ n.hist = w.hist /\ n.confirm = w.confirm /\ n.MacFlags = w.MacFlags
        /\ ~AfterTx(n)
    BY <2>1 DEF Changes, MacFields, AfterTx
  <2> QED BY <1>3, <2>2, CalmIsSincere DEF n
<1>6. CASE /\ Changes(m, n, {"timers", "MacState", "confirm", "queue", "hist", "nbTrans",
                              "NodeAckRequested", "AckTimeoutRetry"})
           /\ n.MacState = m.MacState \ {"TX_DELAYED", "TX_RUNNING"}
           /\ n.confirm.ok = FALSE /\ Notes(m, n, {"gaveUp"})
  <2>1. IsMac(n) /\ n.hist.verdict = m.hist.verdict /\ ~n.confirm.ok /\ ~AfterTx(n)
    BY <1>6 DEF Changes, Notes, HistFields, AfterTx
  <2> QED BY <2>1, NotOkIsSincere DEF n
<1> QED BY <1>1, <1>4, <1>5, <1>6

(* LmHandlerJoin() *)
LEMMA JoinIsSincere ==
  ASSUME NEW m, IsMac(m), Earned(m), NEW outcome
  PROVE  LET n == LmHandlerJoin(m, outcome)
         IN  IsMac(n) /\ Sincere(n)
<1> DEFINE n == LmHandlerJoin(m, outcome)
           r == Rejoining(m)
           s == SendFrameOnChannel(r)
<1>1. \/ Changes(m, n, {"MacState"}) /\ n.MacState = {}
      \/ Changes(s, n, {"queue", "hist"}) /\ Notes(s, n, {"joins"})
      \/ /\ Changes(r, n, {"MacFlags"})
         /\ n.MacFlags = IF m.queue = <<>> THEN m.MacFlags \ {"MlmeReq"} ELSE r.MacFlags
  BY JoinIs
<1>2. /\ Changes(m, r, {"radio", "DeviceClass", "MacState", "MacFlags", "joined", "msg", "nbTrans",
                        "maxRetries", "retries", "AckTimeoutRetry", "NodeAckRequested"})
      /\ r.MacState = {} /\ r.MacFlags = m.MacFlags \cup {"MlmeReq"}
  BY RejoiningIs
<1> HIDE DEF n, r
<1>3. IsMac(r) /\ r.hist = m.hist /\ r.confirm = m.confirm
  BY <1>2 DEF Changes, MacFields
<1>4. /\ Changes(r, s, {"radio", "radioTimers", "MacState", "nbTrans", "confirm", "FCntUp", "hist"})
      /\ Notes(r, s, {"onAir", "tries"}) /\ s.radio = "tx" /\ s.confirm.ok = FALSE
  BY <1>3, SendFrameIs
<1> HIDE DEF s
<1>5. CASE Changes(m, n, {"MacState"}) /\ n.MacState = {}
  <2>1. /\ IsMac(n) /\ n.hist = m.hist /\ n.confirm = m.confirm /\ n.MacFlags = m.MacFlags
        /\ ~AfterTx(n)
    BY <1>5 DEF Changes, MacFields, AfterTx
  <2> QED BY <2>1, CalmIsSincere DEF n
<1>6. CASE Changes(s, n, {"queue", "hist"}) /\ Notes(s, n, {"joins"})
  <2>1. /\ IsMac(n) /\ n.hist.verdict = s.hist.verdict /\ n.confirm = s.confirm
        /\ n.radio = "tx"
    BY <1>4, <1>6 DEF Changes, Notes, MacFields, HistFields
  <2>2. s.hist.verdict = m.hist.verdict
    BY <1>3, <1>4 DEF Notes, HistFields
  <2>3. ~n.confirm.ok /\ ~AfterTx(n) /\ n.hist.verdict = m.hist.verdict
    BY <1>4, <2>1, <2>2 DEF AfterTx
  <2> QED BY <2>1, <2>3, NotOkIsSincere DEF n
<1>7. CASE /\ Changes(r, n, {"MacFlags"})
           /\ n.MacFlags = IF m.queue = <<>> THEN m.MacFlags \ {"MlmeReq"} ELSE r.MacFlags
  <2>1. IsMac(n) /\ n.hist = m.hist /\ n.confirm = m.confirm /\ n.MacState = {}
    BY <1>2, <1>3, <1>7 DEF Changes, MacFields
  <2>2. "McpsReq" \in n.MacFlags => "McpsReq" \in m.MacFlags
    BY <1>2, <1>7
  <2>3. ~AfterTx(n)
    BY <2>1 DEF AfterTx
  <2> QED BY <2>1, <2>2, <2>3, CalmIsSincere DEF n
<1> QED BY <1>1, <1>5, <1>6, <1>7

(* LmHandlerSend() *)
LEMMA SendIsSincere ==
  ASSUME NEW m, IsMac(m), Sincere(m), NEW type, NEW allow \in BOOLEAN, NEW outcome,
         outcome # "NO_WAIT_TIME"
  PROVE  LET n == LmHandlerSend(m, type, allow, outcome)
         IN  IsMac(n) /\ Sincere(n)
<1>1. Earned(m)
  BY DEF Sincere
<1>2. CASE m.MacState # {}
  BY <1>2 DEF LmHandlerSend, LoRaMacIsBusy
<1>3. CASE m.MacState = {} /\ ~m.joined
  <2>1. LmHandlerSend(m, type, allow, outcome) = LmHandlerJoin(m, outcome)
    BY <1>3 DEF LmHandlerSend, LoRaMacIsBusy
  <2> QED BY <1>1, <2>1, JoinIsSincere
<1>4. CASE m.MacState = {} /\ m.joined
  <2> DEFINE n == LoRaMacMcpsRequest(m, type, allow, outcome)
  <2>1. LmHandlerSend(m, type, allow, outcome) = n
    BY <1>4 DEF LmHandlerSend, LoRaMacIsBusy
  <2>2. GoesOut(m, n, type) \/ IsPostponed(m, n, type) \/ Refused(m, n)
    BY McpsRequestIs
  <2> HIDE DEF n
  <2>3. IsMac(n) /\ n.confirm.ok = FALSE
    BY <2>2 DEF GoesOut, IsPostponed, Refused, Accepted, Changes
  <2>4. n.hist.verdict = m.hist.verdict
    BY <2>2 DEF GoesOut, IsPostponed, Refused, Accepted, Changes, Notes, MacFields, HistFields
  <2>5. ~AfterTx(n)
    <3>1. CASE GoesOut(m, n, type)
      BY <3>1 DEF GoesOut, AfterTx
    <3>2. CASE IsPostponed(m, n, type)
      BY <3>2 DEF IsPostponed, AfterTx
    <3>3. CASE Refused(m, n)
      BY <1>4, <3>3 DEF Refused, Changes, MacFields, AfterTx
    <3> QED BY <2>2, <3>1, <3>2, <3>3
  <2> QED BY <1>1, <2>1, <2>3, <2>4, <2>5, NotOkIsSincere
<1> QED BY <1>2, <1>3, <1>4

(* LoRaMacHandleMcpsRequest() *)
LEMMA McpsHandledIsSincere ==
  ASSUME NEW m, IsMac(m), Sincere(m), "MacDone" \in m.MacFlags, NEW outcome,
         outcome # "NO_WAIT_TIME"
  PROVE  LET n == LoRaMacHandleMcpsRequest(m, outcome)
         IN  IsMac(n) /\ Sincere(n)
<1>1. ASSUME NEW x, IsMac(x), x.hist = m.hist, x.confirm = m.confirm, x.MacFlags = m.MacFlags
      PROVE  /\ IsMac(StopUplink(x)) /\ Sincere(StopUplink(x))
             /\ IsMac(RepeatUplink(x, outcome)) /\ Sincere(RepeatUplink(x, outcome))
  <2> DEFINE s == StopUplink(x)
             c == Cleared(x)
  <2>1. /\ Changes(x, s, {"timers", "MacState", "nbTrans", "NodeAckRequested", "AckTimeoutRetry"})
        /\ s.MacState = x.MacState \ {"TX_DELAYED", "TX_RUNNING"}
    BY <1>1, StopUplinkIs
  <2>2. /\ RepeatUplink(x, outcome) = OnTxDelayedTimerEvent(c, outcome)
        /\ Changes(x, c, {"MacFlags", "AckTimeoutRetry"}) /\ c.MacFlags = x.MacFlags \ {"MacDone"}
    BY <1>1, RepeatUplinkIs
  <2> HIDE DEF s, c
  <2>3. IsMac(s) /\ Sincere(s)
    <3>1. /\ IsMac(s) /\ s.hist = m.hist /\ s.confirm = m.confirm /\ s.MacFlags = m.MacFlags
          /\ ~AfterTx(s)
      BY <1>1, <2>1 DEF Changes, MacFields, AfterTx
    <3> QED BY <3>1, CalmIsSincere DEF Sincere
  <2>4. IsMac(c) /\ Earned(c)
    <3>1. IsMac(c) /\ c.hist = m.hist /\ c.confirm = m.confirm
      BY <1>1, <2>2 DEF Changes, MacFields
    <3>2. "McpsReq" \in c.MacFlags => "McpsReq" \in m.MacFlags
      BY <1>1, <2>2
    <3> QED BY <3>1, <3>2 DEF Sincere, Earned
  <2>5. IsMac(OnTxDelayedTimerEvent(c, outcome)) /\ Sincere(OnTxDelayedTimerEvent(c, outcome))
    BY <2>4, TxDelayedIsSincere
  <2> QED BY <2>2, <2>3, <2>5 DEF s
<1> DEFINE a == AckTimeoutRetries(m)
<1>2. IsMac(a) /\ a.hist = m.hist /\ a.confirm = m.confirm /\ a.MacFlags = m.MacFlags
  <2>1. Changes(m, a, {"NodeAckRequested", "retries"})
    BY AckTimeoutRetriesIs
  <2> HIDE DEF a
  <2> QED BY <2>1 DEF Changes, MacFields
<1> HIDE DEF a
<1>3. LoRaMacHandleMcpsRequest(m, outcome) \in
        {m, StopUplink(m), RepeatUplink(m, outcome), StopUplink(a), RepeatUplink(a, outcome)}
  BY DEF LoRaMacHandleMcpsRequest, a
<1>4. /\ IsMac(StopUplink(m)) /\ Sincere(StopUplink(m))
      /\ IsMac(RepeatUplink(m, outcome)) /\ Sincere(RepeatUplink(m, outcome))
  BY <1>1
<1>5. /\ IsMac(StopUplink(a)) /\ Sincere(StopUplink(a))
      /\ IsMac(RepeatUplink(a, outcome)) /\ Sincere(RepeatUplink(a, outcome))
  BY <1>1, <1>2
<1> QED BY <1>3, <1>4, <1>5

(* LoRaMacHandleRequestEvents(): here it is told. *)
LEMMA RequestEventsAreSincere ==
  ASSUME NEW m, IsMac(m), Sincere(m)
  PROVE  LET n == LoRaMacHandleRequestEvents(m)
         IN  IsMac(n) /\ Sincere(n)
<1> DEFINE n == LoRaMacHandleRequestEvents(m)
<1>1. CASE m.MacState # {}
  BY <1>1, BusyIsLeft
<1>2. CASE m.MacState = {}
  <2>1. /\ Changes(m, n, {"MacFlags", "hist", "queue", "radio", "RxSlot", "DeviceClass",
                          "NodeAckRequested"})
        /\ n.MacFlags = (m.MacFlags \ {"McpsReq", "MlmeReq", "MacDone"}) \cup
             (IF "MlmeReq" \in m.MacFlags /\ n.queue # <<>> THEN {"MlmeReq"} ELSE {})
        /\ "McpsReq" \notin m.MacFlags => n.hist = m.hist
        /\ "McpsReq" \in m.MacFlags =>
             n.hist.verdict = [type |-> m.confirm.type, ok |-> m.confirm.ok,
                               ack |-> m.confirm.ack, tries |-> m.hist.tries,
                               sent |-> m.hist.sent, gaveUp |-> m.hist.gaveUp]
    BY <1>2, RequestEventsIs
  <2> HIDE DEF n
  <2>2. "McpsReq" \notin n.MacFlags
    BY <2>1
  <2>3. n.hist.verdict.ok => n.hist.verdict.sent
    <3>1. CASE "McpsReq" \in m.MacFlags
      <4>1. n.hist.verdict.ok = m.confirm.ok /\ n.hist.verdict.sent = m.hist.sent
        BY <2>1, <3>1
      <4> QED BY <3>1, <4>1 DEF Sincere, Earned
    <3>2. CASE "McpsReq" \notin m.MacFlags
      BY <2>1, <3>2 DEF Sincere, Earned
    <3> QED BY <3>1, <3>2
  <2>4. IsMac(n)
    BY <2>1 DEF Changes
  <2> QED BY <2>2, <2>3, <2>4 DEF Sincere, Earned, n
<1> QED BY <1>1, <1>2

(* The part of LoRaMacProcess() that MacDone leads to. *)
LEMMA MacDoneIsSincere ==
  ASSUME NEW m, IsMac(m), Sincere(m), NEW outcome, outcome # "NO_WAIT_TIME"
  PROVE  LET n == MacDoneIsHandled(m, outcome)
         IN  IsMac(n) /\ Sincere(n)
<1>1. CASE "MacDone" \notin m.MacFlags
  BY <1>1 DEF MacDoneIsHandled
<1>2. CASE "MacDone" \in m.MacFlags
  <2> DEFINE a == LoRaMacCheckForRxAbort(m)
             b == LoRaMacHandleMlmeRequest(a)
             d == LoRaMacHandleMcpsRequest(b, outcome)
  <2>1. MacDoneIsHandled(m, outcome) = LoRaMacHandleRequestEvents(d)
    BY <1>2 DEF MacDoneIsHandled
  <2>2. Changes(m, a, {"MacState"})
    BY RxAbortIs
  <2> HIDE DEF a
  <2>3. Changes(a, b, {"nbTrans", "MacState"})
    BY <2>2, MlmeRequestIs DEF Changes
  <2> HIDE DEF b
  <2>4. IsMac(b) /\ b.hist = m.hist /\ b.confirm = m.confirm /\ b.MacFlags = m.MacFlags
    BY <2>2, <2>3 DEF Changes, MacFields
  <2>5. ~AfterTx(b)
    BY <1>2, <2>4 DEF AfterTx
  <2>6. Sincere(b)
    BY <2>4, <2>5, CalmIsSincere DEF Sincere
  <2>7. IsMac(d) /\ Sincere(d)
    BY <1>2, <2>4, <2>6, McpsHandledIsSincere
  <2> HIDE DEF d
  <2> QED BY <2>1, <2>7, RequestEventsAreSincere
<1> QED BY <1>1, <1>2

(* The indication, and the answer to it. *)
LEMMA IndicationIsSincere ==
  ASSUME NEW m, IsMac(m), Sincere(m), NEW class, NEW outcome, outcome # "NO_WAIT_TIME"
  PROVE  LET n == LoRaMacHandleIndicationEvents(m, class, outcome)
         IN  IsMac(n) /\ Sincere(n)
<1> DEFINE seen == [m EXCEPT !.MacFlags = @ \ {"McpsInd"}]
           told == LmHandlerRequestClass(seen, class)
           n == LoRaMacHandleIndicationEvents(m, class, outcome)
           s == LmHandlerSend(told, "UNCONFIRMED", TRUE, outcome)
<1>1. /\ Changes(m, seen, {"MacFlags"}) /\ seen.MacFlags = m.MacFlags \ {"McpsInd"}
      /\ n = seen \/ n = told \/ n = s
  BY IndicationIs
<1> HIDE DEF n, seen
<1>2. IsMac(seen) /\ Sincere(seen)
  <2>1. /\ IsMac(seen) /\ seen.hist = m.hist /\ seen.confirm = m.confirm
        /\ seen.MacState = m.MacState /\ seen.radio = m.radio
    BY <1>1 DEF Changes, MacFields
  <2>2. /\ "McpsReq" \in seen.MacFlags => "McpsReq" \in m.MacFlags
        /\ "MacDone" \in m.MacFlags => "MacDone" \in seen.MacFlags
    BY <1>1
  <2>3. AfterTx(seen) => AfterTx(m)
    BY <2>1, <2>2 DEF AfterTx
  <2> QED BY <2>1, <2>2, <2>3, CalmIsSincere DEF Sincere
<1>3. IsMac(told) /\ Sincere(told)
  <2>1. CASE "TX_RUNNING" \in seen.MacState
    BY <1>2, <2>1 DEF LmHandlerRequestClass
  <2>2. CASE "TX_RUNNING" \notin seen.MacState
    <3>1. Changes(seen, told, {"radio", "RxSlot", "DeviceClass", "NodeAckRequested"})
      BY <1>2, RequestClassIs
    <3> HIDE DEF told
    <3>2. /\ IsMac(told) /\ told.hist = seen.hist /\ told.confirm = seen.confirm
          /\ told.MacFlags = seen.MacFlags /\ told.MacState = seen.MacState
      BY <3>1 DEF Changes, MacFields
    <3>3. ~AfterTx(told)
      BY <2>2, <3>2 DEF AfterTx
    <3> QED BY <1>2, <3>2, <3>3, CalmIsSincere DEF Sincere
  <2> QED BY <2>1, <2>2
<1> HIDE DEF told
<1>4. IsMac(s) /\ Sincere(s)
  BY <1>3, SendIsSincere
<1> HIDE DEF s
<1> QED BY <1>1, <1>2, <1>3, <1>4 DEF n

(* The end of LoRaMacProcess() *)
LEMMA FinishIsSincere ==
  ASSUME ClassADevice, IsMac(mac), Sincere(mac), MacFinishes
  PROVE  Sincere(mac')
<1>1. PICK repeat \in Outcomes, flush \in Outcomes, class \in AppClasses \cup {mac.DeviceClass} :
        mac' = MacReopensRxC(
                 LoRaMacHandleIndicationEvents(MacDoneIsHandled(mac, repeat), class, flush))
  BY DEF MacFinishes
<1> DEFINE d == MacDoneIsHandled(mac, repeat)
           i == LoRaMacHandleIndicationEvents(d, class, flush)
           n == MacReopensRxC(i)
<1>2. IsMac(d) /\ Sincere(d)
  BY MacDoneIsSincere DEF ClassADevice
<1> HIDE DEF d
<1>3. IsMac(i) /\ Sincere(i)
  BY <1>2, IndicationIsSincere DEF ClassADevice
<1> HIDE DEF i
<1>4. Changes(i, n, {"radio", "RxSlot"})
  BY <1>3, ReopensIs
<1>5. i.radio = "tx" => n = i
  BY DEF MacReopensRxC, OpenContinuousRxCWindow, RxConfig
<1> HIDE DEF n
<1>6. /\ n.hist = i.hist /\ n.confirm = i.confirm /\ n.MacFlags = i.MacFlags
      /\ n.MacState = i.MacState
  BY <1>4 DEF Changes, MacFields
<1>7. AfterTx(n) => AfterTx(i)
  BY <1>5, <1>6 DEF AfterTx
<1>8. Sincere(n)
  BY <1>3, <1>6, <1>7, CalmIsSincere DEF Sincere
<1> QED BY <1>1, <1>8 DEF n, i, d

(* What the radio reports. *)
LEMMA RadioIsSincere ==
  ASSUME ClassADevice, ClassAInv, Sincere(mac), Radio
  PROVE  Sincere(mac')
<1>1. IsMac(mac)
  BY DEF ClassAInv, InvOf, Fields
<1>2. ASSUME NEW i, Changes(mac, i, {"radio", "radioTimers"}), i.radio = "tx" \/ mac.radio # "tx",
             mac' = [i EXCEPT !.notified = TRUE]
      PROVE  Sincere(mac')
  <2> DEFINE n == [i EXCEPT !.notified = TRUE]
  <2>1. Changes(i, n, {"notified"})
    BY <1>2, NotifiedIs DEF Changes
  <2>2. mac' = n
    BY <1>2
  <2> HIDE DEF n
  <2>3. /\ n.hist = mac.hist /\ n.confirm = mac.confirm /\ n.MacFlags = mac.MacFlags
        /\ n.MacState = mac.MacState /\ n.radio = i.radio
    BY <1>2, <2>1 DEF Changes, MacFields
  <2>4. AfterTx(n) => AfterTx(mac)
    BY <1>2, <2>3 DEF AfterTx
  <2>5. Sincere(n)
    BY <2>3, <2>4, CalmIsSincere DEF Sincere
  <2> QED BY <2>2, <2>5
<1>3. CASE RadioTxDone
  <2> DEFINE i == [mac EXCEPT !.radio = "idle", !.radioTimers = @ \ {"tx"},
                              !.hist.sent = @ \/ mac.msg = "DATA"]
             n == [i EXCEPT !.notified = TRUE]
  <2>1. mac' = n /\ mac.radio = "tx"
    BY <1>3 DEF RadioTxDone, Interrupt
  <2>2. /\ Changes(mac, i, {"radio", "radioTimers", "hist"}) /\ Notes(mac, i, {"sent"})
        /\ mac.msg = "DATA" => i.hist.sent
    BY <1>1 DEF IsMac, MacFields, HistFields, Changes, Notes
  <2> HIDE DEF i
  <2>3. Changes(i, n, {"notified"})
    BY <2>2, NotifiedIs DEF Changes
  <2> HIDE DEF n
  <2>4. /\ n.hist = i.hist /\ n.MacFlags = mac.MacFlags /\ n.hist.verdict = mac.hist.verdict
    BY <2>2, <2>3 DEF Changes, Notes, MacFields, HistFields
  <2>5. "McpsReq" \in mac.MacFlags => n.hist.sent
    <3>1. "McpsReq" \in mac.MacFlags => mac.msg = "DATA"
      BY DEF ClassAInv, InvOf, Work, Nothing, Joining, Uplink
    <3> QED BY <2>2, <2>4, <3>1
  <2>6. Sincere(n)
    BY <2>4, <2>5 DEF Sincere, Earned
  <2> QED BY <2>1, <2>6
<1>4. CASE RadioOnTxTimeoutIrq
  <2> DEFINE i == [mac EXCEPT !.radioTimers = @ \ {"tx"}]
  <2>1. mac' = [i EXCEPT !.notified = TRUE]
    BY <1>4 DEF RadioOnTxTimeoutIrq, Interrupt
  <2>2. Changes(mac, i, {"radio", "radioTimers"}) /\ i.radio = mac.radio
    BY <1>1 DEF IsMac, MacFields, Changes
  <2> HIDE DEF i
  <2> QED BY <1>2, <2>1, <2>2
<1>5. CASE RadioRxDone \/ RadioCrcError \/ RadioRxTimeout
  <2>1. mac' = [Received EXCEPT !.notified = TRUE] /\ mac.radio # "tx"
    BY <1>5 DEF RadioRxDone, RadioCrcError, RadioRxTimeout, Interrupt, Receiving
  <2>2. Changes(mac, Received, {"radio", "radioTimers"})
    BY <1>1 DEF IsMac, MacFields, Changes, Received
  <2> QED BY <1>2, <2>1, <2>2
<1> QED BY <1>3, <1>4, <1>5, NoLongFrame DEF Radio

(* What the thread does with it. *)
LEMMA ThreadIsSincere ==
  ASSUME ClassADevice, ClassAInv, Sincere(mac), Thread
  PROVE  Sincere(mac')
<1>1. IsMac(mac)
  BY DEF ClassAInv, InvOf, Fields
<1>2. CASE MacTakesEvents
  <2> DEFINE n == [mac EXCEPT !.notified = FALSE]
  <2>1. mac' = n
    BY <1>2 DEF MacTakesEvents
  <2>2. Changes(mac, n, {"notified"})
    BY <1>1, NotifiedIs
  <2> HIDE DEF n
  <2>3. /\ n.hist = mac.hist /\ n.confirm = mac.confirm /\ n.MacFlags = mac.MacFlags
        /\ n.MacState = mac.MacState /\ n.radio = mac.radio
    BY <2>2 DEF Changes, MacFields
  <2>4. Sincere(n)
    BY <2>3, CalmIsSincere DEF Sincere, AfterTx
  <2> QED BY <2>1, <2>4
<1>3. CASE MacHandlesTxDone
  <2> DEFINE n == ProcessRadioTxDone(mac)
  <2>1. mac' = n /\ "TxDone" \in taken
    BY <1>3 DEF MacHandlesTxDone, MacHandles, IsNext
  <2>2. Changes(mac, n, {"radio", "timers", "late", "confirm"})
    BY <1>1, TxDoneIs
  <2> HIDE DEF n
  <2>3. AfterTx(mac)
    BY <2>1 DEF ClassAInv, InvOf, Stage, IsSent, Running, Unfinished, Rests, AfterTx
  <2>4. n.hist = mac.hist /\ n.MacFlags = mac.MacFlags
    BY <2>2 DEF Changes, MacFields
  <2> QED BY <2>1, <2>3, <2>4 DEF Sincere, Earned
<1>4. CASE MacHandlesRxDone
  <2> DEFINE n == ProcessRadioRxDone(mac, frame)
  <2>1. mac' = n /\ "RxDone" \in taken
    BY <1>4 DEF MacHandlesRxDone, MacHandles, IsNext
  <2>2. AfterTx(mac)
    BY <2>1 DEF ClassAInv, InvOf, Stage, HasHeard, InWindow, Running, Unfinished, Rests, AfterTx
  <2>3. /\ n.hist.verdict = mac.hist.verdict /\ n.hist.sent = mac.hist.sent
        /\ "McpsReq" \in n.MacFlags => "McpsReq" \in mac.MacFlags
    <3> DEFINE b == RxBegun(mac)
               a == Answered(b, frame)
               e == RxEnded(a)
               p == PrepareRxDoneAbort(b)
    <3>1. Changes(mac, b, {"radio", "confirm", "timers", "ind"})
      BY <1>1, RxBegunIs
    <3>2. n = e \/ n = p
      BY RxDoneIs
    <3> HIDE DEF b, n
    <3>3. IsMac(b) /\ b.hist = mac.hist /\ b.MacFlags = mac.MacFlags
      BY <3>1 DEF Changes, MacFields
    <3>4. /\ IsMac(a) /\ a.hist.verdict = b.hist.verdict /\ a.hist.sent = b.hist.sent
          /\ "McpsReq" \in a.MacFlags => "McpsReq" \in b.MacFlags
      <4>1. \/ Changes(b, a, {"joined", "FCntUp", "hist", "queue"}) /\ Notes(b, a, {"onAir"})
            \/ Changes(b, a, {"queue"})
            \/ /\ Changes(b, a, {"confirm", "ind", "MacFlags"})
               /\ a.MacFlags = b.MacFlags \cup {"McpsInd"}
        BY <3>3, AnsweredChanges
      <4> HIDE DEF a
      <4> QED BY <4>1 DEF Changes, Notes, MacFields, HistFields
    <3> HIDE DEF a
    <3>5. /\ Changes(a, e, {"timers", "AckTimeoutRetry", "MacFlags", "notified", "RxSlot"})
          /\ e.MacFlags = a.MacFlags \cup {"MacDone"}
      BY <3>4, RxEndedIs
    <3>6. /\ Changes(b, p, {"MacState", "timers", "AckTimeoutRetry", "MacFlags", "notified",
                            "RxSlot"})
          /\ p.MacFlags = b.MacFlags \cup {"McpsInd", "MacDone"}
      BY <3>3, RxDoneAbortIs
    <3> HIDE DEF e, p
    <3>7. e.hist = a.hist /\ p.hist = b.hist
      BY <3>5, <3>6 DEF Changes, MacFields
    <3> QED BY <3>2, <3>3, <3>4, <3>5, <3>6, <3>7
  <2> HIDE DEF n
  <2> QED BY <2>1, <2>2, <2>3 DEF Sincere, Earned
<1>5. CASE MacHandlesTxTimeout
  <2> DEFINE n == ProcessRadioTxTimeout(mac)
  <2>1. mac' = n
    BY <1>5 DEF MacHandlesTxTimeout, MacHandles
  <2>2. /\ Changes(mac, n, {"radio", "RxSlot", "confirm", "queue", "AckTimeoutRetry", "MacFlags"})
        /\ n.MacFlags = mac.MacFlags \cup {"MacDone"} /\ n.confirm.ok = FALSE
    BY <1>1, TxTimeoutIs
  <2> HIDE DEF n
  <2>3. n.hist = mac.hist /\ ~AfterTx(n) /\ ~n.confirm.ok
    BY <2>2 DEF Changes, MacFields, AfterTx
  <2>4. Sincere(n)
    BY <2>3, NotOkIsSincere DEF Sincere
  <2> QED BY <2>1, <2>4
<1>6. CASE MacHandlesNoReception
  <2> DEFINE n == HandleRadioRxErrorTimeout(mac)
  <2>1. mac' = n /\ mac.radio # "tx"
    <3>1. PICK event \in {"RxError", "RxTimeout"} : mac' = n /\ event \in taken
      BY <1>6 DEF MacHandlesNoReception, MacHandles, IsNext
    <3>2. mac.radio # "tx"
      BY <3>1, WhileItSends
    <3> QED BY <3>1, <3>2
  <2>2. /\ Changes(mac, n, {"radio", "confirm", "queue", "timers", "MacFlags"})
        /\ n.confirm.ok => mac.confirm.ok
        /\ n.MacFlags = mac.MacFlags \/ n.MacFlags = mac.MacFlags \cup {"MacDone"}
    BY <1>1, NoReceptionIs
  <2> HIDE DEF n
  <2>3. n.hist = mac.hist /\ n.MacState = mac.MacState
    BY <2>2 DEF Changes, MacFields
  <2>4. AfterTx(n) => AfterTx(mac)
    BY <2>1, <2>2, <2>3 DEF AfterTx
  <2>5. Sincere(n)
    BY <2>2, <2>3, <2>4, CalmIsSincere DEF Sincere
  <2> QED BY <2>1, <2>5
<1>7. CASE MacUpdatesSlot
  <2> DEFINE n == UpdateRxSlotIdleState(mac)
  <2>1. mac' = n
    BY <1>7 DEF MacUpdatesSlot
  <2>2. Changes(mac, n, {"RxSlot"})
    BY <1>1, SlotIs
  <2> HIDE DEF n
  <2>3. /\ n.hist = mac.hist /\ n.confirm = mac.confirm /\ n.MacFlags = mac.MacFlags
        /\ n.MacState = mac.MacState /\ n.radio = mac.radio
    BY <2>2 DEF Changes, MacFields
  <2>4. Sincere(n)
    BY <2>3, CalmIsSincere DEF Sincere, AfterTx
  <2> QED BY <2>1, <2>4
<1>8. CASE MacFinishes
  BY <1>1, <1>8, FinishIsSincere
<1> QED BY <1>2, <1>3, <1>4, <1>5, <1>6, <1>7, <1>8 DEF Thread

(* What the timers of the MAC do. *)
LEMMA TimersAreSincere ==
  ASSUME ClassADevice, ClassAInv, Sincere(mac), Timers
  PROVE  Sincere(mac')
<1>1. IsMac(mac) /\ mac.DeviceClass = "A"
  BY DEF ClassAInv, InvOf, Fields
<1>2. mac.timers # {} => mac.radio # "tx"
  BY WhileItSends DEF IsSending
<1>3. ASSUME NEW n, Changes(mac, n, {"radio", "radioTimers", "RxSlot", "timers", "late",
                                     "AckTimeoutRetry", "notified"}),
             n.radio = mac.radio \/ mac.radio # "tx"
      PROVE  Sincere(n)
  <2>1. /\ n.hist = mac.hist /\ n.confirm = mac.confirm /\ n.MacFlags = mac.MacFlags
        /\ n.MacState = mac.MacState
    BY <1>3 DEF Changes, MacFields
  <2>2. AfterTx(n) => AfterTx(mac)
    BY <1>3, <2>1 DEF AfterTx
  <2> QED BY <2>1, <2>2, CalmIsSincere DEF Sincere
<1>4. CASE TimePasses
  <2> DEFINE n == [mac EXCEPT !.late = TRUE]
  <2>1. mac' = n
    BY <1>4 DEF TimePasses, TimerInterrupt
  <2>2. Changes(mac, n, {"late"})
    BY <1>1 DEF IsMac, MacFields, Changes
  <2> HIDE DEF n
  <2>3. Sincere(n)
    BY <1>3, <2>2 DEF Changes, MacFields
  <2> QED BY <2>1, <2>3
<1>5. ASSUME NEW timer, NEW slot, mac.radio # "tx"
      PROVE  Sincere(RxWindowSetup(mac, timer, slot))
  <2> DEFINE n == RxWindowSetup(mac, timer, slot)
  <2>1. Changes(mac, n, {"radio", "radioTimers", "RxSlot", "timers"})
    BY <1>1, RxWindowSetupIs
  <2> HIDE DEF n
  <2>2. Sincere(n)
    BY <1>3, <1>5, <2>1 DEF Changes
  <2> QED BY <2>2 DEF n
<1>6. CASE OnRxWindow1TimerEvent
  BY <1>2, <1>5, <1>6 DEF OnRxWindow1TimerEvent, TimerInterrupt
<1>7. CASE OnRxWindow2TimerEvent
  <2> DEFINE n == [mac EXCEPT !.timers = @ \ {"RX2"}]
  <2>1. mac' = n \/ mac' = RxWindowSetup(mac, "RX2", "WIN_2")
    BY <1>7 DEF OnRxWindow2TimerEvent, TimerInterrupt
  <2>2. Changes(mac, n, {"timers"})
    BY <1>1 DEF IsMac, MacFields, Changes
  <2> HIDE DEF n
  <2>3. mac.radio # "tx"
    BY <1>2, <1>7 DEF OnRxWindow2TimerEvent
  <2>4. Sincere(n)
    BY <1>3, <2>2, <2>3 DEF Changes
  <2> QED BY <1>5, <2>1, <2>3, <2>4
<1>8. CASE AckTimeoutTimer
  <2> DEFINE n == OnAckTimeoutTimerEvent(mac)
  <2>1. mac' = n /\ mac.radio # "tx"
    BY <1>2, <1>8 DEF AckTimeoutTimer, TimerInterrupt
  <2>2. /\ Changes(mac, n, {"timers", "AckTimeoutRetry", "MacFlags", "notified"})
        /\ n.MacFlags = mac.MacFlags
    <3>1. /\ Changes(mac, n, {"timers", "AckTimeoutRetry", "MacFlags", "notified"})
          /\ n.MacFlags = mac.MacFlags \cup (IF mac.DeviceClass = "C" THEN {"MacDone"} ELSE {})
      BY <1>1, AckTimeoutIs
    <3> HIDE DEF n
    <3> QED BY <1>1, <3>1
  <2> HIDE DEF n
  <2>3. Changes(mac, n, {"timers", "AckTimeoutRetry", "notified"})
    BY <2>2 DEF Changes
  <2>4. Sincere(n)
    BY <1>3, <2>1, <2>3 DEF Changes
  <2> QED BY <2>1, <2>4
<1>9. CASE TxDelayedTimer
  <2>1. PICK outcome \in IsrOutcomes : mac' = OnTxDelayedTimerEvent(mac, outcome)
    BY <1>9 DEF TxDelayedTimer, TimerInterrupt
  <2>2. outcome # "NO_WAIT_TIME"
    BY <2>1 DEF ClassADevice
  <2>3. Sincere(OnTxDelayedTimerEvent(mac, outcome))
    BY <1>1, <2>2, TxDelayedIsSincere DEF Sincere
  <2> QED BY <2>1, <2>3
<1> QED BY <1>4, <1>6, <1>7, <1>8, <1>9 DEF Timers

(* "Service performed successfully" is said of an uplink only if one of    *)
(* its transmissions was completed.                                        *)
THEOREM OkIsEarned ==
  ASSUME ClassADevice
  PROVE  Spec => []OkMeansSent
<1>1. Init => Sincere(mac)
  BY DEF Init, Sincere, Earned, NoVerdict
<1>2. ClassAInv /\ Sincere(mac) /\ [Next]_vars => Sincere(mac)'
  <2> SUFFICES ASSUME ClassAInv, Sincere(mac), [Next]_vars
               PROVE  Sincere(mac')
    OBVIOUS
  <2>1. IsMac(mac)
    BY DEF ClassAInv, InvOf, Fields
  <2>2. CASE AppJoins
    <3>1. PICK outcome \in Outcomes : mac' = LmHandlerJoin(mac, outcome)
      BY <2>2 DEF AppJoins
    <3>2. Sincere(LmHandlerJoin(mac, outcome))
      BY <2>1, JoinIsSincere DEF Sincere
    <3> QED BY <3>1, <3>2
  <2>3. CASE AppSends
    <3>1. PICK type \in AppTypes, outcome \in Outcomes :
            \E allowDelayedTx \in {FALSE} \cup {type \in DelayedTypes} :
              mac' = LmHandlerSend(mac, type, allowDelayedTx, outcome)
      BY <2>3 DEF AppSends
    <3>2. PICK allow \in {FALSE} \cup {type \in DelayedTypes} :
            mac' = LmHandlerSend(mac, type, allow, outcome)
      BY <3>1
    <3>3. Sincere(LmHandlerSend(mac, type, allow, outcome))
      <4>1. allow \in BOOLEAN
        OBVIOUS
      <4>2. outcome # "NO_WAIT_TIME"
        BY DEF ClassADevice
      <4> QED BY <2>1, <4>1, <4>2, SendIsSincere
    <3> QED BY <3>2, <3>3
  <2>4. CASE UNCHANGED vars
    BY <2>4 DEF vars
  <2> QED BY <2>2, <2>3, <2>4, ThreadIsSincere, RadioIsSincere, TimersAreSincere DEF Next
<1>3. Sincere(mac) => OkMeansSent
  BY DEF Sincere, Earned, OkMeansSent
<1> QED BY <1>1, <1>2, <1>3, StagesInOrder, PTL DEF Spec
=============================================================================
