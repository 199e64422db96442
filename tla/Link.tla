-------------------------------- MODULE Link --------------------------------
(***************************************************************************)
(* What LoRaMac.c keeps across uplinks, over a channel that loses frames   *)
(* both ways: the downlink counter, the acknowledgement owed to the        *)
(* server, the sticky answers of LoRaMacCommands.c, the ADR back-off and   *)
(* the session.  Timing, radio and the two windows of one uplink are in    *)
(* LoRaMac; here an uplink, whatever the network answers, and what the     *)
(* device makes of it are three steps.                                     *)
(*                                                                         *)
(* The device is of class A, so the network sends only in a window of an   *)
(* uplink it has received.  A frame that was not heard in its window may   *)
(* come in a later one, and one that was heard may come again.  The        *)
(* network is not in the repository: it counts its frames, repeats a       *)
(* confirmed one unchanged until it is acknowledged or given up,           *)
(* acknowledges confirmed uplinks, and moves its windows when it hears the *)
(* answer to its request, which it does not make while it hears answers to *)
(* an earlier one.                                                         *)
(***************************************************************************)
EXTENDS LoRaMacCrypto, LoRaMacAdr, FiniteSets

CONSTANTS
  Trials,       \* NbTrials of a confirmed uplink, ChannelsNbTrans of another
  MaxDR,        \* the default data rate
  AdrCtrlOn,    \* does the device control its data rate?
  NetAsks,      \* may the network ask for another receive window?
  Foreign,      \* may another device's or an old frame land in a window?
  LateTypes,    \* FALSE: unconfirmed frames may be late; TRUE: confirmed ones
  MaxLate,      \* bound: late frames of the session that are still to come
  MaxDown,      \* bound: frames the network counts in a session
  MaxSess       \* bound: sessions

ASSUME LinkAssumption ==
  /\ Trials \in Nat \ {0} /\ MaxDR \in Nat
  /\ AdrCtrlOn \in BOOLEAN /\ NetAsks \in BOOLEAN /\ Foreign \in BOOLEAN
  /\ LateTypes \subseteq BOOLEAN
  /\ MaxLate \in Nat /\ MaxDown \in Nat /\ MaxSess \in Nat

VARIABLES
  dev,       \* the device: MacCtx.NvmCtx and CryptoCtx.NvmCtx
  net,       \* the network
  up,        \* the uplink in progress, or NoUp
  down,      \* the downlink in its window, or NoFrame
  late,      \* frames of the session that missed their window and are to come
  ind,       \* McpsIndication of the last window: its status and its frame
  cnf,       \* McpsConfirm of the last uplink
  asked      \* history: uplinks with AdrAckReq since the last downlink or the
             \* last step of the back-off, up to ADR_ACK_DELAY

vars == <<dev, net, up, down, late, ind, cnf, asked>>

NoSetup == 2       \* a frame without RXTimingSetupReq
NoUp    == [trial |-> 0, confirmed |-> FALSE, ack |-> FALSE, ans |-> FALSE,
            req |-> FALSE, heard |-> FALSE, phase |-> "none"]
NoFrame == [sess |-> 0, cnt |-> 0, confirmed |-> FALSE, ack |-> FALSE, setup |-> NoSetup]
NoInd   == [status |-> "none", frame |-> NoFrame]
NoCnf   == [ack |-> FALSE, heard |-> FALSE, late |-> FALSE]

Frames == [sess : 0 .. MaxSess, cnt : 0 .. MaxDown, confirmed : BOOLEAN,
           ack : BOOLEAN, setup : {NoSetup, 0, 1}]

TypeOK ==
  /\ dev \in [sess : 0 .. MaxSess, joined : BOOLEAN, FCntDown : {NoFCnt} \cup 0 .. MaxDown,
              SrvAckRequested : BOOLEAN, LastRxMic : Frames, delay : {0, 1},
              stickyAns : BOOLEAN, AdrAckCounter : Nat, dr : MIN_TX_DR .. MaxDR]
  /\ net \in [sess : 0 .. MaxSess, next : 0 .. MaxDown + 1, pending : Frames,
              delay : {0, 1}, asks : BOOLEAN]
  /\ up \in [trial : 0 .. Trials, confirmed : BOOLEAN, ack : BOOLEAN, ans : BOOLEAN,
             req : BOOLEAN, heard : BOOLEAN, phase : {"none", "air", "window"}]
  /\ down \in Frames /\ late \subseteq Frames
  /\ ind \in [status : {"none", "OK", "REPEATED", "FRAMES_LOSS", "MIC_FAIL", "ADDRESS_FAIL"},
              frame : Frames]
  /\ cnf \in [ack : BOOLEAN, heard : BOOLEAN, late : BOOLEAN]
  /\ asked \in 0 .. ADR_ACK_DELAY

(* Joined for the first time. *)
Init ==
  /\ dev = [sess |-> 1, joined |-> TRUE, FCntDown |-> NoFCnt, SrvAckRequested |-> FALSE,
            LastRxMic |-> NoFrame, delay |-> 0, stickyAns |-> FALSE,
            AdrAckCounter |-> 0, dr |-> MaxDR]
  /\ net = [sess |-> 1, next |-> 0, pending |-> NoFrame, delay |-> 0, asks |-> FALSE]
  /\ up = NoUp /\ down = NoFrame /\ late = {} /\ ind = NoInd /\ cnf = NoCnf /\ asked = 0

-----------------------------------------------------------------------------
(* The device sends: Send(). *)

(* Mutants: the owed acknowledgement survives the uplink that carries it;  *)
(* the data rate of a refused uplink is kept.                              *)
SentKeepsAck(d) ==
  LET adr == CalcNextV10X(AdrCtrlOn, d.AdrAckCounter, d.dr)
  IN [d EXCEPT !.dr = adr.dr, !.AdrAckCounter = adr.counter]

NotSentKeepsDr(d) == [d EXCEPT !.dr = CalcNextV10X(AdrCtrlOn, d.AdrAckCounter, d.dr).dr]

(* ScheduleTx() accepted the frame. *)
Sent(d) ==
  LET adr == CalcNextV10X(AdrCtrlOn, d.AdrAckCounter, d.dr)
  IN [d EXCEPT !.dr = adr.dr, !.AdrAckCounter = adr.counter, !.SrvAckRequested = FALSE]

(* ScheduleTx() refused it (duty cycle, payload size): data rate and power *)
(* are restored.                                                           *)
NotSent(d) == d

(* LoRaMacMcpsRequest(): without ADR the application names the data rate.  *)
Requested(d) == IF AdrCtrlOn THEN d ELSE [d EXCEPT !.dr = MaxDR]

(* The history of the back-off after an uplink was built. *)
AskedAfter(req) ==
  LET since == IF dev'.dr < dev.dr THEN 0 ELSE asked
  IN asked' = IF req /\ since < ADR_ACK_DELAY THEN since + 1 ELSE since

Send(confirmed) ==
  /\ dev.joined /\ up = NoUp
  /\ dev' = Sent(Requested(dev))
  /\ up' = [NoUp EXCEPT !.trial = 1, !.confirmed = confirmed,
              !.ack = dev.SrvAckRequested, !.ans = dev.stickyAns,
              !.req = CalcNextV10X(AdrCtrlOn, dev.AdrAckCounter, dev.dr).adrAckReq,
              !.phase = "air"]
  /\ ind' = NoInd /\ cnf' = NoCnf
  /\ AskedAfter(up'.req)
  /\ UNCHANGED <<net, down, late>>

SendRefused ==
  /\ dev.joined /\ up = NoUp
  /\ dev' = NotSent(Requested(dev))
  /\ AskedAfter(FALSE)
  /\ UNCHANGED <<net, up, down, late, ind, cnf>>

-----------------------------------------------------------------------------
(* The network. *)

UplinkLost ==
  /\ up.phase = "air"
  /\ up' = [up EXCEPT !.phase = "window"]
  /\ UNCHANGED <<dev, net, down, late, ind, cnf, asked>>

(* What the network learns from a transmission; a repeated one tells it    *)
(* nothing new.                                                            *)
Learnt ==
  IF up.heard THEN net
  ELSE [net EXCEPT !.pending = IF up.ack THEN NoFrame ELSE @,
                   !.delay = IF up.ans /\ net.asks THEN 1 - @ ELSE @,
                   !.asks = @ /\ ~up.ans]

NewFrame(n, confirmed, asks) ==
  [sess |-> n.sess, cnt |-> n.next, confirmed |-> confirmed,
   ack |-> up.confirmed, setup |-> IF asks THEN 1 - n.delay ELSE NoSetup]

NetHears(next, frame) ==
  /\ up.phase = "air"
  /\ up' = [up EXCEPT !.phase = "window", !.heard = TRUE]
  /\ net' = next /\ down' = frame
  /\ UNCHANGED <<dev, late, ind, cnf, asked>>

NetSilent  == NetHears(Learnt, NoFrame)

(* The frame nobody has acknowledged yet goes out again, unchanged. *)
NetRepeats == /\ Learnt.pending # NoFrame
              /\ NetHears(Learnt, Learnt.pending)

(* A new frame: acknowledgement, data, or RXTimingSetupReq.  The network   *)
(* gives up a pending frame only when the device could have acknowledged   *)
(* it and did not: at an uplink it has not heard before.  The frame's      *)
(* window is the one the network knew before it asks for another.          *)
NetSends(confirmed, asks) ==
  /\ up.phase = "air" /\ Learnt.next <= MaxDown
  /\ Learnt.pending = NoFrame \/ ~up.heard
  /\ asks => NetAsks /\ ~up.ans
  /\ LET f == NewFrame(Learnt, confirmed, asks)
     IN NetHears([Learnt EXCEPT !.next = @ + 1, !.asks = @ \/ asks,
                    !.pending = IF confirmed THEN f ELSE NoFrame], f)

-----------------------------------------------------------------------------
(* The window: ProcessRadioRxDone() for a data frame. *)

(* Mutant: the Ack bit is taken before the frame is checked. *)
AbortedTakesAck(d, status, frame) ==
  [dev |-> d, ind |-> [status |-> status, frame |-> NoFrame], ack |-> frame.ack]

(* PrepareRxDoneAbort(): McpsIndication has no frame, McpsConfirm no Ack. *)
Aborted(d, status, frame) ==
  [dev |-> d, ind |-> [status |-> status, frame |-> NoFrame], ack |-> FALSE]

(* Mutant: the acknowledgement is not owed again. *)
RepeatedNever(d, frame) == d

(* A confirmed frame that comes again, the same MIC says, is acknowledged  *)
(* again: the acknowledgement was lost.                                    *)
Repeated(d, frame) ==
  [d EXCEPT !.SrvAckRequested = @ \/ (frame.confirmed /\ d.LastRxMic = frame)]

(* Mutant: RemoveMacCommands() comes after ProcessMacCommands(). *)
AnswersSwapped(d, frame) ==
  [d EXCEPT !.stickyAns = FALSE,
            !.delay = IF frame.setup # NoSetup THEN frame.setup ELSE @]

(* RemoveMacCommands(), then ProcessMacCommands(): what was answered is    *)
(* forgotten before the frame's own request is answered.                   *)
Answers(d, frame) ==
  LET removed == IF ~up.confirmed \/ frame.ack
                 THEN [d EXCEPT !.stickyAns = FALSE] ELSE d
  IN IF frame.setup # NoSetup
     THEN [removed EXCEPT !.delay = frame.setup, !.stickyAns = TRUE]
     ELSE removed

Accepted(d, frame) ==
  Answers([d EXCEPT !.FCntDown = Guess(d.FCntDown, frame.cnt % Lsb),
                    !.AdrAckCounter = 0,
                    !.SrvAckRequested = frame.confirmed,
                    !.LastRxMic = IF frame.confirmed THEN frame ELSE @], frame)

RxData(d, frame) ==
  LET status == GetFCntDown(d.FCntDown, frame.cnt % Lsb)
  IN CASE status = "FCNT_DUPLICATED" -> Aborted(Repeated(d, frame), "REPEATED", frame)
       [] status = "MAX_GAP_FCNT"    -> Aborted(d, "FRAMES_LOSS", frame)
       [] OTHER ->
            IF UnsecureMessage(d.sess, d.FCntDown, frame)
            THEN [dev |-> Accepted(d, frame), ack |-> frame.ack,
                  ind |-> [status |-> "OK", frame |-> frame]]
            ELSE Aborted(d, IF frame.sess = 0 THEN "ADDRESS_FAIL" ELSE "MIC_FAIL", frame)

(* CheckRetransUnconfirmedUplink(), CheckRetransConfirmedUplink() *)
StopsRetransmission(r) ==
  \/ up.trial = Trials
  \/ r.ind # NoInd /\ (up.confirmed => r.ack)

(* Mutant: only an uplink that waited for its acknowledgement counts. *)
StoppedConfirmed(r) ==
  IF AdrCtrlOn /\ r.ind = NoInd /\ up.confirmed
  THEN [r.dev EXCEPT !.AdrAckCounter = @ + 1] ELSE r.dev

(* StopRetransmission(): a window with a frame in it, even a bad one, does *)
(* not count as silence.                                                   *)
Stopped(r) ==
  IF AdrCtrlOn /\ r.ind = NoInd THEN [r.dev EXCEPT !.AdrAckCounter = @ + 1] ELSE r.dev

(* AckTimeoutRetriesProcess(): every second trial at a lower data rate. *)
Retried(r) ==
  IF up.confirmed /\ (up.trial + 1) % 2 = 1 /\ r.dev.dr > MIN_TX_DR
  THEN [r.dev EXCEPT !.dr = @ - 1] ELSE r.dev

(* A frame of the window that was not heard may be on its way still, like  *)
(* those that were late before; behind the counter it is a stray.          *)
StillToCome ==
  {f \in late \cup {down} :
     f # NoFrame /\ f.confirmed \in LateTypes /\ f.cnt > dev'.FCntDown}

(* The end of both windows, and LoRaMacHandleMcpsRequest(). *)
WindowEnds(r) ==
  /\ up.phase = "window"
  /\ down' = NoFrame /\ ind' = r.ind
  /\ IF StopsRetransmission(r)
     THEN /\ dev' = Stopped(r) /\ up' = NoUp
          /\ cnf' = [ack |-> up.confirmed /\ r.ack, heard |-> up.heard,
                    late |-> r.ind.frame \in late]
     ELSE /\ dev' = Retried(r)
          /\ up' = [up EXCEPT !.trial = @ + 1, !.phase = "air"]
          /\ UNCHANGED cnf
  /\ asked' = IF r.ind.status = "OK" THEN 0 ELSE asked
  /\ late' \in SUBSET StillToCome /\ Cardinality(late') <= MaxLate
  /\ UNCHANGED net

Silence == WindowEnds([dev |-> dev, ind |-> NoInd, ack |-> FALSE])

(* The window is the one the device opens. *)
Hears == down # NoFrame /\ net.delay = dev.delay /\ WindowEnds(RxData(dev, down))

(* A frame that missed its window lands in this one: ahead of the counter  *)
(* it is as good as one that was sent here, its Ack bit included.          *)
HearsLate(frame) == frame \in late /\ WindowEnds(RxData(dev, frame))

(* Another frame lands in the window: another device's (session 0), one of *)
(* an older session, or one of this session that is not ahead of the       *)
(* counter, sent again by a gateway or a relay.  The last confirmed frame  *)
(* is left out: LastRxMic survives a join and 65535 later frames, after    *)
(* which its repetition would be acknowledged.                             *)
HearsStray(frame) ==
  /\ Foreign /\ frame # dev.LastRxMic
  /\ \/ frame.sess < dev.sess
     \/ frame.sess = dev.sess /\ frame.cnt <= dev.FCntDown
  /\ WindowEnds(RxData(dev, frame))

-----------------------------------------------------------------------------
(* LoRaMacMlmeRequest(MLME_JOIN): ResetMacParameters(), and the network's  *)
(* answer.  The list of answers is not emptied.                            *)

ResetMacParameters(d) ==
  [d EXCEPT !.joined = FALSE, !.AdrAckCounter = 0, !.dr = MaxDR, !.SrvAckRequested = FALSE]

(* LoRaMacCryptoHandleJoinAccept() and the join accept branch. *)
JoinAccept(d, sess) ==
  [d EXCEPT !.joined = TRUE, !.sess = sess, !.FCntDown = NoFCnt, !.delay = 0]

NewSession ==
  [sess |-> net.sess + 1, next |-> 0, pending |-> NoFrame, delay |-> 0, asks |-> FALSE]

JoinFails ==
  /\ up = NoUp /\ dev.joined /\ net.sess < MaxSess
  /\ dev' = ResetMacParameters(dev) /\ net' \in {net, NewSession}
  /\ net'.sess < MaxSess
  /\ late' = {} /\ ind' = NoInd /\ cnf' = NoCnf /\ asked' = 0
  /\ UNCHANGED <<up, down>>

Joins ==
  /\ up = NoUp /\ net.sess < MaxSess
  /\ net' = NewSession
  /\ dev' = JoinAccept(ResetMacParameters(dev), net'.sess)
  /\ late' = {} /\ ind' = NoInd /\ cnf' = NoCnf /\ asked' = 0
  /\ UNCHANGED <<up, down>>

-----------------------------------------------------------------------------
(* A stray frame matters by its session, counter, type and Ack bit. *)
StrayFrames == {f \in Frames : f.ack /\ f.setup = NoSetup}

Next ==
  \/ \E confirmed \in BOOLEAN : Send(confirmed)
  \/ SendRefused
  \/ UplinkLost \/ NetSilent \/ NetRepeats
  \/ \E confirmed, asks \in BOOLEAN : NetSends(confirmed, asks)
  \/ Silence \/ Hears
  \/ \E frame \in late : HearsLate(frame)
  \/ \E frame \in StrayFrames : HearsStray(frame)
  \/ JoinFails \/ Joins

Spec == Init /\ [][Next]_vars

Arrives ==
  \/ NetSilent \/ NetRepeats
  \/ \E confirmed, asks \in BOOLEAN : NetSends(confirmed, asks)

(* The application sends again and again; a transmission and its windows   *)
(* end.  The network repeats what is pending, and loss does not look into  *)
(* frames: of infinitely many uplinks that carry an acknowledgement, or an *)
(* answer, some arrive, and of infinitely many downlinks some are heard.   *)
Fairness ==
  /\ WF_vars(\E confirmed \in BOOLEAN : Send(confirmed))
  /\ WF_vars(Joins)
  /\ WF_vars(UplinkLost) /\ WF_vars(Silence)
  /\ SF_vars(NetRepeats) /\ SF_vars(Hears)
  /\ SF_vars(up.ack /\ Arrives) /\ SF_vars(up.ans /\ Arrives)

FairSpec == Spec /\ Fairness

-----------------------------------------------------------------------------
(* Properties *)

Delivers == ind'.status = "OK" /\ ind' # ind

(* Whatever is lost, repeated or sent again later, and across roll-overs   *)
(* of the 16 bit field: what the application gets is a frame of its own    *)
(* session, with a higher counter than any before in it.                   *)
DeliveredOnce ==
  [][Delivers => /\ ind'.frame.sess = dev.sess
                 /\ ind'.frame.cnt > dev.FCntDown
                 /\ dev'.FCntDown = ind'.frame.cnt]_vars

InReach(lastDown, cnt) ==
  IF lastDown = NoFCnt THEN cnt < Lsb ELSE cnt - lastDown < MAX_FCNT_GAP

Lands(frame) == (Hears /\ frame = down) \/ HearsLate(frame)

(* A frame of the session that is ahead of the counter by less than        *)
(* MAX_FCNT_GAP is delivered, in its window or late, roll-over or not.     *)
FreshIsDelivered ==
  [][\A frame \in late \cup {down} :
       Lands(frame) /\ frame.sess = dev.sess /\ frame.cnt > dev.FCntDown
       /\ InReach(dev.FCntDown, frame.cnt)
       => ind' = [status |-> "OK", frame |-> frame]]_vars

(* McpsConfirm says an uplink was acknowledged only if it arrived, or if a *)
(* frame of the session that missed its window brought the Ack bit: that   *)
(* was for an earlier uplink.  No other frame can: none that was heard     *)
(* before, of an older session, or of another device.                      *)
AckIsHonest == cnf.ack => cnf.heard \/ cnf.late

(* Not so: in LoRaWAN 1.0.x an Ack bit does not name its uplink. *)
AckMeansHeard == cnf.ack => cnf.heard

(* The server takes a confirmed downlink for acknowledged only if the      *)
(* device has it: an acknowledgement owed for one frame is never spent on  *)
(* another.                                                                *)
ServerAckIsHonest ==
  [][~up.heard /\ up'.heard /\ up.ack /\ net.pending # NoFrame
     => dev.sess = net.sess /\ dev.FCntDown = net.pending.cnt]_vars

(* While the device listens where the network does not send, every uplink  *)
(* it builds says so: the sticky answer stays until the network knows.     *)
AnswerUntilHeard ==
  dev.joined /\ dev.sess = net.sess /\ dev.delay # net.delay => dev.stickyAns

(* Device and network agree on the window again. *)
WindowsMeet == dev.delay # net.delay ~> dev.delay = net.delay

(* A confirmed downlink is acknowledged at last, unless the server gives   *)
(* it up or a new session starts, although the frame and the               *)
(* acknowledgement may be lost many times.                                 *)
Pending(cnt) == net.pending # NoFrame /\ net.pending.cnt = cnt

ConfirmedIsAcked ==
  \A cnt \in 0 .. MaxDown :
    (Pending(cnt) /\ InReach(dev.FCntDown, cnt)) ~> ~Pending(cnt)

(* The back-off lowers the data rate only after ADR_ACK_DELAY uplinks that *)
(* asked the network for a sign of life, counted from the last sign or the *)
(* last step; an uplink that was refused does not count and takes none.    *)
(* Not so if the last window held a frame that was not accepted: such a    *)
(* frame stops the counter without resetting it, and a counter that stays  *)
(* where a step was due makes the next uplink take another one.            *)
AsksBeforeDropping ==
  [][dev.joined /\ up = NoUp /\ ind.status = "none" /\ dev'.dr < dev.dr
     => asked = ADR_ACK_DELAY]_vars

(* A device that hears nothing ends at the lowest data rate, whatever mix  *)
(* of sent, repeated and refused uplinks comes before.                     *)
SilenceLowersDr ==
  AdrCtrlOn /\ <>[](ind.status = "none") => <>[](dev.dr = MIN_TX_DR)
=============================================================================
