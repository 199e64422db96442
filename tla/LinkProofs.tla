----------------------------- MODULE LinkProofs -----------------------------
(***************************************************************************)
(* The downlink path and the ADR back-off of Link, for every number of     *)
(* trials, width of the counter field, gap, data rate, limit, delay and    *)
(* bound.                                                                  *)
(*                                                                         *)
(* DeliveredOnce and FreshIsDelivered follow from what the integrity check *)
(* takes (LoRaMacCryptoProofs).  ServerAckIsHonest does not follow from    *)
(* any step: that the Ack bit of an uplink is about the frame the server   *)
(* waits for holds because the pending frame is the last one it counted,   *)
(* the device's counter never gets ahead of the server's, and an           *)
(* acknowledgement owed in the middle of an uplink was asked for by a      *)
(* frame of that uplink's windows (Inv).                                   *)
(*                                                                         *)
(* AsksBeforeDropping rests on a bound: the uplinks that asked are at      *)
(* least as many as the counter is past the limit, or past the last step   *)
(* (AdrInv).                                                               *)
(***************************************************************************)
EXTENDS Link, LoRaMacCryptoProofs

-----------------------------------------------------------------------------
(* The invariant *)

Frame == [sess : Nat, cnt : Nat, confirmed : BOOLEAN, ack : BOOLEAN,
          setup : {NoSetup, 0, 1}]

Counters == {NoFCnt} \cup Nat

Dev == [sess : Nat, joined : BOOLEAN, FCntDown : Counters,
        SrvAckRequested : BOOLEAN, LastRxMic : Frame, delay : {0, 1},
        stickyAns : BOOLEAN, AdrAckCounter : Int, dr : Int]

Net == [sess : Nat, next : Nat, pending : Frame, delay : {0, 1}, asks : BOOLEAN]

Up == [trial : Nat, confirmed : BOOLEAN, ack : BOOLEAN, ans : BOOLEAN,
       req : BOOLEAN, heard : BOOLEAN, phase : {"none", "air", "window"}]

Statuses == {"none", "OK", "REPEATED", "FRAMES_LOSS", "MIC_FAIL", "ADDRESS_FAIL"}

(* The types without the bounds of the instance. *)
Shape ==
  /\ dev \in Dev /\ net \in Net /\ up \in Up /\ down \in Frame
  /\ late \in SUBSET Frame
  /\ ind \in [status : Statuses, frame : Frame]
  /\ cnf \in [ack : BOOLEAN, heard : BOOLEAN, late : BOOLEAN]

(* Device and network speak of the same session while the device sends. *)
SessionInv ==
  /\ dev.sess >= 1 /\ dev.sess <= net.sess
  /\ dev.joined => dev.sess = net.sess
  /\ up.phase # "none" => dev.joined

(* The pending frame is the last one the network counted. *)
PendingInv ==
  net.pending # NoFrame =>
    net.pending.confirmed /\ net.pending.sess = net.sess /\ net.pending.cnt + 1 = net.next

(* What is in the window was sent in answer to this uplink. *)
DownInv ==
  down # NoFrame =>
    /\ up.phase = "window" /\ up.heard
    /\ down.sess = net.sess /\ down.cnt < net.next
    /\ down.confirmed => net.pending = down

(* What is late was sent in this session. *)
LateInv ==
  \A frame \in late :
    frame.sess = net.sess /\ frame.cnt < net.next /\ frame.confirmed \in LateTypes

(* The device's counter is behind the network's, its last confirmed frame  *)
(* behind its counter.                                                     *)
CounterInv ==
  /\ dev.joined => dev.FCntDown < net.next
  /\ dev.LastRxMic.sess <= dev.sess
  /\ dev.LastRxMic.sess = dev.sess => dev.LastRxMic.cnt <= dev.FCntDown

(* No confirmed frame is late. *)
Punctual == LateTypes \subseteq {FALSE}

(* An acknowledgement that is owed, or on its way, is for the pending      *)
(* frame.                                                                  *)
AckInv ==
  Punctual =>
    /\ dev.SrvAckRequested /\ net.pending # NoFrame
         => dev.joined /\ dev.FCntDown = net.pending.cnt
    /\ dev.SrvAckRequested /\ up.phase # "none" => up.heard /\ net.pending # NoFrame
    /\ up.phase # "none" /\ ~up.heard /\ up.ack /\ net.pending # NoFrame
         => dev.FCntDown = net.pending.cnt

Inv ==
  /\ Shape /\ SessionInv /\ PendingInv /\ DownInv /\ LateInv /\ CounterInv
  /\ AckInv /\ AckIsHonest
-----------------------------------------------------------------------------
(* One step at a time: what each part of the model does to the fields the  *)
(* invariant speaks of.                                                    *)

Same(d, e) ==
  /\ e.sess = d.sess /\ e.joined = d.joined /\ e.FCntDown = d.FCntDown
  /\ e.SrvAckRequested = d.SrvAckRequested /\ e.LastRxMic = d.LastRxMic

Rejected(d, r) ==
  /\ r.ack = FALSE /\ r.ind.status # "OK"
  /\ Same(d, r.dev)

OwedAgain(d, frame, r) ==
  /\ r.ack = FALSE /\ r.ind.status # "OK"
  /\ frame.confirmed /\ d.LastRxMic = frame
  /\ Same([d EXCEPT !.SrvAckRequested = TRUE], r.dev)

Taken(d, frame, r) ==
  /\ UnsecureMessage(d.sess, d.FCntDown, frame)
  /\ r.ack = frame.ack /\ r.ind = [status |-> "OK", frame |-> frame]
  /\ r.dev.sess = d.sess /\ r.dev.joined = d.joined /\ r.dev.FCntDown = frame.cnt
  /\ r.dev.SrvAckRequested = frame.confirmed
  /\ r.dev.LastRxMic = IF frame.confirmed THEN frame ELSE d.LastRxMic

Results == [dev : Dev, ind : [status : Statuses, frame : Frame], ack : BOOLEAN]

(* A message the integrity check passes is of the session and ahead.       *)
LEMMA UnsecuredIsAhead ==
  ASSUME NEW sess, NEW lastDown \in Counters, NEW frame \in Frame,
         UnsecureMessage(sess, lastDown, frame)
  PROVE  /\ frame.sess = sess /\ frame.cnt > lastDown
         /\ Guess(lastDown, frame.cnt % Lsb) = frame.cnt
<1>1. /\ frame.sess = sess /\ frame.cnt = Guess(lastDown, frame.cnt % Lsb)
      /\ lastDown = NoFCnt \/ Guess(lastDown, frame.cnt % Lsb) > lastDown
  BY DEF UnsecureMessage, MicVerifies
<1> QED BY <1>1 DEF NoFCnt, Frame, Counters

(* Commands and their answers leave the counters alone.                    *)
LEMMA AnswersKeep ==
  ASSUME NEW d \in Dev, NEW frame \in Frame
  PROVE  Answers(d, frame) \in Dev /\ Same(d, Answers(d, frame))
<1> DEFINE removed == IF ~up.confirmed \/ frame.ack
                      THEN [d EXCEPT !.stickyAns = FALSE] ELSE d
<1>1. removed \in Dev /\ Same(d, removed)
  BY DEF Dev, Same
<1>2. CASE frame.setup = NoSetup
  <2>1. Answers(d, frame) = removed
    BY <1>2 DEF Answers
  <2> QED BY <1>1, <2>1
<1>3. CASE frame.setup # NoSetup
  <2>1. Answers(d, frame) = [removed EXCEPT !.delay = frame.setup, !.stickyAns = TRUE]
    BY <1>3 DEF Answers
  <2>2. frame.setup \in {0, 1}
    BY <1>3 DEF Frame
  <2> HIDE DEF removed
  <2> QED BY <1>1, <2>1, <2>2 DEF Dev, Same
<1> QED BY <1>2, <1>3

(* The three outcomes of ProcessRadioRxDone().                             *)
LEMMA RxOutcome ==
  ASSUME NEW d \in Dev, NEW frame \in Frame
  PROVE  /\ RxData(d, frame) \in Results
         /\ \/ Rejected(d, RxData(d, frame))
            \/ OwedAgain(d, frame, RxData(d, frame))
            \/ Taken(d, frame, RxData(d, frame))
<1> DEFINE status == GetFCntDown(d.FCntDown, frame.cnt % Lsb)
           passes == UnsecureMessage(d.sess, d.FCntDown, frame)
<1>1. NoFrame \in Frame
  BY DEF NoFrame, Frame, NoSetup
<1>2. "OK" \in Statuses
  BY DEF Statuses
<1>3. ASSUME NEW e \in Dev, NEW st \in Statuses \ {"none", "OK"},
             RxData(d, frame) = Aborted(e, st, frame)
      PROVE  /\ RxData(d, frame) \in Results
             /\ RxData(d, frame).dev = e /\ RxData(d, frame).ack = FALSE
             /\ RxData(d, frame).ind.status # "OK"
  BY <1>1, <1>3 DEF Aborted, Results
<1>4. CASE status = "FCNT_DUPLICATED"
  <2>1. RxData(d, frame) = Aborted(Repeated(d, frame), "REPEATED", frame)
    BY <1>4 DEF RxData
  <2>2. "REPEATED" \in Statuses \ {"none", "OK"}
    BY DEF Statuses
  <2>3. CASE frame.confirmed /\ d.LastRxMic = frame
    <3>1. Repeated(d, frame) = [d EXCEPT !.SrvAckRequested = TRUE]
      BY <2>3 DEF Repeated, Dev
    <3>2. Repeated(d, frame) \in Dev
      BY <3>1 DEF Dev
    <3>3. /\ RxData(d, frame) \in Results
          /\ RxData(d, frame).dev = Repeated(d, frame) /\ RxData(d, frame).ack = FALSE
          /\ RxData(d, frame).ind.status # "OK"
      BY <1>3, <2>1, <2>2, <3>2
    <3> QED BY <2>3, <3>1, <3>3 DEF OwedAgain, Same
  <2>4. CASE ~(frame.confirmed /\ d.LastRxMic = frame)
    <3>1. Repeated(d, frame) \in Dev /\ Same(d, Repeated(d, frame))
      BY <2>4 DEF Repeated, Dev, Same
    <3>2. /\ RxData(d, frame) \in Results
          /\ RxData(d, frame).dev = Repeated(d, frame) /\ RxData(d, frame).ack = FALSE
          /\ RxData(d, frame).ind.status # "OK"
      BY <1>3, <2>1, <2>2, <3>1
    <3> QED BY <3>1, <3>2 DEF Rejected
  <2> QED BY <2>3, <2>4
<1>5. CASE status \notin {"FCNT_DUPLICATED"} /\ ~(status \notin {"MAX_GAP_FCNT"} /\ passes)
  <2>1. \E st \in {"FRAMES_LOSS", "ADDRESS_FAIL", "MIC_FAIL"} :
          RxData(d, frame) = Aborted(d, st, frame)
    BY <1>5 DEF RxData
  <2>2. {"FRAMES_LOSS", "ADDRESS_FAIL", "MIC_FAIL"} \subseteq Statuses \ {"none", "OK"}
    BY DEF Statuses
  <2>3. /\ RxData(d, frame) \in Results
        /\ RxData(d, frame).dev = d /\ RxData(d, frame).ack = FALSE
        /\ RxData(d, frame).ind.status # "OK"
    BY <1>3, <2>1, <2>2
  <2> QED BY <2>3 DEF Rejected, Same
<1>6. CASE status \notin {"FCNT_DUPLICATED", "MAX_GAP_FCNT"} /\ passes
  <2>1. RxData(d, frame) = [dev |-> Accepted(d, frame), ack |-> frame.ack,
                            ind |-> [status |-> "OK", frame |-> frame]]
    BY <1>6 DEF RxData
  <2> DEFINE e == [d EXCEPT !.FCntDown = Guess(d.FCntDown, frame.cnt % Lsb),
                            !.AdrAckCounter = 0,
                            !.SrvAckRequested = frame.confirmed,
                            !.LastRxMic = IF frame.confirmed THEN frame ELSE @]
  <2>2. Guess(d.FCntDown, frame.cnt % Lsb) = frame.cnt
    BY <1>6, UnsecuredIsAhead DEF Dev
  <2>3. e \in Dev
    <3>1. /\ Guess(d.FCntDown, frame.cnt % Lsb) \in Counters
          /\ frame.confirmed \in BOOLEAN
      BY <2>2 DEF Frame, Counters
    <3>2. (IF frame.confirmed THEN frame ELSE d.LastRxMic) \in Frame
      BY DEF Dev
    <3>3. [d EXCEPT !.FCntDown = frame.cnt, !.AdrAckCounter = 0] \in Dev
      <4>1. ASSUME NEW g \in Counters, NEW a \in Int
            PROVE  [d EXCEPT !.FCntDown = g, !.AdrAckCounter = a] \in Dev
        BY DEF Dev
      <4>2. frame.cnt \in Counters /\ 0 \in Int
        BY <2>2, <3>1
      <4> QED BY <4>1, <4>2
    <3>4. ASSUME NEW f \in Dev, NEW c \in BOOLEAN, NEW m \in Frame
          PROVE  [f EXCEPT !.SrvAckRequested = c, !.LastRxMic = m] \in Dev
      BY DEF Dev
    <3>5. e = [[d EXCEPT !.FCntDown = frame.cnt, !.AdrAckCounter = 0]
                 EXCEPT !.SrvAckRequested = frame.confirmed,
                        !.LastRxMic = IF frame.confirmed THEN frame ELSE d.LastRxMic]
      BY <2>2 DEF Dev
    <3> QED BY <3>1, <3>2, <3>3, <3>4, <3>5
  <2>4. /\ e.sess = d.sess /\ e.joined = d.joined /\ e.FCntDown = frame.cnt
        /\ e.SrvAckRequested = frame.confirmed
        /\ e.LastRxMic = IF frame.confirmed THEN frame ELSE d.LastRxMic
    BY <2>2 DEF Dev
  <2>5. Accepted(d, frame) = Answers(e, frame)
    BY DEF Accepted
  <2>6. Accepted(d, frame) \in Dev /\ Same(e, Accepted(d, frame))
    <3> HIDE DEF e
    <3> QED BY <2>3, <2>5, AnswersKeep
  <2>7. RxData(d, frame) \in Results
    BY <1>2, <2>1, <2>6 DEF Results, Frame
  <2>8. Taken(d, frame, RxData(d, frame))
    <3> HIDE DEF e
    <3> QED BY <1>6, <2>1, <2>4, <2>6 DEF Taken, Same
  <2> QED BY <2>7, <2>8
<1> QED BY <1>4, <1>5, <1>6

(* The end of the windows changes counters of the back-off, and ends the   *)
(* uplink or goes on with it.                                              *)
LEMMA WindowEndsKeeps ==
  ASSUME Shape, NEW r \in Results, WindowEnds(r)
  PROVE  /\ Shape' /\ Same(r.dev, dev')
         /\ up.phase = "window" /\ down' = NoFrame /\ net' = net /\ ind' = r.ind
         /\ \/ /\ up'.phase = "none" /\ (cnf'.ack => r.ack) /\ cnf'.heard = up.heard
               /\ cnf'.late = (r.ind.frame \in late)
            \/ up'.phase = "air" /\ up'.ack = up.ack /\ up'.heard = up.heard /\ cnf' = cnf
         /\ \A frame \in late' :
              (frame \in late \/ (frame = down /\ down # NoFrame))
              /\ frame.confirmed \in LateTypes
<1>1. up.phase = "window" /\ down' = NoFrame /\ net' = net /\ ind' = r.ind
  BY DEF WindowEnds
<1>2. r.dev \in Dev /\ r.ind \in [status : Statuses, frame : Frame] /\ r.ack \in BOOLEAN
  BY DEF Results
<1>3. NoFrame \in Frame
  BY DEF NoFrame, Frame, NoSetup
<1>4. \A frame \in late' :
        (frame \in late \/ (frame = down /\ down # NoFrame))
        /\ frame.confirmed \in LateTypes
  BY DEF WindowEnds, StillToCome
<1>5. late' \in SUBSET Frame
  BY <1>4 DEF Shape
<1>6. CASE StopsRetransmission(r)
  <2>1. /\ dev' = Stopped(r) /\ up' = NoUp
        /\ cnf' = [ack |-> up.confirmed /\ r.ack, heard |-> up.heard,
                   late |-> r.ind.frame \in late]
    BY <1>6 DEF WindowEnds
  <2>2. dev' \in Dev /\ Same(r.dev, dev')
    BY <1>2, <2>1 DEF Stopped, Dev, Same
  <2>3. up' \in Up /\ up'.phase = "none"
    BY <2>1 DEF NoUp, Up
  <2>4. /\ cnf' \in [ack : BOOLEAN, heard : BOOLEAN, late : BOOLEAN]
        /\ (cnf'.ack => r.ack) /\ cnf'.heard = up.heard
        /\ cnf'.late = (r.ind.frame \in late)
    <3> DEFINE a == up.confirmed /\ r.ack
               b == r.ind.frame \in late
    <3>1. a \in BOOLEAN /\ (a => r.ack) /\ up.heard \in BOOLEAN /\ b \in BOOLEAN
      BY <1>2 DEF Shape, Up
    <3>2. cnf' = [ack |-> a, heard |-> up.heard, late |-> b]
      BY <2>1
    <3>3. /\ cnf' \in [ack : BOOLEAN, heard : BOOLEAN, late : BOOLEAN]
          /\ (cnf'.ack => r.ack) /\ cnf'.heard = up.heard /\ cnf'.late = b
      <4> HIDE DEF a, b
      <4> QED BY <3>1, <3>2
    <3> QED BY <3>3
  <2> QED BY <1>1, <1>2, <1>3, <1>4, <1>5, <2>1, <2>2, <2>3, <2>4 DEF Shape
<1>7. CASE ~StopsRetransmission(r)
  <2>1. dev' = Retried(r) /\ up' = [up EXCEPT !.trial = @ + 1, !.phase = "air"] /\ cnf' = cnf
    BY <1>7 DEF WindowEnds
  <2>2. dev' \in Dev /\ Same(r.dev, dev')
    BY <1>2, <2>1 DEF Retried, Dev, Same
  <2>3. up' \in Up /\ up'.phase = "air" /\ up'.ack = up.ack /\ up'.heard = up.heard
    <3>1. up \in Up /\ up.trial + 1 \in Nat
      BY DEF Shape, Up
    <3> QED BY <2>1, <3>1 DEF Up
  <2> QED BY <1>1, <1>2, <1>3, <1>4, <1>5, <2>1, <2>2, <2>3 DEF Shape
<1> QED BY <1>6, <1>7
(* What the network learns moves no counter, and only a transmission it    *)
(* has not heard yet ends what is pending.                                 *)
LEMMA LearntKeeps ==
  ASSUME Shape
  PROVE  /\ Learnt \in Net /\ Learnt.sess = net.sess /\ Learnt.next = net.next
         /\ Learnt.pending = net.pending \/ (Learnt.pending = NoFrame /\ ~up.heard)
<1>1. net \in Net /\ NoFrame \in Frame
  BY DEF Shape, NoFrame, Frame, NoSetup
<1>2. CASE up.heard
  BY <1>1, <1>2 DEF Learnt
<1>3. CASE ~up.heard
  <2>1. PICK m \in {net.pending, NoFrame}, d \in {0, 1}, a \in BOOLEAN :
          Learnt = [net EXCEPT !.pending = m, !.delay = d, !.asks = a]
    <3>1. Learnt = [net EXCEPT !.pending = IF up.ack THEN NoFrame ELSE net.pending,
                               !.delay = IF up.ans /\ net.asks THEN 1 - net.delay ELSE net.delay,
                               !.asks = net.asks /\ ~up.ans]
      BY <1>1, <1>3 DEF Learnt, Net
    <3>2. (IF up.ans /\ net.asks THEN 1 - net.delay ELSE net.delay) \in {0, 1}
      BY <1>1 DEF Net
    <3>3. (net.asks /\ ~up.ans) \in BOOLEAN
      OBVIOUS
    <3>4. (IF up.ack THEN NoFrame ELSE net.pending) \in {net.pending, NoFrame}
      OBVIOUS
    <3> QED BY <3>1, <3>2, <3>3, <3>4
  <2>2. m \in Frame
    BY <1>1 DEF Net
  <2> QED BY <1>1, <1>3, <2>1, <2>2 DEF Net
<1> QED BY <1>2, <1>3

(* What the network sends is of its session, counted, and pending if it is *)
(* confirmed.                                                              *)
LEMMA NetHearsKeeps ==
  ASSUME Shape, NEW next \in Net, NEW frame \in Frame, NetHears(next, frame)
  PROVE  /\ Shape' /\ net' = next /\ down' = frame
         /\ UNCHANGED <<dev, late, ind, cnf>>
         /\ up.phase = "air" /\ up'.phase = "window" /\ up'.heard /\ up'.ack = up.ack
<1>1. up \in Up
  BY DEF Shape
<1>2. /\ up' = [up EXCEPT !.phase = "window", !.heard = TRUE] /\ up.phase = "air"
      /\ net' = next /\ down' = frame /\ UNCHANGED <<dev, late, ind, cnf>>
  BY DEF NetHears
<1>3. up' \in Up /\ up'.phase = "window" /\ up'.heard /\ up'.ack = up.ack
  BY <1>1, <1>2 DEF Up
<1> QED BY <1>2, <1>3 DEF Shape
-----------------------------------------------------------------------------
(* The invariant is inductive. *)

(* After the first join. *)
LEMMA InitInv == Init => Inv
<1> SUFFICES ASSUME Init PROVE Inv
  OBVIOUS
<1>1. NoFrame \in Frame
  BY DEF NoFrame, Frame, NoSetup
<1>2. dev \in Dev
  BY <1>1, LinkAssumption DEF Init, Dev, Counters, LinkAssumption
<1>3. net \in Net
  BY <1>1 DEF Init, Net
<1>4. up \in Up /\ up.phase = "none"
  BY DEF Init, NoUp, Up
<1>5. /\ down = NoFrame /\ late = {} /\ ind \in [status : Statuses, frame : Frame]
      /\ cnf \in [ack : BOOLEAN, heard : BOOLEAN, late : BOOLEAN]
  BY <1>1 DEF Init, NoInd, NoCnf, Statuses
<1>6. Shape
  BY <1>1, <1>2, <1>3, <1>4, <1>5 DEF Shape
<1>7. SessionInv /\ PendingInv /\ DownInv /\ LateInv /\ AckInv /\ AckIsHonest
  BY <1>4, <1>5
     DEF Init, SessionInv, PendingInv, DownInv, LateInv, AckInv, AckIsHonest, NoCnf
<1>8. CounterInv
  BY DEF Init, CounterInv, NoFrame, NoFCnt
<1> QED BY <1>6, <1>7, <1>8 DEF Inv

(* CalcNextV10X() gives a data rate and a counter. *)
LEMMA AdrKeeps ==
  ASSUME NEW d \in Dev
  PROVE  /\ Requested(d) \in Dev /\ Same(d, Requested(d))
         /\ CalcNextV10X(AdrCtrlOn, d.AdrAckCounter, d.dr).dr \in Int
         /\ CalcNextV10X(AdrCtrlOn, d.AdrAckCounter, d.dr).counter \in Int
         /\ CalcNextV10X(AdrCtrlOn, d.AdrAckCounter, d.dr).adrAckReq \in BOOLEAN
<1>1. Requested(d) \in Dev /\ Same(d, Requested(d))
  BY LinkAssumption DEF Requested, Dev, Same, LinkAssumption
<1>2. d.AdrAckCounter \in Int /\ d.dr \in Int
  BY DEF Dev
<1>3. /\ CalcNextV10X(AdrCtrlOn, d.AdrAckCounter, d.dr).dr \in Int
      /\ CalcNextV10X(AdrCtrlOn, d.AdrAckCounter, d.dr).counter \in Int
      /\ CalcNextV10X(AdrCtrlOn, d.AdrAckCounter, d.dr).adrAckReq \in BOOLEAN
  <2>1. CASE ~AdrCtrlOn \/ d.dr = MIN_TX_DR
    <3>1. \E k \in {0, d.AdrAckCounter} :
            CalcNextV10X(AdrCtrlOn, d.AdrAckCounter, d.dr)
              = [dr |-> d.dr, adrAckReq |-> FALSE, counter |-> k]
      BY <2>1 DEF CalcNextV10X
    <3> QED BY <1>2, <3>1
  <2>2. CASE AdrCtrlOn /\ d.dr # MIN_TX_DR
    <3> DEFINE dr == IF Due(d.AdrAckCounter) THEN d.dr - 1 ELSE d.dr
    <3>1. dr \in Int
      BY <1>2
    <3>2. CalcNextV10X(AdrCtrlOn, d.AdrAckCounter, d.dr)
            = [dr |-> dr, counter |-> d.AdrAckCounter,
               adrAckReq |-> d.AdrAckCounter >= ADR_ACK_LIMIT
                               /\ ~(Due(d.AdrAckCounter) /\ dr = MIN_TX_DR)]
      BY <2>2 DEF CalcNextV10X
    <3> HIDE DEF dr
    <3> QED BY <1>2, <3>1, <3>2
  <2> QED BY <2>1, <2>2
<1> QED BY <1>1, <1>3

(* Send() spends what is owed on the Ack bit. *)
LEMMA SendStep ==
  ASSUME Inv, NEW confirmed \in BOOLEAN, Send(confirmed) PROVE Inv'
<1> DEFINE d == Requested(dev)
           adr == CalcNextV10X(AdrCtrlOn, d.AdrAckCounter, d.dr)
<1>1. /\ dev \in Dev /\ d \in Dev /\ Same(dev, d)
      /\ adr.dr \in Int /\ adr.counter \in Int
  BY AdrKeeps DEF Inv, Shape
<1>2. dev' = [d EXCEPT !.dr = adr.dr, !.AdrAckCounter = adr.counter, !.SrvAckRequested = FALSE]
  BY DEF Send, Sent
<1>3. /\ dev' \in Dev /\ dev'.sess = dev.sess /\ dev'.joined = dev.joined
      /\ dev'.FCntDown = dev.FCntDown /\ dev'.LastRxMic = dev.LastRxMic
      /\ dev'.SrvAckRequested = FALSE
  <2> HIDE DEF d, adr
  <2>1. [d EXCEPT !.dr = adr.dr, !.AdrAckCounter = adr.counter, !.SrvAckRequested = FALSE] \in Dev
    BY <1>1 DEF Dev
  <2> QED BY <1>1, <1>2, <2>1 DEF Dev, Same
<1>4. /\ up' \in Up /\ up'.phase = "air" /\ up'.heard = FALSE
      /\ up'.ack = dev.SrvAckRequested
  <2>1. /\ dev.SrvAckRequested \in BOOLEAN /\ dev.stickyAns \in BOOLEAN
        /\ CalcNextV10X(AdrCtrlOn, dev.AdrAckCounter, dev.dr).adrAckReq \in BOOLEAN
    BY <1>1, AdrKeeps DEF Dev
  <2> HIDE DEF d, adr
  <2> QED BY <2>1 DEF Send, NoUp, Up
<1>5. /\ dev.joined /\ UNCHANGED <<net, down, late>> /\ ind' = NoInd /\ cnf' = NoCnf
      /\ up.phase = "none"
  BY DEF Send, NoUp
<1>6. NoFrame \in Frame /\ "none" \in Statuses
  BY DEF NoFrame, Frame, NoSetup, Statuses
<1> HIDE DEF d, adr
<1>7. Shape'
  BY <1>3, <1>4, <1>5, <1>6 DEF Inv, Shape, NoInd, NoCnf
<1>8. SessionInv' /\ PendingInv' /\ AckInv' /\ AckIsHonest' /\ CounterInv'
  BY <1>3, <1>4, <1>5 DEF Inv, SessionInv, PendingInv, AckInv, AckIsHonest, CounterInv, NoCnf
<1>9. DownInv' /\ LateInv'
  BY <1>5 DEF Inv, DownInv, LateInv
<1> QED BY <1>7, <1>8, <1>9 DEF Inv

(* A refused uplink leaves all but the data rate. *)
LEMMA RefusedStep ==
  ASSUME Inv, SendRefused PROVE Inv'
<1>1. dev' = Requested(dev) /\ UNCHANGED <<net, up, down, late, ind, cnf>>
  BY DEF SendRefused, NotSent
<1>2. dev' \in Dev /\ Same(dev, dev')
  BY <1>1, AdrKeeps DEF Inv, Shape
<1> QED
  BY <1>1, <1>2 DEF Inv, Shape, SessionInv, PendingInv, DownInv, LateInv, CounterInv, AckInv,
     AckIsHonest, Same

(* A lost uplink is one the network has not heard now. *)
LEMMA LostStep ==
  ASSUME Inv, UplinkLost PROVE Inv'
<1>1. /\ up.phase = "air" /\ up' = [up EXCEPT !.phase = "window"] /\ up \in Up
      /\ UNCHANGED <<dev, net, down, late, ind, cnf>>
  BY DEF UplinkLost, Inv, Shape
<1>2. up' \in Up /\ up'.phase = "window" /\ up'.heard = up.heard /\ up'.ack = up.ack
  BY <1>1 DEF Up
<1> QED
  BY <1>1, <1>2
     DEF Inv, Shape, SessionInv, PendingInv, DownInv, LateInv, CounterInv, AckInv, AckIsHonest

(* What the network knows after the uplink, and the frame it answers with. *)
Answered(next, frame) ==
  /\ next.sess = net.sess /\ next.next >= net.next
  /\ \/ next.pending = NoFrame
     \/ next.pending = net.pending /\ next.next = net.next
     \/ /\ next.pending = frame /\ frame.confirmed /\ frame.sess = net.sess
        /\ frame.cnt + 1 = next.next
  /\ next.pending # net.pending => net.pending = NoFrame \/ ~up.heard
  /\ frame # NoFrame => /\ frame.sess = net.sess /\ frame.cnt < next.next
                        /\ frame.confirmed => next.pending = frame

(* The network hears the uplink and answers with a frame of its session,   *)
(* pending if it is confirmed, or not at all.                              *)
LEMMA HeardStep ==
  ASSUME Inv, NEW next \in Net, NEW frame \in Frame, NetHears(next, frame),
         Answered(next, frame)
  PROVE  Inv'
<1>1. /\ Shape' /\ net' = next /\ down' = frame /\ UNCHANGED <<dev, late, ind, cnf>>
      /\ up.phase = "air" /\ up'.phase = "window" /\ up'.heard /\ up'.ack = up.ack
  BY NetHearsKeeps DEF Inv
<1>2. dev \in Dev /\ net \in Net
  BY DEF Inv, Shape
<1>3. SessionInv' /\ AckIsHonest'
  BY <1>1 DEF Inv, SessionInv, AckIsHonest, Answered
<1>4. PendingInv' /\ DownInv' /\ LateInv'
  <2>1. PendingInv' /\ DownInv'
    BY <1>1 DEF Inv, PendingInv, DownInv, Answered
  <2>2. LateInv'
    BY <1>1, <1>2 DEF Inv, Shape, LateInv, Frame, Net, Answered
  <2> QED BY <2>1, <2>2
<1>5. CounterInv'
  BY <1>1, <1>2 DEF Inv, CounterInv, Dev, Net, Counters, NoFCnt, Answered
<1>6. AckInv'
  <2>1. Punctual /\ dev.SrvAckRequested => up.heard /\ net.pending # NoFrame
    BY <1>1 DEF Inv, AckInv
  <2>2. Punctual /\ dev.SrvAckRequested => next.pending = net.pending
    BY <2>1 DEF Answered
  <2> QED BY <1>1, <2>1, <2>2 DEF Inv, AckInv
<1> QED BY <1>1, <1>3, <1>4, <1>5, <1>6 DEF Inv
(* A confirmed frame of the network, sent again or new, is the pending one.*)
LEMMA NetStep ==
  ASSUME Inv, Arrives PROVE Inv'
<1>1. /\ Learnt \in Net /\ Learnt.sess = net.sess /\ Learnt.next = net.next
      /\ Learnt.pending = net.pending \/ (Learnt.pending = NoFrame /\ ~up.heard)
  BY LearntKeeps DEF Inv
<1>2. NoFrame \in Frame
  BY DEF NoFrame, Frame, NoSetup
<1>3. net \in Net /\ up \in Up
  BY DEF Inv, Shape
<1>4. CASE NetSilent
  <2>1. NetHears(Learnt, NoFrame)
    BY <1>4 DEF NetSilent
  <2>2. Answered(Learnt, NoFrame)
    BY <1>1, <1>3 DEF Answered, Net
  <2> QED BY <1>1, <1>2, <2>1, <2>2, HeardStep
<1>5. CASE NetRepeats
  <2>1. NetHears(Learnt, Learnt.pending) /\ Learnt.pending # NoFrame
    BY <1>5 DEF NetRepeats
  <2>2. /\ Learnt.pending = net.pending /\ net.pending # NoFrame
        /\ net.pending.confirmed /\ net.pending.sess = net.sess
        /\ net.pending.cnt + 1 = net.next /\ net.pending \in Frame
    BY <1>1, <1>3, <2>1 DEF Inv, PendingInv, Net
  <2>3. net.pending.cnt < Learnt.next /\ Learnt.next >= net.next
    BY <1>1, <1>3, <2>2 DEF Net, Frame
  <2>4. Answered(Learnt, Learnt.pending) /\ Learnt.pending \in Frame
    BY <1>1, <1>3, <2>1, <2>2, <2>3 DEF Answered
  <2> QED BY <1>1, <2>1, <2>4, HeardStep
<1>6. ASSUME NEW confirmed \in BOOLEAN, NEW asks \in BOOLEAN, NetSends(confirmed, asks)
      PROVE  Inv'
  <2> DEFINE f == NewFrame(Learnt, confirmed, asks)
             n == [Learnt EXCEPT !.next = @ + 1, !.asks = @ \/ asks,
                     !.pending = IF confirmed THEN f ELSE NoFrame]
  <2>1. NetHears(n, f) /\ (Learnt.pending = NoFrame \/ ~up.heard)
    BY <1>6 DEF NetSends
  <2>2. /\ f \in Frame /\ f.confirmed = confirmed
        /\ f.sess = net.sess /\ f.cnt = net.next
    <3>1. (IF asks THEN 1 - Learnt.delay ELSE NoSetup) \in {NoSetup, 0, 1}
      BY <1>1 DEF Net
    <3>2. up.confirmed \in BOOLEAN
      BY <1>3 DEF Up
    <3> QED BY <1>1, <1>3, <3>1, <3>2 DEF NewFrame, Frame, Net
  <2> HIDE DEF f
  <2>3. (IF confirmed THEN f ELSE NoFrame) \in Frame
    BY <1>2, <2>2
  <2>4. /\ n \in Net /\ n.sess = net.sess /\ n.next = net.next + 1
        /\ n.pending = IF confirmed THEN f ELSE NoFrame
    <3>1. ASSUME NEW m \in Frame, NEW a \in BOOLEAN, NEW k \in Nat
          PROVE  [Learnt EXCEPT !.next = k, !.asks = a, !.pending = m] \in Net
      BY <1>1 DEF Net
    <3>2. Learnt.next + 1 \in Nat /\ (Learnt.asks \/ asks) \in BOOLEAN
      BY <1>1 DEF Net
    <3>3. n = [Learnt EXCEPT !.next = Learnt.next + 1, !.asks = Learnt.asks \/ asks,
                 !.pending = IF confirmed THEN f ELSE NoFrame]
      BY <1>1 DEF Net
    <3>4. n \in Net
      <4> HIDE DEF n
      <4> QED BY <2>3, <3>1, <3>2, <3>3
    <3> QED BY <1>1, <3>4 DEF Net
  <2> HIDE DEF n
  <2>5. net.pending = NoFrame \/ ~up.heard
    BY <1>1, <2>1
  <2>6. n.next >= net.next /\ f.cnt < n.next /\ f.cnt + 1 = n.next
    BY <1>3, <2>2, <2>4 DEF Net
  <2>7. Answered(n, f)
    BY <2>2, <2>4, <2>5, <2>6 DEF Answered
  <2> QED BY <2>1, <2>2, <2>4, <2>7, HeardStep
<1> QED BY <1>4, <1>5, <1>6 DEF Arrives
(* What the window may bring: nothing the device takes, the pending frame  *)
(* again, or a frame that is ahead, in its window or late.                 *)
LEMMA WindowStep ==
  ASSUME Inv, NEW r \in Results, WindowEnds(r),
         \/ Same(dev, r.dev) /\ r.ack = FALSE
         \/ \E frame \in late \cup {down} :
              /\ frame # NoFrame
              /\ OwedAgain(dev, frame, r) \/ Taken(dev, frame, r)
  PROVE  Inv'
<1>1. /\ Shape' /\ Same(r.dev, dev')
      /\ up.phase = "window" /\ down' = NoFrame /\ net' = net
      /\ \/ /\ up'.phase = "none" /\ (cnf'.ack => r.ack) /\ cnf'.heard = up.heard
            /\ cnf'.late = (r.ind.frame \in late)
         \/ up'.phase = "air" /\ up'.ack = up.ack /\ up'.heard = up.heard /\ cnf' = cnf
      /\ \A frame \in late' :
           (frame \in late \/ (frame = down /\ down # NoFrame))
           /\ frame.confirmed \in LateTypes
  BY WindowEndsKeeps DEF Inv
<1>2. /\ dev \in Dev /\ net \in Net /\ down \in Frame /\ late \in SUBSET Frame
      /\ dev.joined /\ dev.sess = net.sess
  BY <1>1 DEF Inv, Shape, SessionInv
<1>3. PendingInv' /\ DownInv' /\ LateInv'
  BY <1>1 DEF Inv, PendingInv, DownInv, LateInv
<1>4. CASE Same(dev, r.dev) /\ r.ack = FALSE
  <2>1. Same(dev, dev')
    BY <1>1, <1>4 DEF Same
  <2>2. SessionInv' /\ CounterInv' /\ AckInv'
    BY <1>1, <1>2, <2>1 DEF Inv, SessionInv, CounterInv, AckInv, Same
  <2>3. AckIsHonest'
    BY <1>1, <1>4 DEF Inv, AckIsHonest
  <2> QED BY <1>1, <1>3, <2>2, <2>3 DEF Inv
<1>5. ASSUME NEW frame \in late \cup {down}, frame # NoFrame, OwedAgain(dev, frame, r)
      PROVE  Inv'
  <2>1. frame.confirmed /\ dev.LastRxMic = frame /\ r.ack = FALSE
    BY <1>5 DEF OwedAgain
  <2>2. /\ dev'.sess = dev.sess /\ dev'.joined = dev.joined /\ dev'.FCntDown = dev.FCntDown
        /\ dev'.LastRxMic = dev.LastRxMic
    BY <1>1, <1>2, <1>5 DEF OwedAgain, Same, Dev
  <2>3. SessionInv' /\ CounterInv'
    BY <1>1, <2>2 DEF Inv, SessionInv, CounterInv
  <2>4. AckIsHonest'
    BY <1>1, <2>1 DEF Inv, AckIsHonest
  <2>5. ASSUME Punctual PROVE AckInv'
    <3>1. frame \notin late
      BY <2>1, <2>5 DEF Inv, LateInv, Punctual
    <3>2. /\ net.pending = down /\ up.heard /\ down.sess = net.sess
          /\ down.cnt + 1 = net.next /\ dev.LastRxMic = down
      BY <1>5, <2>1, <3>1 DEF Inv, DownInv, PendingInv
    <3>3. dev.FCntDown = net.pending.cnt
      BY <1>2, <3>2 DEF Inv, CounterInv, Dev, Net, Frame, Counters, NoFCnt
    <3> QED BY <1>1, <1>2, <1>5, <2>2, <3>1, <3>2, <3>3 DEF AckInv
  <2>6. AckInv'
    BY <2>5 DEF AckInv
  <2> QED BY <1>1, <1>3, <2>3, <2>4, <2>6 DEF Inv
<1>6. ASSUME NEW frame \in late \cup {down}, frame # NoFrame, Taken(dev, frame, r)
      PROVE  Inv'
  <2>1. frame \in Frame /\ frame.sess = net.sess /\ frame.cnt < net.next
    BY <1>2, <1>6 DEF Inv, DownInv, LateInv
  <2>2. /\ dev'.sess = dev.sess /\ dev'.joined = dev.joined /\ dev'.FCntDown = frame.cnt
        /\ dev'.SrvAckRequested = frame.confirmed
        /\ dev'.LastRxMic = IF frame.confirmed THEN frame ELSE dev.LastRxMic
    BY <1>1, <1>6 DEF Taken, Same
  <2>3. frame.cnt > dev.FCntDown
    BY <1>2, <1>6, <2>1, UnsecuredIsAhead DEF Taken, Dev
  <2>4. SessionInv'
    BY <1>1, <1>2, <2>2 DEF Inv, SessionInv
  <2>5. CounterInv'
    BY <1>1, <1>2, <2>1, <2>2, <2>3 DEF Inv, CounterInv, Dev, Net, Frame, Counters, NoFCnt
  <2>6. AckIsHonest'
    <3>1. r.ind.frame = frame /\ (frame \in late \/ up.heard)
      BY <1>6 DEF Taken, Inv, DownInv
    <3> QED BY <1>1, <3>1 DEF Inv, AckIsHonest
  <2>7. AckInv'
    <3>1. CASE frame = down
      <4>1. up.heard /\ (frame.confirmed => net.pending = frame)
        BY <1>6, <3>1 DEF Inv, DownInv
      <4> QED BY <1>1, <1>2, <1>6, <2>1, <2>2, <4>1 DEF Inv, AckInv
    <3>2. CASE frame \in late
      <4>1. ASSUME Punctual PROVE ~frame.confirmed
        BY <3>2, <4>1 DEF Inv, LateInv, Punctual
      <4>2. net.pending # NoFrame => dev.FCntDown # net.pending.cnt
        BY <1>2, <2>1, <2>3 DEF Inv, PendingInv, Dev, Net, Frame, Counters, NoFCnt
      <4> QED BY <1>1, <2>2, <4>1, <4>2 DEF Inv, AckInv
    <3> QED BY <1>6, <3>1, <3>2
  <2> QED BY <1>1, <1>3, <2>4, <2>5, <2>6, <2>7 DEF Inv
<1> QED BY <1>4, <1>5, <1>6

(* A frame of an older session, or behind the counter, is not taken, nor   *)
(* taken for a repetition.                                                 *)
LEMMA StrayIsRejected ==
  ASSUME Inv, NEW frame \in Frame, HearsStray(frame)
  PROVE  Rejected(dev, RxData(dev, frame))
<1>1. /\ dev \in Dev /\ frame # dev.LastRxMic
      /\ frame.sess < dev.sess \/ (frame.sess = dev.sess /\ frame.cnt <= dev.FCntDown)
  BY DEF HearsStray, Inv, Shape
<1>2. ~UnsecureMessage(dev.sess, dev.FCntDown, frame)
  BY <1>1, UnsecuredIsAhead DEF Dev, Frame, Counters, NoFCnt
<1> QED BY <1>1, <1>2, RxOutcome DEF OwedAgain, Taken

(* Frames of the instance are frames. *)
LEMMA StrayIsFrame == StrayFrames \subseteq Frame
BY LinkAssumption DEF StrayFrames, Frames, Frame, LinkAssumption

(* A new session starts both counters, and nothing is pending in it.       *)
LEMMA JoinStep ==
  ASSUME Inv, JoinFails \/ Joins PROVE Inv'
<1>1. dev \in Dev /\ net \in Net /\ up.phase = "none" /\ NewSession \in Net
  <2>1. NoFrame \in Frame
    BY DEF NoFrame, Frame, NoSetup
  <2>2. dev \in Dev /\ net \in Net
    BY DEF Inv, Shape
  <2> QED BY <2>1, <2>2 DEF JoinFails, Joins, NoUp, NewSession, Net
<1>2. UNCHANGED <<up, down>> /\ late' = {} /\ ind' = NoInd /\ cnf' = NoCnf
  BY DEF JoinFails, Joins
<1>3. /\ ResetMacParameters(dev) \in Dev /\ ~ResetMacParameters(dev).joined
      /\ ~ResetMacParameters(dev).SrvAckRequested
      /\ ResetMacParameters(dev).sess = dev.sess
      /\ ResetMacParameters(dev).FCntDown = dev.FCntDown
      /\ ResetMacParameters(dev).LastRxMic = dev.LastRxMic
  <2>1. MaxDR \in Int
    BY LinkAssumption DEF LinkAssumption
  <2>2. [dev EXCEPT !.joined = FALSE, !.SrvAckRequested = FALSE] \in Dev
    BY <1>1 DEF Dev
  <2>3. ASSUME NEW e \in Dev, NEW a \in Int, NEW b \in Int
        PROVE  [e EXCEPT !.AdrAckCounter = a, !.dr = b] \in Dev
    BY DEF Dev
  <2>4. ResetMacParameters(dev)
          = [[dev EXCEPT !.joined = FALSE, !.SrvAckRequested = FALSE]
               EXCEPT !.AdrAckCounter = 0, !.dr = MaxDR]
    BY <1>1 DEF ResetMacParameters, Dev
  <2>5. ResetMacParameters(dev) \in Dev
    <3> DEFINE e == [dev EXCEPT !.joined = FALSE, !.SrvAckRequested = FALSE]
    <3>1. e \in Dev
      BY <2>2
    <3>2. 0 \in Int
      OBVIOUS
    <3> HIDE DEF e
    <3>3. [e EXCEPT !.AdrAckCounter = 0, !.dr = MaxDR] \in Dev
      BY <2>1, <2>3, <3>1, <3>2
    <3> QED BY <2>4, <3>3 DEF e
  <2> QED BY <1>1, <2>5 DEF ResetMacParameters, Dev
<1>4. /\ ind' \in [status : Statuses, frame : Frame]
      /\ cnf' \in [ack : BOOLEAN, heard : BOOLEAN, late : BOOLEAN]
  BY <1>2 DEF NoInd, NoCnf, NoFrame, Frame, NoSetup, Statuses
<1>5. down = NoFrame
  BY <1>1 DEF Inv, DownInv
<1>6. DownInv' /\ LateInv' /\ AckIsHonest'
  BY <1>2, <1>5 DEF DownInv, LateInv, AckIsHonest, NoCnf
<1>7. CASE JoinFails
  <2>1. dev' = ResetMacParameters(dev) /\ net' \in {net, NewSession}
    BY <1>7 DEF JoinFails
  <2>2. net'.sess >= net.sess /\ net' \in Net /\ (net' = net \/ net'.pending = NoFrame)
    <3>1. NewSession.sess = net.sess + 1 /\ NewSession.pending = NoFrame
      BY DEF NewSession
    <3>2. net.sess \in Nat
      BY <1>1 DEF Net
    <3> QED BY <1>1, <2>1, <3>1, <3>2
  <2>3. Shape'
    BY <1>2, <1>3, <1>4, <2>1, <2>2 DEF Inv, Shape
  <2>4. SessionInv' /\ PendingInv' /\ CounterInv' /\ AckInv'
    BY <1>1, <1>2, <1>3, <2>1, <2>2
       DEF Inv, SessionInv, PendingInv, CounterInv, AckInv, Dev, Net
  <2> QED BY <1>6, <2>3, <2>4 DEF Inv
<1>8. CASE Joins
  <2> DEFINE d == ResetMacParameters(dev)
  <2>1. net' = NewSession /\ dev' = JoinAccept(d, net'.sess)
    BY <1>8 DEF Joins
  <2>2. net' \in Net /\ net'.sess = net.sess + 1 /\ net'.next = 0 /\ net'.pending = NoFrame
    BY <1>1, <2>1 DEF NewSession
  <2>3. /\ dev' \in Dev /\ dev'.sess = net'.sess /\ dev'.FCntDown = NoFCnt
        /\ ~dev'.SrvAckRequested /\ dev'.LastRxMic = dev.LastRxMic
    <3>1. ASSUME NEW k \in Nat, NEW e \in Dev
          PROVE  /\ JoinAccept(e, k) \in Dev /\ JoinAccept(e, k).sess = k
                 /\ JoinAccept(e, k).FCntDown = NoFCnt
                 /\ JoinAccept(e, k).SrvAckRequested = e.SrvAckRequested
                 /\ JoinAccept(e, k).LastRxMic = e.LastRxMic
      <4>1. NoFCnt \in Counters
        BY DEF Counters
      <4> QED BY <4>1 DEF JoinAccept, Dev
    <3>2. net'.sess \in Nat
      BY <2>2 DEF Net
    <3> HIDE DEF d
    <3>3. d \in Dev /\ ~d.SrvAckRequested /\ d.LastRxMic = dev.LastRxMic
      BY <1>3 DEF d
    <3> QED BY <2>1, <3>1, <3>2, <3>3
  <2>4. Shape'
    BY <1>2, <1>4, <2>2, <2>3 DEF Inv, Shape
  <2>5. SessionInv' /\ PendingInv' /\ AckInv'
    BY <1>1, <1>2, <2>2, <2>3 DEF Inv, SessionInv, PendingInv, AckInv, Dev, Net
  <2>6. CounterInv'
    BY <1>1, <2>2, <2>3 DEF Inv, SessionInv, CounterInv, Dev, Net, Frame, NoFCnt
  <2> QED BY <1>6, <2>4, <2>5, <2>6 DEF Inv
<1> QED BY <1>7, <1>8
(* What the device makes of a window with no frame, the network's, a late  *)
(* or a stray one.                                                         *)
LEMMA RxStep ==
  ASSUME Inv,
         \/ Silence \/ Hears
         \/ \E frame \in late : HearsLate(frame)
         \/ \E frame \in StrayFrames : HearsStray(frame)
  PROVE  Inv'
<1>1. dev \in Dev /\ down \in Frame /\ late \in SUBSET Frame
  BY DEF Inv, Shape
<1>2. CASE Silence
  <2> DEFINE r == [dev |-> dev, ind |-> NoInd, ack |-> FALSE]
  <2>1. WindowEnds(r)
    BY <1>2 DEF Silence
  <2>2. r \in Results /\ Same(dev, r.dev) /\ r.ack = FALSE
    <3>1. NoInd \in [status : Statuses, frame : Frame]
      BY DEF NoInd, NoFrame, Frame, NoSetup, Statuses
    <3> QED BY <1>1, <3>1 DEF Results, Same
  <2> HIDE DEF r
  <2> QED BY <2>1, <2>2, WindowStep
<1>3. CASE Hears
  <2>1. down # NoFrame /\ WindowEnds(RxData(dev, down))
    BY <1>3 DEF Hears
  <2> QED BY <1>1, <2>1, RxOutcome, WindowStep DEF Rejected
<1>4. ASSUME NEW frame \in StrayFrames, HearsStray(frame) PROVE Inv'
  <2>1. frame \in Frame /\ WindowEnds(RxData(dev, frame))
    BY <1>4, StrayIsFrame DEF HearsStray
  <2> QED BY <1>1, <1>4, <2>1, StrayIsRejected, RxOutcome, WindowStep DEF Rejected
<1>5. ASSUME NEW frame \in late, HearsLate(frame) PROVE Inv'
  <2>1. frame \in Frame /\ WindowEnds(RxData(dev, frame))
    BY <1>1, <1>5 DEF HearsLate
  <2>2. RxData(dev, frame) \in Results
    BY <1>1, <2>1, RxOutcome
  <2>3. CASE Rejected(dev, RxData(dev, frame))
    BY <2>1, <2>2, <2>3, WindowStep DEF Rejected
  <2>4. CASE frame # NoFrame /\ ~Rejected(dev, RxData(dev, frame))
    BY <1>1, <1>5, <2>1, <2>2, <2>4, RxOutcome, WindowStep
  <2>5. frame # NoFrame
    BY <1>1, <1>5 DEF Inv, LateInv, SessionInv, Shape, Net, Dev, NoFrame
  <2> QED BY <2>3, <2>4, <2>5
<1> QED BY <1>2, <1>3, <1>4, <1>5

(* Every step keeps the invariant. *)
LEMMA StepInv == Inv /\ [Next]_vars => Inv'
<1> SUFFICES ASSUME Inv, [Next]_vars PROVE Inv'
  OBVIOUS
<1>1. CASE UNCHANGED vars
  BY <1>1
     DEF vars, Inv, Shape, SessionInv, PendingInv, DownInv, LateInv, CounterInv, AckInv, AckIsHonest
<1>2. CASE Next
  BY <1>2, SendStep, RefusedStep, LostStep, NetStep, RxStep, JoinStep DEF Next, Arrives
<1> QED BY <1>1, <1>2

(* It holds in every behaviour. *)
LEMMA Invariance == Spec => []Inv
BY InitInv, StepInv, PTL DEF Spec

-----------------------------------------------------------------------------
(* The properties *)

(* An uplink the application is told was acknowledged has been heard, or a *)
(* late frame of the session brought the Ack (McpsConfirm.AckReceived of   *)
(* LoRaMac.c): no frame that was heard before, of an older session or of   *)
(* another device acknowledges anything.                                   *)
THEOREM AcksAreHonest == Spec => []AckIsHonest
<1>1. Inv => AckIsHonest
  BY DEF Inv
<1> QED BY <1>1, Invariance, PTL

(* Only a frame of the network, in its window or late, can come out of a   *)
(* window as "OK", and only when it was taken.                             *)
LEMMA DeliveredIsTaken ==
  ASSUME Inv, [Next]_vars, Delivers
  PROVE  \E frame \in late \cup {down} :
           /\ Taken(dev, frame, RxData(dev, frame)) /\ frame \in Frame
           /\ Same(RxData(dev, frame).dev, dev') /\ ind' = RxData(dev, frame).ind
<1>1. dev \in Dev /\ down \in Frame /\ late \in SUBSET Frame /\ Shape
  BY DEF Inv, Shape
<1>2. ind' # ind /\ ind'.status = "OK" /\ ind' # NoInd
  BY DEF Delivers, NoInd
<1>3. ~Silence
  BY <1>2 DEF Silence, WindowEnds
<1>4. ASSUME NEW frame \in StrayFrames, HearsStray(frame) PROVE FALSE
  <2>1. frame \in Frame /\ ind' = RxData(dev, frame).ind
    BY <1>4, StrayIsFrame DEF HearsStray, WindowEnds
  <2> QED BY <1>2, <1>4, <2>1, StrayIsRejected DEF Rejected
<1>5. PICK frame \in late \cup {down} : WindowEnds(RxData(dev, frame))
  <2>1. Hears \/ \E frame \in late : HearsLate(frame)
    BY <1>2, <1>3, <1>4 DEF Next, vars, Send, SendRefused, UplinkLost, NetSilent, NetRepeats,
       NetSends, NetHears, JoinFails, Joins
  <2> QED BY <2>1 DEF Hears, HearsLate
<1>6. /\ frame \in Frame /\ RxData(dev, frame) \in Results
      /\ \/ Rejected(dev, RxData(dev, frame))
         \/ OwedAgain(dev, frame, RxData(dev, frame))
         \/ Taken(dev, frame, RxData(dev, frame))
  BY <1>1, RxOutcome
<1>7. Same(RxData(dev, frame).dev, dev') /\ ind' = RxData(dev, frame).ind
  BY <1>1, <1>5, <1>6, WindowEndsKeeps
<1> QED BY <1>2, <1>6, <1>7 DEF Rejected, OwedAgain

(* The application gets the frames of its session in the order of their    *)
(* counters, none twice (LoRaMacCryptoGetFCntDown() and the MIC over the   *)
(* guessed counter), whatever is lost, late, repeated or sent again.       *)
THEOREM DeliveriesAreOnce == Spec => DeliveredOnce
<1>1. ASSUME Inv, [Next]_vars, Delivers
      PROVE  /\ ind'.frame.sess = dev.sess /\ ind'.frame.cnt > dev.FCntDown
             /\ dev'.FCntDown = ind'.frame.cnt
  <2>1. PICK frame \in Frame :
          /\ Taken(dev, frame, RxData(dev, frame))
          /\ Same(RxData(dev, frame).dev, dev') /\ ind' = RxData(dev, frame).ind
    BY <1>1, DeliveredIsTaken
  <2>2. ind'.frame = frame /\ dev'.FCntDown = frame.cnt
    BY <2>1 DEF Taken, Same
  <2>3. frame.sess = dev.sess /\ frame.cnt > dev.FCntDown
    BY <1>1, <2>1, UnsecuredIsAhead DEF Taken, Inv, Shape, Dev
  <2> QED BY <2>2, <2>3
<1> QED BY <1>1, Invariance, PTL DEF Spec, DeliveredOnce

(* A frame of the session that is ahead by less than MAX_FCNT_GAP is never *)
(* refused, in its window or late, roll-over of the 16 bit field or not.   *)
THEOREM FreshFramesArrive == Spec => FreshIsDelivered
<1>1. ASSUME Inv, NEW frame \in late \cup {down}, Lands(frame), frame.sess = dev.sess,
             frame.cnt > dev.FCntDown, InReach(dev.FCntDown, frame.cnt)
      PROVE  ind' = [status |-> "OK", frame |-> frame]
  <2>1. dev \in Dev /\ frame \in Frame /\ frame.cnt \in Nat /\ dev.FCntDown \in Counters
    BY <1>1 DEF Inv, Shape, Dev, Frame
  <2>2. /\ GetFCntDown(dev.FCntDown, frame.cnt % Lsb) = "SUCCESS"
        /\ UnsecureMessage(dev.sess, dev.FCntDown, frame)
    <3>1. CASE dev.FCntDown = NoFCnt
      <4>1. frame.cnt % Lsb = frame.cnt
        BY <1>1, <2>1, <3>1, CounterAssumption DEF InReach, CounterAssumption
      <4>2. Guess(dev.FCntDown, frame.cnt % Lsb) = frame.cnt
        BY <3>1, <4>1 DEF Guess
      <4> QED BY <1>1, <3>1, <4>2 DEF GetFCntDown, TooFar, UnsecureMessage, MicVerifies
    <3>2. CASE dev.FCntDown # NoFCnt
      <4>1. dev.FCntDown \in Nat
        BY <2>1, <3>2 DEF Counters
      <4>2. frame.cnt \in dev.FCntDown + 1 .. dev.FCntDown + MAX_FCNT_GAP - 1
        BY <1>1, <2>1, <3>2, <4>1, CounterAssumption DEF InReach, CounterAssumption
      <4> QED BY <1>1, <2>1, <4>1, <4>2, AcceptedExactly
    <3> QED BY <3>1, <3>2
  <2>3. RxData(dev, frame).ind = [status |-> "OK", frame |-> frame]
    BY <2>2 DEF RxData
  <2>4. WindowEnds(RxData(dev, frame))
    BY <1>1 DEF Lands, Hears, HearsLate
  <2> QED BY <2>3, <2>4 DEF WindowEnds
<1>2. Inv => \A frame \in late \cup {down} :
               Lands(frame) /\ frame.sess = dev.sess /\ frame.cnt > dev.FCntDown
               /\ InReach(dev.FCntDown, frame.cnt)
               => ind' = [status |-> "OK", frame |-> frame]
  BY <1>1
<1> QED BY <1>2, Invariance, PTL DEF Spec, FreshIsDelivered

(* When the network takes an Ack bit for the frame it waits for, the       *)
(* device has that frame: SrvAckRequested is never spent on another        *)
(* (LoRaMac.c, ProcessRadioRxDone() and PrepareFrame()), if no confirmed   *)
(* frame is late.                                                          *)
THEOREM ServerAcksAreHonest ==
  ASSUME LateTypes \subseteq {FALSE}
  PROVE  Spec => ServerAckIsHonest
<1>1. ASSUME Inv, [Next]_vars, ~up.heard, up'.heard, up.ack, net.pending # NoFrame
      PROVE  dev.sess = net.sess /\ dev.FCntDown = net.pending.cnt
  <2>1. up.phase # "none"
    <3>1. ASSUME up.phase = "none" PROVE FALSE
      <4>1. ~Arrives /\ ~UplinkLost /\ ~Silence /\ ~Hears
            /\ (\A frame \in late : ~HearsLate(frame))
            /\ (\A frame \in StrayFrames : ~HearsStray(frame))
        BY <3>1 DEF Arrives, NetSilent, NetRepeats, NetSends, NetHears, UplinkLost,
           Silence, Hears, HearsLate, HearsStray, WindowEnds
      <4> QED BY <1>1, <4>1 DEF Next, Arrives, vars, Send, SendRefused, JoinFails, Joins, NoUp
    <3> QED BY <3>1
  <2> QED BY <1>1, <2>1 DEF Inv, SessionInv, AckInv, Punctual
<1> QED BY <1>1, Invariance, PTL DEF Spec, ServerAckIsHonest

-----------------------------------------------------------------------------
(* The ADR back-off.  The history "asked" has no place in the code: what a *)
(* step of the back-off rests on is that the counter has grown by one with *)
(* every uplink that asked.                                                *)

(* The first counter with which an uplink after a sign of life asks. *)
FirstAsk == IF ADR_ACK_LIMIT = 0 THEN 1 ELSE ADR_ACK_LIMIT

(* How many uplinks have asked at least when the counter stands here: all  *)
(* since the first, or all since the last step.                            *)
AskedBy(counter) ==
  IF counter - FirstAsk <= ((counter - 2) % ADR_ACK_DELAY) + 1
  THEN counter - FirstAsk ELSE ((counter - 2) % ADR_ACK_DELAY) + 1

(* Does the counter already know what became of the last uplink? *)
Counted == up = NoUp /\ ind.status \in {"none", "OK"}

(* The uplinks that asked are as many as the counter says, one more while  *)
(* an uplink is out or its window was not judged silent.                   *)
AdrInv ==
  /\ MIN_TX_DR <= dev.dr /\ dev.dr <= MaxDR /\ dev.AdrAckCounter >= 0
  /\ asked \in Int /\ 0 <= asked /\ asked <= ADR_ACK_DELAY
  /\ AdrCtrlOn /\ dev.dr > MIN_TX_DR =>
       asked >= AskedBy(IF Counted THEN dev.AdrAckCounter ELSE dev.AdrAckCounter + 1)

(* The remainder goes up by one, or back to zero. *)
LEMMA RemainderUp ==
  ASSUME NEW d \in Nat, d > 1, NEW n \in Nat
  PROVE  /\ n % d \in 0 .. d - 1
         /\ (n + 1) % d = IF n % d = d - 1 THEN 0 ELSE (n % d) + 1
<1> DEFINE q == n \div d
           r == n % d
<1>1. q \in Nat /\ r \in 0 .. d - 1 /\ n = d * q + r
  BY SMTT(30)
<1> HIDE DEF q, r
<1>2. ASSUME NEW k \in Nat, NEW s \in 0 .. d - 1 PROVE (d * k + s) % d = s
  BY SMTT(30)
<1>3. CASE r = d - 1
  <2>1. n + 1 = d * (q + 1) + 0
    BY <1>1, <1>3
  <2>2. (d * (q + 1) + 0) % d = 0
    BY <1>1, <1>2
  <2> QED BY <1>1, <1>3, <2>1, <2>2 DEF r
<1>4. CASE r # d - 1
  <2>1. n + 1 = d * q + (r + 1) /\ r + 1 \in 0 .. d - 1
    BY <1>1, <1>4
  <2>2. (d * q + (r + 1)) % d = r + 1
    BY <1>1, <1>2, <2>1
  <2> QED BY <1>1, <1>4, <2>1, <2>2 DEF r
<1> QED BY <1>3, <1>4

(* What AskedBy() says of a counter, and of the next. *)
LEMMA AskedByFacts ==
  ASSUME NEW c \in Nat
  PROVE  /\ AskedBy(c + 1) \in Int /\ AskedBy(c + 1) <= ADR_ACK_DELAY
         /\ c < FirstAsk => AskedBy(c) <= 0 /\ AskedBy(c + 1) <= 0
         /\ c = FirstAsk => AskedBy(c + 1) <= 1
         /\ c % ADR_ACK_DELAY = 1 => AskedBy(c + 1) <= 1
         /\ c >= FirstAsk /\ c % ADR_ACK_DELAY # 1 => AskedBy(c + 1) <= AskedBy(c) + 1
         /\ Due(c) => AskedBy(c) = ADR_ACK_DELAY
         /\ AskedBy(c) \in Int
<1> DEFINE D == ADR_ACK_DELAY
<1>1. D \in Nat /\ D > 1 /\ ADR_ACK_LIMIT \in Nat /\ FirstAsk \in Nat /\ FirstAsk >= 1
  BY AdrAssumption DEF AdrAssumption, FirstAsk
<1>2. CASE c = 0
  <2>1. c + 1 - 2 = -1 /\ c - 2 = -2 /\ -1 \in Int /\ -2 \in Int
    BY <1>2
  <2>2. (c + 1 - 2) % D \in Int /\ (c + 1 - 2) % D <= D - 1 /\ (c - 2) % D \in Int
    BY <1>1, <2>1, SMTT(30)
  <2>3. c % D # 1 /\ c < FirstAsk /\ ~Due(c)
    BY <1>1, <1>2 DEF Due
  <2> DEFINE x == (c - 2) % D
             y == (c + 1 - 2) % D
  <2>4. x \in Int /\ y \in Int /\ y <= D - 1
    BY <2>2
  <2>5. /\ AskedBy(c) = IF c - FirstAsk <= x + 1 THEN c - FirstAsk ELSE x + 1
        /\ AskedBy(c + 1)
             = IF c + 1 - FirstAsk <= y + 1 THEN c + 1 - FirstAsk ELSE y + 1
    <3>1. AskedBy(c) = IF c - FirstAsk <= x + 1 THEN c - FirstAsk ELSE x + 1
      BY <1>1, <2>4 DEF AskedBy
    <3>2. AskedBy(c + 1)
            = IF c + 1 - FirstAsk <= y + 1 THEN c + 1 - FirstAsk ELSE y + 1
      BY <1>1, <2>4 DEF AskedBy
    <3> QED BY <3>1, <3>2
  <2> HIDE DEF x, y
  <2> QED BY <1>1, <1>2, <2>3, <2>4, <2>5
<1>3. CASE c >= 1
  <2>1. c - 1 \in Nat /\ c + 1 - 2 = c - 1 /\ c - 1 + 1 = c
    BY <1>3
  <2> DEFINE x == (c - 2) % D
             y == (c + 1 - 2) % D
             z == c % D
  <2>2. y \in 0 .. D - 1 /\ z = IF y = D - 1 THEN 0 ELSE y + 1
    BY <1>1, <2>1, RemainderUp
  <2>3. x \in Int /\ (c >= 2 => y = IF x = D - 1 THEN 0 ELSE x + 1) /\ (c >= 2 => x \in 0 .. D - 1)
    <3>1. x \in Int
      <4>1. c - 2 \in Int
        OBVIOUS
      <4> QED BY <1>1, <4>1, SMTT(30)
    <3>2. CASE c >= 2
      <4>1. c - 2 \in Nat /\ c - 2 + 1 = c + 1 - 2
        BY <3>2
      <4> QED BY <1>1, <3>1, <4>1, RemainderUp
    <3> QED BY <3>1, <3>2
  <2>4. /\ AskedBy(c) = IF c - FirstAsk <= x + 1 THEN c - FirstAsk ELSE x + 1
        /\ AskedBy(c + 1)
             = IF c + 1 - FirstAsk <= y + 1 THEN c + 1 - FirstAsk ELSE y + 1
    <3>1. AskedBy(c) = IF c - FirstAsk <= x + 1 THEN c - FirstAsk ELSE x + 1
      BY <1>1, <2>2, <2>3 DEF AskedBy
    <3>2. AskedBy(c + 1)
            = IF c + 1 - FirstAsk <= y + 1 THEN c + 1 - FirstAsk ELSE y + 1
      BY <1>1, <2>2, <2>3 DEF AskedBy
    <3> QED BY <3>1, <3>2
  <2>5. Due(c) <=> c >= ADR_ACK_LIMIT + D /\ z = 1
    BY DEF Due
  <2>6. z = c % ADR_ACK_DELAY
    OBVIOUS
  <2> HIDE DEF x, y, z
  <2>7. z = 1 => y = 0
    BY <1>1, <2>2
  <2>8. z = 1 /\ c >= 2 => x = D - 1
    BY <1>1, <2>2, <2>3, <2>7
  <2>9. Due(c) => c >= 2 /\ c - FirstAsk >= D
    <3>1. CASE ADR_ACK_LIMIT # 0
      BY <1>1, <2>5, <3>1 DEF FirstAsk
    <3>2. CASE ADR_ACK_LIMIT = 0
      <4>1. c = D => z = 0
        <5>1. c = D => z = D % D
          BY <2>6
        <5>2. D % D = 0
          BY <1>1, SMTT(30)
        <5> QED BY <5>1, <5>2
      <4> QED BY <1>1, <2>5, <3>2, <4>1 DEF FirstAsk
    <3> QED BY <3>1, <3>2
  <2>10. AskedBy(c) \in Int /\ AskedBy(c + 1) \in Int /\ AskedBy(c + 1) <= D
    BY <1>1, <2>2, <2>3, <2>4
  <2>11. /\ c < FirstAsk => AskedBy(c) <= 0 /\ AskedBy(c + 1) <= 0
         /\ c = FirstAsk => AskedBy(c + 1) <= 1
         /\ z = 1 => AskedBy(c + 1) <= 1
    BY <1>1, <2>2, <2>3, <2>4, <2>7
  <2>12. Due(c) => AskedBy(c) = D
    BY <1>1, <2>4, <2>5, <2>8, <2>9
  <2>13. c >= FirstAsk /\ z # 1 => AskedBy(c + 1) <= AskedBy(c) + 1
    <3>1. CASE c = 1
      <4>1. c = 1 => z = 1 % D
        BY <2>6
      <4>2. 1 % D = 1
        BY <1>1, SMTT(30)
      <4> QED BY <3>1, <4>1, <4>2
    <3>2. CASE c >= 2
      BY <1>1, <2>2, <2>3, <2>4, <3>2
    <3> QED BY <1>3, <3>1, <3>2
  <2> QED BY <2>6, <2>10, <2>11, <2>12, <2>13
<1> QED BY <1>2, <1>3

(* The back-off starts with the first join. *)
LEMMA AdrInit == Init => AdrInv
<1> SUFFICES ASSUME Init PROVE AdrInv
  OBVIOUS
<1>1. /\ dev.AdrAckCounter = 0 /\ dev.dr = MaxDR /\ asked = 0 /\ Counted
      /\ MaxDR \in Nat /\ ADR_ACK_DELAY \in Nat
  BY LinkAssumption, AdrAssumption DEF Init, Counted, NoInd, LinkAssumption, AdrAssumption
<1>2. AskedBy(0) \in Int /\ AskedBy(0) <= 0
  <2>1. 0 < FirstAsk /\ 0 \in Nat
    BY AdrAssumption DEF FirstAsk, AdrAssumption
  <2> QED BY <2>1, AskedByFacts
<1> QED BY <1>1, <1>2 DEF AdrInv, MIN_TX_DR

(* Send(): a step of the back-off starts the count again. *)
LEMMA AdrSend ==
  ASSUME Inv, AdrInv, NEW confirmed \in BOOLEAN, Send(confirmed) PROVE AdrInv'
<1> DEFINE c == dev.AdrAckCounter
           adr == CalcNextV10X(AdrCtrlOn, c, dev.dr)
<1>1. /\ dev \in Dev /\ c \in Nat /\ dev.dr \in Nat /\ dev.dr <= MaxDR
      /\ MaxDR \in Nat /\ ADR_ACK_DELAY \in Nat \ {0, 1} /\ ADR_ACK_LIMIT \in Nat
      /\ asked \in Nat /\ asked <= ADR_ACK_DELAY /\ AdrCtrlOn \in BOOLEAN
  BY LinkAssumption, AdrAssumption
     DEF Inv, Shape, Dev, AdrInv, LinkAssumption, AdrAssumption, MIN_TX_DR
<1>2. up'.req = adr.adrAckReq /\ ~Counted'
  <2>1. up'.req = adr.adrAckReq /\ up'.trial = 1
    BY DEF Send, NoUp
  <2> QED BY <2>1 DEF Counted, NoUp
<1>3. asked' = IF up'.req /\ (IF dev'.dr < dev.dr THEN 0 ELSE asked) < ADR_ACK_DELAY
               THEN (IF dev'.dr < dev.dr THEN 0 ELSE asked) + 1
               ELSE IF dev'.dr < dev.dr THEN 0 ELSE asked
  BY DEF Send, AskedAfter
<1>4. CASE ~AdrCtrlOn
  <2>1. dev'.dr = MaxDR /\ dev'.AdrAckCounter = c /\ up'.req = FALSE
    <3>1. /\ Requested(dev) = [dev EXCEPT !.dr = MaxDR]
          /\ \A k, dr \in Int :
               CalcNextV10X(AdrCtrlOn, k, dr) = [dr |-> dr, adrAckReq |-> FALSE, counter |-> k]
      BY <1>4 DEF Requested, CalcNextV10X
    <3> QED BY <1>1, <1>2, <3>1 DEF Send, Sent, Dev
  <2> QED BY <1>1, <1>3, <1>4, <2>1 DEF AdrInv, MIN_TX_DR
<1>5. CASE AdrCtrlOn
  <2>1. dev'.dr = adr.dr /\ dev'.AdrAckCounter = adr.counter
    <3>1. Requested(dev) = dev
      BY <1>5 DEF Requested
    <3> QED BY <1>1, <3>1 DEF Send, Sent, Dev
  <2>2. CASE dev.dr = MIN_TX_DR
    <3>1. adr = [dr |-> dev.dr, adrAckReq |-> FALSE, counter |-> 0]
      BY <1>5, <2>2 DEF CalcNextV10X
    <3>2. dev'.dr = 0 /\ dev'.AdrAckCounter = 0 /\ up'.req = FALSE
      BY <1>2, <2>1, <2>2, <3>1 DEF MIN_TX_DR
    <3> QED BY <1>1, <1>3, <3>2 DEF AdrInv, MIN_TX_DR
  <2>3. CASE dev.dr # MIN_TX_DR
    <3>1. adr = [dr |-> IF Due(c) THEN dev.dr - 1 ELSE dev.dr, counter |-> c,
                 adrAckReq |-> c >= ADR_ACK_LIMIT /\
                   ~(Due(c) /\ (IF Due(c) THEN dev.dr - 1 ELSE dev.dr) = MIN_TX_DR)]
      BY <1>5, <2>3 DEF CalcNextV10X
    <3>2. /\ dev'.dr = (IF Due(c) THEN dev.dr - 1 ELSE dev.dr) /\ dev'.AdrAckCounter = c
          /\ up'.req = (c >= ADR_ACK_LIMIT /\ ~(Due(c) /\ dev'.dr = MIN_TX_DR))
      BY <1>2, <2>1, <3>1
    <3>3. /\ AskedBy(c) \in Int /\ AskedBy(c + 1) \in Int /\ AskedBy(c + 1) <= ADR_ACK_DELAY
          /\ c < FirstAsk => AskedBy(c) <= 0 /\ AskedBy(c + 1) <= 0
          /\ c % ADR_ACK_DELAY = 1 => AskedBy(c + 1) <= 1
          /\ c >= FirstAsk /\ c % ADR_ACK_DELAY # 1 => AskedBy(c + 1) <= AskedBy(c) + 1
      BY <1>1, AskedByFacts
    <3>4. dev.dr > 0 /\ (asked >= AskedBy(c) \/ asked >= AskedBy(c + 1))
      BY <1>1, <1>5, <2>3 DEF AdrInv, MIN_TX_DR
    <3>5. CASE Due(c)
      <4>1. dev'.dr = dev.dr - 1 /\ c >= ADR_ACK_LIMIT /\ c % ADR_ACK_DELAY = 1
        BY <1>1, <3>2, <3>5 DEF Due
      <4>2. asked' = (IF dev'.dr = 0 THEN 0 ELSE 1)
        <5>1. dev'.dr < dev.dr /\ 0 < ADR_ACK_DELAY
          BY <1>1, <4>1
        <5>2. CASE dev'.dr = 0
          <6>1. up'.req = FALSE
            BY <3>2, <3>5, <5>2 DEF MIN_TX_DR
          <6> QED BY <1>3, <5>1, <5>2, <6>1
        <5>3. CASE dev'.dr # 0
          <6>1. up'.req = TRUE
            BY <3>2, <4>1, <5>3 DEF MIN_TX_DR
          <6> QED BY <1>3, <5>1, <5>3, <6>1
        <5> QED BY <5>2, <5>3
      <4> QED BY <1>1, <1>2, <3>2, <3>3, <3>4, <4>1, <4>2 DEF AdrInv, MIN_TX_DR
    <3>6. CASE ~Due(c)
      <4>1. dev'.dr = dev.dr /\ up'.req = (c >= ADR_ACK_LIMIT)
        BY <3>2, <3>6
      <4>2. asked' = (IF c >= ADR_ACK_LIMIT /\ asked < ADR_ACK_DELAY THEN asked + 1 ELSE asked)
        <5>1. ~(dev'.dr < dev.dr)
          BY <1>1, <4>1
        <5>2. up'.req <=> c >= ADR_ACK_LIMIT
          BY <4>1
        <5> QED BY <1>3, <5>1, <5>2
      <4>3. c >= FirstAsk => c >= ADR_ACK_LIMIT
        BY <1>1 DEF FirstAsk
      <4>4. FirstAsk \in Nat
        BY <1>1 DEF FirstAsk
      <4>5. asked' >= AskedBy(c + 1)
        <5>1. CASE c < FirstAsk
          BY <1>1, <3>3, <4>2, <5>1
        <5>2. CASE c >= FirstAsk /\ c % ADR_ACK_DELAY = 1
          BY <1>1, <3>3, <4>2, <4>3, <5>2
        <5>3. CASE c >= FirstAsk /\ c % ADR_ACK_DELAY # 1
          BY <1>1, <3>3, <3>4, <4>2, <4>3, <5>3
        <5> QED BY <1>1, <4>4, <5>1, <5>2, <5>3
      <4>6. asked' \in Nat /\ asked' <= ADR_ACK_DELAY
        BY <1>1, <4>2
      <4> QED BY <1>1, <1>2, <3>2, <4>1, <4>5, <4>6 DEF AdrInv, MIN_TX_DR
    <3> QED BY <3>5, <3>6
  <2> QED BY <2>2, <2>3
<1> QED BY <1>1, <1>4, <1>5

(* A refused uplink leaves the back-off where it was. *)
LEMMA AdrRefused ==
  ASSUME Inv, AdrInv, SendRefused PROVE AdrInv'
<1>1. /\ dev \in Dev /\ MaxDR \in Nat /\ AdrCtrlOn \in BOOLEAN
      /\ ADR_ACK_DELAY \in Nat
  BY LinkAssumption, AdrAssumption DEF Inv, Shape, LinkAssumption, AdrAssumption
<1>2. /\ dev' = Requested(dev) /\ UNCHANGED <<up, ind>>
      /\ asked' = IF dev'.dr < dev.dr THEN 0 ELSE asked
  BY DEF SendRefused, NotSent, AskedAfter
<1>3. CASE AdrCtrlOn
  <2>1. dev' = dev /\ dev.dr \in Int
    BY <1>1, <1>2, <1>3 DEF Requested, Dev
  <2> QED BY <1>2, <2>1 DEF AdrInv, Counted
<1>4. CASE ~AdrCtrlOn
  <2>1. dev'.dr = MaxDR /\ dev'.AdrAckCounter = dev.AdrAckCounter
    BY <1>1, <1>2, <1>4 DEF Requested, Dev
  <2> QED BY <1>1, <1>2, <1>4, <2>1 DEF AdrInv, MIN_TX_DR
<1> QED BY <1>1, <1>3, <1>4

(* On the way to the network and back nothing is counted. *)
LEMMA AdrOnTheWay ==
  ASSUME Inv, AdrInv, UplinkLost \/ Arrives PROVE AdrInv'
<1>1. /\ UNCHANGED <<dev, ind, asked>> /\ up.phase = "air" /\ up \in Up
      /\ up' = [up EXCEPT !.phase = "window"] \/ up' = [up EXCEPT !.phase = "window", !.heard = TRUE]
  BY DEF UplinkLost, Arrives, NetSilent, NetRepeats, NetSends, NetHears, Inv, Shape
<1>2. ~Counted /\ ~Counted'
  <2>1. up'.phase = "window"
    BY <1>1 DEF Up
  <2> QED BY <1>1, <2>1 DEF Counted, NoUp
<1> QED BY <1>1, <1>2 DEF AdrInv

(* What a window says of the back-off: nothing, or a sign of life. *)
Heard(r) ==
  \/ /\ r.dev.AdrAckCounter = dev.AdrAckCounter /\ r.dev.dr = dev.dr
     /\ r.ind.status # "OK" /\ (r.ind = NoInd <=> r.ind.status = "none")
  \/ r.dev.AdrAckCounter = 0 /\ r.dev.dr = dev.dr /\ r.ind.status = "OK"

(* RxData() counts nothing itself. *)
LEMMA RxHeard ==
  ASSUME dev \in Dev, NEW frame \in Frame PROVE Heard(RxData(dev, frame))
<1> DEFINE status == GetFCntDown(dev.FCntDown, frame.cnt % Lsb)
           passes == UnsecureMessage(dev.sess, dev.FCntDown, frame)
<1>1. CASE status = "FCNT_DUPLICATED"
  <2>1. RxData(dev, frame) = Aborted(Repeated(dev, frame), "REPEATED", frame)
    BY <1>1 DEF RxData
  <2>2. /\ Repeated(dev, frame).AdrAckCounter = dev.AdrAckCounter
        /\ Repeated(dev, frame).dr = dev.dr
    BY DEF Repeated, Dev
  <2> QED BY <2>1, <2>2 DEF Aborted, Heard, NoInd
<1>2. CASE status \notin {"FCNT_DUPLICATED"} /\ ~(status \notin {"MAX_GAP_FCNT"} /\ passes)
  <2>1. \E st \in {"FRAMES_LOSS", "ADDRESS_FAIL", "MIC_FAIL"} :
          RxData(dev, frame) = Aborted(dev, st, frame)
    BY <1>2 DEF RxData
  <2> QED BY <2>1 DEF Aborted, Heard, NoInd
<1>3. CASE status \notin {"FCNT_DUPLICATED", "MAX_GAP_FCNT"} /\ passes
  <2>1. RxData(dev, frame) = [dev |-> Accepted(dev, frame), ack |-> frame.ack,
                              ind |-> [status |-> "OK", frame |-> frame]]
    BY <1>3 DEF RxData
  <2> DEFINE e == [dev EXCEPT !.FCntDown = Guess(dev.FCntDown, frame.cnt % Lsb),
                              !.AdrAckCounter = 0,
                              !.SrvAckRequested = frame.confirmed,
                              !.LastRxMic = IF frame.confirmed THEN frame ELSE @]
  <2>2. e.AdrAckCounter = 0 /\ e.dr = dev.dr /\ DOMAIN e = DOMAIN dev
    BY DEF Dev
  <2>3. /\ Answers(e, frame).AdrAckCounter = e.AdrAckCounter
        /\ Answers(e, frame).dr = e.dr
    <3> HIDE DEF e
    <3> QED BY DEF Answers
  <2>4. Accepted(dev, frame) = Answers(e, frame)
    BY DEF Accepted
  <2> HIDE DEF e
  <2> QED BY <2>1, <2>2, <2>3, <2>4 DEF Heard
<1> QED BY <1>1, <1>2, <1>3

(* StopRetransmission() counts a silent uplink, once; a trial of one       *)
(* counts nothing.                                                         *)
LEMMA AdrWindow ==
  ASSUME Inv, AdrInv, NEW r \in Results, WindowEnds(r), Heard(r) PROVE AdrInv'
<1> DEFINE c == dev.AdrAckCounter
<1>1. /\ dev \in Dev /\ up \in Up /\ c \in Nat /\ MaxDR \in Nat /\ ADR_ACK_DELAY \in Nat
      /\ AdrCtrlOn \in BOOLEAN /\ dev.dr \in Nat
      /\ r.dev \in Dev
  BY LinkAssumption, AdrAssumption
     DEF Inv, Shape, Dev, AdrInv, LinkAssumption, AdrAssumption, Results, MIN_TX_DR
<1>2. /\ up.phase = "window" /\ ind' = r.ind
      /\ asked' = IF r.ind.status = "OK" THEN 0 ELSE asked
      /\ \/ dev' = Stopped(r) /\ up' = NoUp
         \/ dev' = Retried(r) /\ up' = [up EXCEPT !.trial = @ + 1, !.phase = "air"]
  BY DEF WindowEnds
<1>3. AdrCtrlOn /\ dev.dr > 0 => asked >= AskedBy(c + 1)
  <2>1. ~Counted
    BY <1>2 DEF Counted, NoUp
  <2> QED BY <2>1 DEF AdrInv, MIN_TX_DR
<1>4. /\ AskedBy(0) \in Int /\ AskedBy(0) <= 0
      /\ AskedBy(1) \in Int /\ AskedBy(1) <= 0
  <2>1. 0 < FirstAsk /\ 0 \in Nat /\ 0 + 1 = 1
    BY AdrAssumption DEF FirstAsk, AdrAssumption
  <2> QED BY <2>1, AskedByFacts
<1>5. CASE dev' = Stopped(r) /\ up' = NoUp
  <2>1. /\ dev'.dr = r.dev.dr
        /\ dev'.AdrAckCounter = (IF AdrCtrlOn /\ r.ind = NoInd
                                 THEN r.dev.AdrAckCounter + 1 ELSE r.dev.AdrAckCounter)
    BY <1>1, <1>5 DEF Stopped, Dev
  <2>2. Counted' <=> r.ind.status \in {"none", "OK"}
    BY <1>2, <1>5 DEF Counted
  <2>3. CASE r.dev.AdrAckCounter = 0 /\ r.dev.dr = dev.dr /\ r.ind.status = "OK"
    <3>1. dev'.AdrAckCounter = 0 /\ asked' = 0
      BY <1>2, <2>1, <2>3 DEF NoInd
    <3> QED BY <1>1, <1>4, <2>1, <2>2, <2>3, <3>1 DEF AdrInv
  <2>4. CASE ~(r.dev.AdrAckCounter = 0 /\ r.dev.dr = dev.dr /\ r.ind.status = "OK")
    <3>1. /\ r.dev.AdrAckCounter = c /\ r.dev.dr = dev.dr /\ asked' = asked
          /\ r.ind.status # "OK" /\ (r.ind = NoInd <=> r.ind.status = "none")
      BY <1>2, <2>4 DEF Heard
    <3>2. CASE AdrCtrlOn
      <4>1. (IF Counted' THEN dev'.AdrAckCounter ELSE dev'.AdrAckCounter + 1) = c + 1
        BY <1>1, <2>1, <2>2, <3>1, <3>2
      <4>2. dev'.AdrAckCounter >= 0
        BY <1>1, <2>1, <3>1
      <4> QED BY <1>1, <1>3, <2>1, <3>1, <4>1, <4>2 DEF AdrInv, MIN_TX_DR
    <3>3. CASE ~AdrCtrlOn
      BY <1>1, <2>1, <3>1, <3>3 DEF AdrInv
    <3> QED BY <1>1, <3>2, <3>3
  <2> QED BY <2>3, <2>4
<1>6. CASE dev' = Retried(r) /\ up' = [up EXCEPT !.trial = @ + 1, !.phase = "air"]
  <2>1. /\ dev'.dr = r.dev.dr \/ (r.dev.dr > MIN_TX_DR /\ dev'.dr = r.dev.dr - 1)
        /\ dev'.AdrAckCounter = r.dev.AdrAckCounter
    BY <1>1, <1>6 DEF Retried, Dev
  <2>2. ~Counted'
    <3>1. up'.phase = "air"
      BY <1>1, <1>6 DEF Up
    <3> QED BY <3>1 DEF Counted, NoUp
  <2>3. CASE r.dev.AdrAckCounter = 0 /\ r.dev.dr = dev.dr /\ r.ind.status = "OK"
    BY <1>1, <1>2, <1>4, <2>1, <2>2, <2>3 DEF AdrInv, MIN_TX_DR
  <2>4. CASE ~(r.dev.AdrAckCounter = 0 /\ r.dev.dr = dev.dr /\ r.ind.status = "OK")
    <3>1. r.dev.AdrAckCounter = c /\ r.dev.dr = dev.dr /\ asked' = asked
      BY <1>2, <2>4 DEF Heard
    <3> QED BY <1>1, <1>3, <2>1, <2>2, <3>1 DEF AdrInv, MIN_TX_DR
  <2> QED BY <2>3, <2>4
<1> QED BY <1>2, <1>5, <1>6

(* A join starts the back-off again. *)
LEMMA AdrJoin ==
  ASSUME Inv, AdrInv, JoinFails \/ Joins PROVE AdrInv'
<1>1. dev \in Dev /\ MaxDR \in Nat /\ ADR_ACK_DELAY \in Nat
  BY LinkAssumption, AdrAssumption DEF Inv, Shape, LinkAssumption, AdrAssumption
<1>2. /\ ResetMacParameters(dev).AdrAckCounter = 0 /\ ResetMacParameters(dev).dr = MaxDR
      /\ \A k \in Int : /\ JoinAccept(ResetMacParameters(dev), k).AdrAckCounter = 0
                        /\ JoinAccept(ResetMacParameters(dev), k).dr = MaxDR
  BY <1>1 DEF ResetMacParameters, JoinAccept, Dev
<1>3. asked' = 0 /\ up = NoUp /\ up' = up /\ ind' = NoInd
  BY DEF JoinFails, Joins
<1>4. dev'.AdrAckCounter = 0 /\ dev'.dr = MaxDR
  <2>1. CASE JoinFails
    BY <1>2, <2>1 DEF JoinFails
  <2>2. CASE Joins
    <3>1. net'.sess \in Int
      BY <2>2, JoinStep DEF Inv, Shape, Net
    <3> QED BY <1>2, <2>2, <3>1 DEF Joins
  <2> QED BY <2>1, <2>2
<1>5. AskedBy(0) \in Int /\ AskedBy(0) <= 0
  <2>1. 0 < FirstAsk /\ 0 \in Nat
    BY AdrAssumption DEF FirstAsk, AdrAssumption
  <2> QED BY <2>1, AskedByFacts
<1>6. Counted'
  BY <1>3 DEF Counted, NoInd
<1> QED BY <1>1, <1>3, <1>4, <1>5, <1>6 DEF AdrInv, MIN_TX_DR

(* The count is inductive beside the invariant of the downlink path. *)
LEMMA AdrInvariance == Spec => []AdrInv
<1>1. Inv /\ AdrInv /\ [Next]_vars => AdrInv'
  <2> SUFFICES ASSUME Inv, AdrInv, [Next]_vars PROVE AdrInv'
    OBVIOUS
  <2>1. dev \in Dev /\ down \in Frame
    BY DEF Inv, Shape
  <2>2. CASE Silence
    <3> DEFINE r == [dev |-> dev, ind |-> NoInd, ack |-> FALSE]
    <3>1. r \in Results
      <4>1. NoInd \in [status : Statuses, frame : Frame]
        BY DEF NoInd, NoFrame, Frame, NoSetup, Statuses
      <4> QED BY <2>1, <4>1 DEF Results
    <3>2. Heard(r)
      BY DEF Heard, NoInd
    <3>3. WindowEnds(r)
      BY <2>2 DEF Silence
    <3> HIDE DEF r
    <3> QED BY <3>1, <3>2, <3>3, AdrWindow
  <2>3. CASE Hears
    BY <2>1, <2>3, RxOutcome, RxHeard, AdrWindow DEF Hears
  <2>4. ASSUME NEW frame \in StrayFrames, HearsStray(frame) PROVE AdrInv'
    <3>1. frame \in Frame /\ WindowEnds(RxData(dev, frame))
      BY <2>4, StrayIsFrame DEF HearsStray
    <3> QED BY <2>1, <3>1, RxOutcome, RxHeard, AdrWindow
  <2>5. ASSUME NEW frame \in late, HearsLate(frame) PROVE AdrInv'
    <3>1. frame \in Frame /\ WindowEnds(RxData(dev, frame))
      BY <2>5 DEF HearsLate, Inv, Shape
    <3> QED BY <2>1, <3>1, RxOutcome, RxHeard, AdrWindow
  <2>6. CASE UNCHANGED vars
    BY <2>6 DEF vars, AdrInv, Counted
  <2>7. CASE Next
    BY <2>2, <2>3, <2>4, <2>7, <2>5, AdrSend, AdrRefused, AdrOnTheWay, AdrJoin DEF Next, Arrives
  <2> QED BY <2>6, <2>7
<1> QED BY <1>1, AdrInit, Invariance, PTL DEF Spec

(* The device lowers its data rate only after ADR_ACK_DELAY uplinks that   *)
(* asked for a sign of life and heard nothing (CalcNextV10X(), Send() and  *)
(* StopRetransmission()), whatever was refused, retried or lost between.   *)
THEOREM DropsAreAskedFor == Spec => AsksBeforeDropping
<1>1. ASSUME Inv, AdrInv, [Next]_vars, up = NoUp, ind.status = "none", dev'.dr < dev.dr
      PROVE  asked = ADR_ACK_DELAY
  <2>1. /\ dev \in Dev /\ MaxDR \in Nat /\ ADR_ACK_DELAY \in Nat /\ AdrCtrlOn \in BOOLEAN
        /\ dev.AdrAckCounter \in Nat /\ dev.dr \in Nat /\ dev.dr <= MaxDR
        /\ asked \in Nat /\ asked <= ADR_ACK_DELAY
    BY <1>1, LinkAssumption, AdrAssumption
       DEF Inv, Shape, Dev, AdrInv, LinkAssumption, AdrAssumption, MIN_TX_DR
  <2>2. \A d \in Dev : ResetMacParameters(d).dr = MaxDR
                       /\ \A k \in Int : JoinAccept(ResetMacParameters(d), k).dr = MaxDR
    BY DEF ResetMacParameters, JoinAccept, Dev
  <2>3. \E confirmed \in BOOLEAN : Send(confirmed)
    <3>1. up.phase = "none"
      BY <1>1 DEF NoUp
    <3>2. ~Arrives /\ ~UplinkLost /\ ~Silence /\ ~Hears
          /\ (\A frame \in late : ~HearsLate(frame))
          /\ (\A frame \in StrayFrames : ~HearsStray(frame))
      BY <3>1 DEF Arrives, NetSilent, NetRepeats, NetSends, NetHears, UplinkLost,
         Silence, Hears, HearsLate, HearsStray, WindowEnds
    <3>3. ~JoinFails
      BY <1>1, <2>1, <2>2 DEF JoinFails
    <3>4. ~Joins
      <4>1. Joins => net'.sess \in Int
        BY <1>1, JoinStep DEF Inv, Shape, Net
      <4> QED BY <1>1, <2>1, <2>2, <4>1 DEF Joins
    <3>5. ~SendRefused
      <4>1. Requested(dev) = dev \/ Requested(dev).dr = MaxDR
        BY <2>1 DEF Requested, Dev
      <4>2. SendRefused => dev' = Requested(dev)
        BY DEF SendRefused, NotSent
      <4>3. ASSUME NEW d, d = dev \/ d.dr = MaxDR PROVE ~(d.dr < dev.dr)
        BY <2>1, <4>3
      <4> QED BY <1>1, <4>1, <4>2, <4>3
    <3>6. dev' # dev
      BY <1>1, <2>1
    <3> QED BY <1>1, <3>2, <3>3, <3>4, <3>5, <3>6 DEF Next, Arrives, vars
  <2>4. AdrCtrlOn
    <3>1. ASSUME ~AdrCtrlOn PROVE FALSE
      <4>1. /\ Requested(dev) = [dev EXCEPT !.dr = MaxDR]
            /\ \A k, dr \in Int : CalcNextV10X(AdrCtrlOn, k, dr).dr = dr
        BY <3>1 DEF Requested, CalcNextV10X
      <4>2. dev'.dr = MaxDR
        BY <2>1, <2>3, <4>1 DEF Send, Sent, Dev
      <4> QED BY <1>1, <2>1, <4>2
    <3> QED BY <3>1
  <2>5. Due(dev.AdrAckCounter) /\ dev.dr > 0
    <3>1. Requested(dev) = dev
      BY <2>4 DEF Requested
    <3>2. dev'.dr = CalcNextV10X(AdrCtrlOn, dev.AdrAckCounter, dev.dr).dr
      BY <2>1, <2>3, <3>1 DEF Send, Sent, Dev
    <3>3. dev.dr > 0
      <4>1. dev.dr = 0 => CalcNextV10X(AdrCtrlOn, dev.AdrAckCounter, dev.dr).dr = dev.dr
        BY <2>4 DEF CalcNextV10X, MIN_TX_DR
      <4> QED BY <1>1, <2>1, <3>2, <4>1
    <3>4. ~Due(dev.AdrAckCounter)
            => CalcNextV10X(AdrCtrlOn, dev.AdrAckCounter, dev.dr).dr = dev.dr
      BY <2>4 DEF CalcNextV10X
    <3> QED BY <1>1, <2>1, <3>2, <3>3, <3>4
  <2>6. asked >= AskedBy(dev.AdrAckCounter)
    <3>1. Counted
      BY <1>1 DEF Counted
    <3> QED BY <1>1, <2>4, <2>5, <3>1 DEF AdrInv, MIN_TX_DR
  <2>7. AskedBy(dev.AdrAckCounter) = ADR_ACK_DELAY
    BY <2>1, <2>5, AskedByFacts
  <2> QED BY <2>1, <2>6, <2>7
<1> QED BY <1>1, Invariance, AdrInvariance, PTL DEF Spec, AsksBeforeDropping
=============================================================================
