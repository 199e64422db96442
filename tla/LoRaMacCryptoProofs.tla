------------------------ MODULE LoRaMacCryptoProofs ------------------------
(***************************************************************************)
(* The guess of the downlink counter, for every width of the field and     *)
(* every gap: it is the next counter with the frame's low bits, so that a  *)
(* frame of the session is taken exactly when it is new and less than      *)
(* MAX_FCNT_GAP ahead.  The counter stays below 2^32, where the C code's   *)
(* uint32_t does not wrap.                                                 *)
(***************************************************************************)
EXTENDS LoRaMacCrypto, TLAPS

(* A counter is its high part and its low part. *)
LEMMA Split ==
  ASSUME NEW n \in Nat
  PROVE  /\ n \div Lsb \in Nat /\ n % Lsb \in 0 .. Lsb - 1
         /\ n = (Lsb * (n \div Lsb)) + (n % Lsb)
BY CounterAssumption DEF CounterAssumption

(* High parts in order are at least a field's width apart. *)
LEMMA Apart ==
  ASSUME NEW a \in Nat, NEW b \in Nat, a < b
  PROVE  Lsb * a + Lsb <= Lsb * b /\ Lsb * a \in Nat /\ Lsb * b \in Nat
BY CounterAssumption, SMTT(30) DEF CounterAssumption

(* Low part of a counter given by its parts. *)
LEMMA LowPart ==
  ASSUME NEW q \in Nat, NEW r \in 0 .. Lsb - 1
  PROVE  Lsb * q + r \in Nat /\ (Lsb * q + r) % Lsb = r
BY CounterAssumption, SMTT(30) DEF CounterAssumption

(* Two counters with the same low part, less than a width apart, are one.  *)
LEMMA SameWithinWidth ==
  ASSUME NEW m \in Nat, NEW n \in Nat, m % Lsb = n % Lsb, m <= n, n < m + Lsb
  PROVE  m = n
<1> DEFINE qm == m \div Lsb
           qn == n \div Lsb
           r  == m % Lsb
<1>1. /\ qm \in Nat /\ qn \in Nat /\ r \in 0 .. Lsb - 1
      /\ m = Lsb * qm + r /\ n = Lsb * qn + r
  BY Split
<1> HIDE DEF qm, qn, r
<1>2. qm < qn => m + Lsb <= n
  BY <1>1, Apart, CounterAssumption DEF CounterAssumption
<1>3. qn < qm => n + Lsb <= m
  BY <1>1, Apart, CounterAssumption DEF CounterAssumption
<1>4. qm = qn
  BY <1>1, <1>2, <1>3, CounterAssumption DEF CounterAssumption
<1> QED BY <1>1, <1>4

(* LoRaMacCryptoGetFCntDown(), its three branches: the guess has the       *)
(* frame's low bits, does not go back, and is less than a width ahead.     *)
LEMMA GuessIsNext ==
  ASSUME NEW lastDown \in Nat, NEW frameFcnt \in 0 .. Lsb - 1
  PROVE  /\ Guess(lastDown, frameFcnt) \in lastDown .. lastDown + Lsb - 1
         /\ Guess(lastDown, frameFcnt) % Lsb = frameFcnt
<1> DEFINE q == lastDown \div Lsb
           r == lastDown % Lsb
           g == Guess(lastDown, frameFcnt)
<1>1. q \in Nat /\ r \in 0 .. Lsb - 1 /\ lastDown = Lsb * q + r
  BY Split
<1>2. lastDown # NoFCnt
  BY DEF NoFCnt
<1>3. CASE frameFcnt >= r
  <2>1. g = lastDown + (frameFcnt - r)
    BY <1>1, <1>2, <1>3, CounterAssumption DEF Guess, CounterAssumption
  <2>2. Lsb * q \in Nat
    BY <1>1, LowPart, CounterAssumption DEF CounterAssumption
  <2>3. g = Lsb * q + frameFcnt
    <3> HIDE DEF g, q, r
    <3> QED BY <1>1, <2>1, <2>2
  <2>4. g % Lsb = frameFcnt
    <3> HIDE DEF g, q, r
    <3> QED BY <1>1, <2>3, LowPart
  <2>5. g \in lastDown .. lastDown + Lsb - 1
    <3> HIDE DEF g, q, r
    <3> QED BY <1>1, <1>3, <2>1, CounterAssumption DEF CounterAssumption
  <2> QED BY <2>4, <2>5
<1>4. CASE frameFcnt < r
  <2>1. g = (lastDown - r) + Lsb + frameFcnt
    BY <1>1, <1>2, <1>4, CounterAssumption DEF Guess, CounterAssumption
  <2>2. Lsb * q \in Nat /\ Lsb * (q + 1) = Lsb * q + Lsb
    <3> HIDE DEF q
    <3> QED BY <1>1, CounterAssumption, SMTT(30) DEF CounterAssumption
  <2>3. g = Lsb * (q + 1) + frameFcnt
    <3> HIDE DEF g, q, r
    <3> QED BY <1>1, <2>1, <2>2, CounterAssumption DEF CounterAssumption
  <2>4. g % Lsb = frameFcnt
    <3> HIDE DEF g, q, r
    <3> QED BY <1>1, <2>3, LowPart
  <2>5. g \in lastDown .. lastDown + Lsb - 1
    <3> HIDE DEF g, q, r
    <3> QED BY <1>1, <1>4, <2>1, CounterAssumption DEF CounterAssumption
  <2> QED BY <2>4, <2>5
<1> QED BY <1>1, <1>3, <1>4

(* The device recovers the counter the network used, as long as fewer than *)
(* Lsb frames were lost since the last one it took, roll-overs included.   *)
THEOREM GuessIsRight ==
  ASSUME NEW lastDown \in Nat, NEW cnt \in lastDown .. lastDown + Lsb - 1
  PROVE  Guess(lastDown, cnt % Lsb) = cnt
<1> DEFINE g == Guess(lastDown, cnt % Lsb)
<1>1. cnt \in Nat /\ cnt % Lsb \in 0 .. Lsb - 1
  BY Split
<1>2. g \in lastDown .. lastDown + Lsb - 1 /\ g % Lsb = cnt % Lsb
  BY <1>1, GuessIsNext
<1> HIDE DEF g
<1>3. g \in Nat /\ g < cnt + Lsb /\ cnt < g + Lsb
  BY <1>1, <1>2, CounterAssumption DEF CounterAssumption
<1>4. g <= cnt \/ cnt <= g
  BY <1>1, <1>3
<1>5. g = cnt
  BY <1>1, <1>2, <1>3, <1>4, SameWithinWidth
<1> QED BY <1>5 DEF g

(* The integrity check alone takes the new frames of the session that are  *)
(* less than a width ahead and no other: none twice, none out of order,    *)
(* and none of another session.                                            *)
THEOREM UnsecuredExactly ==
  ASSUME NEW lastDown \in Nat, NEW sess, NEW frame, frame.cnt \in Nat
  PROVE  UnsecureMessage(sess, lastDown, frame)
           <=> frame.sess = sess /\ frame.cnt \in lastDown + 1 .. lastDown + Lsb - 1
<1> DEFINE cnt == frame.cnt
           g   == Guess(lastDown, cnt % Lsb)
<1>1. lastDown # NoFCnt
  BY DEF NoFCnt
<1>2. UnsecureMessage(sess, lastDown, frame) <=> g > lastDown /\ frame.sess = sess /\ cnt = g
  BY <1>1 DEF UnsecureMessage, MicVerifies
<1>3. g \in lastDown .. lastDown + Lsb - 1
  BY GuessIsNext, Split
<1>4. cnt \in lastDown .. lastDown + Lsb - 1 => g = cnt
  BY GuessIsRight
<1> HIDE DEF g
<1>5. g > lastDown /\ cnt = g <=> cnt \in lastDown + 1 .. lastDown + Lsb - 1
  BY <1>3, <1>4, CounterAssumption DEF CounterAssumption
<1> QED BY <1>2, <1>5

(* What ProcessRadioRxDone() takes, both checks together: a gap of         *)
(* MAX_FCNT_GAP or more never passes, whatever the integrity code says.    *)
THEOREM AcceptedExactly ==
  ASSUME NEW lastDown \in Nat, NEW sess, NEW frame, frame.cnt \in Nat
  PROVE  /\ GetFCntDown(lastDown, frame.cnt % Lsb) = "SUCCESS"
         /\ UnsecureMessage(sess, lastDown, frame)
         <=> frame.sess = sess /\ frame.cnt \in lastDown + 1 .. lastDown + MAX_FCNT_GAP - 1
<1> DEFINE g == Guess(lastDown, frame.cnt % Lsb)
<1>1. lastDown # NoFCnt
  BY DEF NoFCnt
<1>2. g \in lastDown .. lastDown + Lsb - 1
  BY GuessIsNext, Split
<1>3. GetFCntDown(lastDown, frame.cnt % Lsb) = "SUCCESS"
        <=> g # lastDown /\ ~(g - lastDown >= MAX_FCNT_GAP)
  BY <1>1 DEF GetFCntDown, TooFar
<1>4. frame.cnt \in lastDown .. lastDown + Lsb - 1 => g = frame.cnt
  BY GuessIsRight
<1> HIDE DEF g
<1>5. frame.cnt \in lastDown + 1 .. lastDown + Lsb - 1 =>
        (g # lastDown /\ ~(g - lastDown >= MAX_FCNT_GAP)
           <=> frame.cnt \in lastDown + 1 .. lastDown + MAX_FCNT_GAP - 1)
  BY <1>2, <1>4, CounterAssumption DEF CounterAssumption
<1>6. frame.cnt \in lastDown + 1 .. lastDown + MAX_FCNT_GAP - 1
        => frame.cnt \in lastDown + 1 .. lastDown + Lsb - 1
  BY CounterAssumption DEF CounterAssumption
<1> QED BY <1>3, <1>5, <1>6, UnsecuredExactly
=============================================================================
