--------------------------- MODULE LoRaMacCrypto ---------------------------
(***************************************************************************)
(* The downlink frame counter of LoRaMacCrypto.c in LoRaWAN 1.0.x: a frame *)
(* carries the low 16 bits of a 32 bit counter, the receiver guesses the   *)
(* rest and the integrity code (MIC), computed over the whole counter with *)
(* a key of the session, says whether the guess was right.  The ciphers    *)
(* are left out: a MIC verifies iff session and counter agree.             *)
(***************************************************************************)
EXTENDS Integers

CONSTANTS
  Lsb,           \* what the frame's counter field counts to, 65536
  MAX_FCNT_GAP   \* 16384 in every region

ASSUME CounterAssumption ==
  Lsb \in Nat \ {0} /\ MAX_FCNT_GAP \in 1 .. Lsb

(* FCNT_DOWN_INITAL_VALUE, 0xFFFFFFFF: nothing received in this session.   *)
(* As a number it is above every counter; here it is below.                *)
NoFCnt == -1

(* Mutant: no roll-over. *)
GuessNoRollOver(lastDown, frameFcnt) ==
  IF lastDown = NoFCnt THEN frameFcnt ELSE lastDown - (lastDown % Lsb) + frameFcnt

(* The 32 bit counter LoRaMacCryptoGetFCntDown() guesses for a frame. *)
Guess(lastDown, frameFcnt) ==
  LET fCntDiff == frameFcnt - (lastDown % Lsb)
  IN CASE lastDown = NoFCnt -> frameFcnt
       [] lastDown # NoFCnt /\ fCntDiff >= 0 -> lastDown + fCntDiff
       [] OTHER -> (lastDown - (lastDown % Lsb)) + Lsb + frameFcnt

TooFar(lastDown, currentDown) ==
  lastDown # NoFCnt /\ currentDown - lastDown >= MAX_FCNT_GAP

(* The status LoRaMacCryptoGetFCntDown() returns. *)
GetFCntDown(lastDown, frameFcnt) ==
  LET currentDown == Guess(lastDown, frameFcnt)
  IN CASE lastDown # NoFCnt /\ currentDown = lastDown -> "FCNT_DUPLICATED"
       [] TooFar(lastDown, currentDown) -> "MAX_GAP_FCNT"
       [] OTHER -> "SUCCESS"

(* Mutant: the MIC covers only the counter field of the frame. *)
MicVerifiesLsb(sess, currentDown, frame) ==
  frame.sess = sess /\ frame.cnt % Lsb = currentDown % Lsb

(* VerifyCmacB0() with the session's key and the guessed counter. *)
MicVerifies(sess, currentDown, frame) ==
  frame.sess = sess /\ frame.cnt = currentDown

(* LoRaMacCryptoUnsecureMessage(), once the address is ours. *)
UnsecureMessage(sess, lastDown, frame) ==
  LET currentDown == Guess(lastDown, frame.cnt % Lsb)
  IN /\ lastDown = NoFCnt \/ currentDown > lastDown       \* CheckFCntDown()
     /\ MicVerifies(sess, currentDown, frame)
=============================================================================
