----------------------------- MODULE LoRaMacAdr -----------------------------
(***************************************************************************)
(* LoRaMacAdr.c for LoRaWAN 1.0.x, CalcNextV10X(): the back-off of a       *)
(* device that hears nothing.  The transmit power goes to its maximum with *)
(* the first step, and the default channels come back with the last; both  *)
(* are left out.  The lowest data rate is 0, the next lower one of DR is   *)
(* DR - 1 (EU868).                                                         *)
(***************************************************************************)
EXTENDS Integers

CONSTANTS
  ADR_ACK_LIMIT,    \* 64
  ADR_ACK_DELAY     \* 32

(* With ADR_ACK_DELAY = 1 no remainder would ever be 1. *)
ASSUME AdrAssumption ==
  ADR_ACK_LIMIT \in Nat /\ ADR_ACK_DELAY \in Nat \ {0, 1}

MIN_TX_DR == 0

(* Is a lower data rate due? *)
Due(counter) ==
  counter >= ADR_ACK_LIMIT + ADR_ACK_DELAY /\ counter % ADR_ACK_DELAY = 1

(* CalcNextV10X(): the data rate of the next uplink, its AdrAckReq bit and *)
(* the counter it leaves.                                                  *)
CalcNextV10X(enabled, counter, datarate) ==
  IF ~enabled
  THEN [dr |-> datarate, adrAckReq |-> FALSE, counter |-> counter]
  ELSE IF datarate = MIN_TX_DR
  THEN [dr |-> datarate, adrAckReq |-> FALSE, counter |-> 0]
  ELSE LET dr == IF Due(counter) THEN datarate - 1 ELSE datarate
       IN [dr |-> dr, counter |-> counter,
           adrAckReq |-> counter >= ADR_ACK_LIMIT /\ ~(Due(counter) /\ dr = MIN_TX_DR)]
=============================================================================
