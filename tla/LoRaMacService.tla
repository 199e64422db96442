--------------------------- MODULE LoRaMacService ---------------------------
(***************************************************************************)
(* What LoRaMac.h promises of LoRaMacMlmeRequest() and                     *)
(* LoRaMacMcpsRequest(): "Service started successfully. Waiting for the    *)
(* ... event".  A request that is accepted is confirmed, once, before the  *)
(* next one is accepted; a device that has not joined has no uplink        *)
(* accepted, and it joins by an answer to its join request.                *)
(***************************************************************************)
EXTENDS Naturals

VARIABLES
  joined,      \* whether the device has an address and session keys
  joinWaits,   \* whether a join request waits for its confirm
  accepted,    \* the uplinks accepted so far
  confirmed    \* and those confirmed

vars == <<joined, joinWaits, accepted, confirmed>>

Free == ~joinWaits /\ accepted = confirmed

Init == ~joined /\ ~joinWaits /\ accepted = 0 /\ confirmed = 0

AcceptJoin ==
  /\ Free /\ ~joined /\ joinWaits' = TRUE
  /\ UNCHANGED <<joined, accepted, confirmed>>

NetworkAnswers ==
  /\ joinWaits /\ joined' = TRUE
  /\ UNCHANGED <<joinWaits, accepted, confirmed>>

ConfirmJoin ==
  /\ joinWaits /\ joinWaits' = FALSE
  /\ UNCHANGED <<joined, accepted, confirmed>>

AcceptUplink ==
  /\ Free /\ joined /\ accepted' = accepted + 1
  /\ UNCHANGED <<joined, joinWaits, confirmed>>

ConfirmUplink ==
  /\ confirmed < accepted /\ confirmed' = confirmed + 1
  /\ UNCHANGED <<joined, joinWaits, accepted>>

(* A frame that says more are pending is answered by an empty uplink as    *)
(* soon as the uplink it came for is confirmed.                            *)
ConfirmAndAnswer ==
  /\ confirmed < accepted /\ joined
  /\ confirmed' = confirmed + 1 /\ accepted' = accepted + 1
  /\ UNCHANGED <<joined, joinWaits>>

Confirms == ConfirmJoin \/ ConfirmUplink \/ ConfirmAndAnswer

Next == AcceptJoin \/ NetworkAnswers \/ AcceptUplink \/ Confirms

SafeSpec == Init /\ [][Next]_vars

Spec == SafeSpec /\ WF_vars(Confirms)
=============================================================================
