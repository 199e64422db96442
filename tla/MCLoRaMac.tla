------------------------------ MODULE MCLoRaMac ------------------------------
(* Model checking of LoRaMac.                                              *)
EXTENDS LoRaMac

JoinOnly == {"JOIN"}
=============================================================================
