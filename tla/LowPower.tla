----------------------------- MODULE LowPower ------------------------------
(***************************************************************************)
(* The low power manager, lib/GNSE_HAL/GNSE_lpm.c.  Every client that      *)
(* cannot survive Stop 2 owns one bit of StopModeDisable; the idle hook of *)
(* the sequencer asks for the deepest mode the bits allow.  A bit mask is  *)
(* the set of its bits.  The GPIO, debugger and sensor bus set-up around a *)
(* mode change is left out.                                                *)
(***************************************************************************)
EXTENDS Naturals

VARIABLES
  StopModeDisable,   \* the clients that forbid Stop mode
  mode               \* what the core does: "run", "sleep" (WFI) or "stop"

lpmVars == <<StopModeDisable, mode>>

Lpm_Id == {"UART_TRACER", "TIM_BUZZER"}     \* GNSE_LPM_Id_t, the bits in use

LpmTypeOK == StopModeDisable \subseteq Lpm_Id /\ mode \in {"run", "sleep", "stop"}

(* GNSE_LPM_Init(GNSE_LPM_SLEEP_STOP_MODE): nothing forbids Stop mode. *)
LPM_Init == StopModeDisable = {} /\ mode = "run"

(* GNSE_LPM_SetStopMode(bit, GNSE_LPM_DISABLE) and (bit, GNSE_LPM_ENABLE). *)
DisableStop(bit) == StopModeDisable' = StopModeDisable \cup {bit}
EnableStop(bit)  == StopModeDisable' = StopModeDisable \ {bit}

(* Mutant: one client is enough to allow Stop mode. *)
DeepestModeAny == IF StopModeDisable # Lpm_Id THEN "stop" ELSE "sleep"

(* The test of GNSE_LPM_EnterLowPower(). *)
DeepestMode == IF StopModeDisable # {} THEN "sleep" ELSE "stop"

(* GNSE_LPM_EnterLowPower() runs from UTIL_SEQ_Idle() with interrupts off; *)
(* a pending interrupt ends WFI and is served once they are on again.      *)
LPM_EnterLowPower == mode = "run" /\ mode' = DeepestMode /\ UNCHANGED StopModeDisable
=============================================================================
