------------------------------- MODULE RxPort -------------------------------
(***************************************************************************)
(* What the receiver shows to the logic behind it: a data-valid flag that  *)
(* rises with each new byte, and a byte that changes only when it rises.   *)
(* UartRx implements it; TunerControl is what listens.                     *)
(***************************************************************************)
CONSTANT Value

VARIABLES r_Rx_DV, o_Rx_Byte1

portVars == <<r_Rx_DV, o_Rx_Byte1>>

PortInit == r_Rx_DV = 0 /\ o_Rx_Byte1 \in Value

Rise == r_Rx_DV = 0 /\ r_Rx_DV' = 1 /\ o_Rx_Byte1' \in Value
Fall == r_Rx_DV = 1 /\ r_Rx_DV' = 0 /\ UNCHANGED o_Rx_Byte1

PortSpec == PortInit /\ [][Rise \/ Fall]_portVars
=============================================================================
