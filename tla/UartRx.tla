------------------------------- MODULE UartRx -------------------------------
(***************************************************************************)
(* The UART receiver of the MachXO2 radio (impl1/source/UartRX.v): the two *)
(* flip-flop synchroniser and the receive state machine, both clocked by   *)
(* one bit of a free-running counter.  A step of this module is one edge   *)
(* of that clock (a "tick").  Every register is assigned with a            *)
(* nonblocking assignment, so all of them move in the same step and read   *)
(* the values they had before it.                                          *)
(*                                                                         *)
(* In Spec the serial line is free: it may change at every tick.           *)
(* UartLink drives it with a transmitter.                                  *)
(***************************************************************************)
EXTENDS Integers

CONSTANTS CLKS_PER_BIT,  \* ticks per bit cell; 87 in impl1/source/top.v
          DATA_BITS      \* data bits of a frame; 8 in the code

ASSUME ClksAssumption == CLKS_PER_BIT \in 1 .. 65536
ASSUME BitsAssumption == DATA_BITS \in 1 .. 8

VARIABLES i_Rx_Serial,    \* the line, driven from outside
          r_Rx_Data_R,    \* first flip-flop of the synchroniser
          r_Rx_Data,      \* second one: what the state machine reads
          r_SM_Main,
          r_Clock_Count,  \* 16 bits
          r_Bit_Index,
          r_Rx_Byte,      \* the shift register being filled
          r_Rx_DV,
          o_Rx_Byte       \* output register, not initialised by the code

rxRegs == <<r_SM_Main, r_Clock_Count, r_Bit_Index, r_Rx_Byte, r_Rx_DV, o_Rx_Byte>>
rxVars == <<r_Rx_Data_R, r_Rx_Data, rxRegs>>
vars   == <<i_Rx_Serial, rxVars>>

Bit  == {0, 1}
Byte == [0 .. DATA_BITS - 1 -> Bit]

SMState == {"IDLE", "RX_START_BIT", "RX_DATA_BITS", "RX_STOP_BIT", "CLEANUP"}

Mid     == (CLKS_PER_BIT - 1) \div 2   \* half a cell, as the code rounds it
Last    == CLKS_PER_BIT - 1
Inc16(n) == (n + 1) % 65536

RxInit ==
  /\ r_Rx_Data_R = 1
  /\ r_Rx_Data = 1
  /\ r_SM_Main = "IDLE"
  /\ r_Clock_Count = 0
  /\ r_Bit_Index = 0
  /\ r_Rx_Byte = [k \in 0 .. DATA_BITS - 1 |-> 0]
  /\ r_Rx_DV = 0
  /\ o_Rx_Byte \in Byte

Sync ==
  /\ r_Rx_Data_R' = i_Rx_Serial
  /\ r_Rx_Data' = r_Rx_Data_R

(***************************************************************************)
(* The arms of the case statement.  Its default arm is for the three       *)
(* encodings no arm assigns, and never runs from the initial state.        *)
(***************************************************************************)
Idle ==
  /\ r_SM_Main = "IDLE"
  /\ r_Rx_DV' = 0
  /\ r_Clock_Count' = 0
  /\ r_Bit_Index' = 0
  /\ r_SM_Main' = IF r_Rx_Data = 0 THEN "RX_START_BIT" ELSE "IDLE"
  /\ UNCHANGED <<r_Rx_Byte, o_Rx_Byte>>

Wait ==   \* the counting branches of the start, data and stop arms
  /\ \/ r_SM_Main = "RX_START_BIT" /\ r_Clock_Count # Mid
     \/ r_SM_Main \in {"RX_DATA_BITS", "RX_STOP_BIT"} /\ r_Clock_Count < Last
  /\ r_Clock_Count' = Inc16(r_Clock_Count)
  /\ UNCHANGED <<r_SM_Main, r_Bit_Index, r_Rx_Byte, r_Rx_DV, o_Rx_Byte>>

StartConfirmedBlind ==   \* mutant: does not look at the line in mid start bit
  /\ r_SM_Main = "RX_START_BIT"
  /\ r_Clock_Count = Mid
  /\ r_Clock_Count' = 0
  /\ r_SM_Main' = "RX_DATA_BITS"
  /\ UNCHANGED <<r_Bit_Index, r_Rx_Byte, r_Rx_DV, o_Rx_Byte>>

StartConfirmed ==
  /\ r_SM_Main = "RX_START_BIT"
  /\ r_Clock_Count = Mid
  /\ r_Rx_Data = 0
  /\ r_Clock_Count' = 0
  /\ r_SM_Main' = "RX_DATA_BITS"
  /\ UNCHANGED <<r_Bit_Index, r_Rx_Byte, r_Rx_DV, o_Rx_Byte>>

StartRejectedStays ==   \* mutant: the missing else of the start-bit check
  /\ r_SM_Main = "RX_START_BIT"
  /\ r_Clock_Count = Mid
  /\ r_Rx_Data = 1
  /\ UNCHANGED rxRegs

StartRejected ==
  /\ r_SM_Main = "RX_START_BIT"
  /\ r_Clock_Count = Mid
  /\ r_Rx_Data = 1
  /\ r_SM_Main' = "IDLE"
  /\ UNCHANGED <<r_Clock_Count, r_Bit_Index, r_Rx_Byte, r_Rx_DV, o_Rx_Byte>>

SampleMsbFirst ==   \* mutant: fills the byte from the other end
  /\ r_SM_Main = "RX_DATA_BITS"
  /\ r_Clock_Count >= Last
  /\ r_Clock_Count' = 0
  /\ r_Rx_Byte' = [r_Rx_Byte EXCEPT ![DATA_BITS - 1 - r_Bit_Index] = r_Rx_Data]
  /\ r_Bit_Index' = IF r_Bit_Index < DATA_BITS - 1 THEN r_Bit_Index + 1 ELSE 0
  /\ r_SM_Main' = IF r_Bit_Index < DATA_BITS - 1 THEN r_SM_Main ELSE "RX_STOP_BIT"
  /\ UNCHANGED <<r_Rx_DV, o_Rx_Byte>>

SampleToOutput ==   \* mutant: shows the shift register instead of a copy
  /\ r_SM_Main = "RX_DATA_BITS"
  /\ r_Clock_Count >= Last
  /\ r_Clock_Count' = 0
  /\ r_Rx_Byte' = [r_Rx_Byte EXCEPT ![r_Bit_Index] = r_Rx_Data]
  /\ r_Bit_Index' = IF r_Bit_Index < DATA_BITS - 1 THEN r_Bit_Index + 1 ELSE 0
  /\ r_SM_Main' = IF r_Bit_Index < DATA_BITS - 1 THEN r_SM_Main ELSE "RX_STOP_BIT"
  /\ o_Rx_Byte' = r_Rx_Byte'
  /\ UNCHANGED r_Rx_DV

Sample ==
  /\ r_SM_Main = "RX_DATA_BITS"
  /\ r_Clock_Count >= Last
  /\ r_Clock_Count' = 0
  /\ r_Rx_Byte' = [r_Rx_Byte EXCEPT ![r_Bit_Index] = r_Rx_Data]
  /\ \/ /\ r_Bit_Index < DATA_BITS - 1
        /\ r_Bit_Index' = r_Bit_Index + 1
        /\ UNCHANGED r_SM_Main
     \/ /\ r_Bit_Index >= DATA_BITS - 1
        /\ r_Bit_Index' = 0
        /\ r_SM_Main' = "RX_STOP_BIT"
  /\ UNCHANGED <<r_Rx_DV, o_Rx_Byte>>

StopDone ==   \* the level of the stop bit is not looked at
  /\ r_SM_Main = "RX_STOP_BIT"
  /\ r_Clock_Count >= Last
  /\ r_Rx_DV' = 1
  /\ o_Rx_Byte' = r_Rx_Byte
  /\ r_Clock_Count' = 0
  /\ r_SM_Main' = "CLEANUP"
  /\ UNCHANGED <<r_Bit_Index, r_Rx_Byte>>

Cleanup ==
  /\ r_SM_Main = "CLEANUP"
  /\ r_SM_Main' = "IDLE"
  /\ r_Rx_DV' = 0
  /\ UNCHANGED <<r_Clock_Count, r_Bit_Index, r_Rx_Byte, o_Rx_Byte>>

Fsm == Idle \/ Wait \/ StartConfirmed \/ StartRejected \/ Sample \/ StopDone \/ Cleanup

RxClock == Sync /\ Fsm   \* one edge of the receiver's clock

-----------------------------------------------------------------------------
Init == i_Rx_Serial = 1 /\ RxInit
Next == RxClock /\ i_Rx_Serial' \in Bit

Spec     == Init /\ [][Next]_vars
\* The oscillator never stops.  The subscript is the registers alone: when no
\* register would move nothing is due, and the line need not move either.
FairSpec == Spec /\ WF_rxVars(Next)

-----------------------------------------------------------------------------
(* The registers keep their types: the cell counter never leaves           *)
(* 0 .. CLKS_PER_BIT-1 (so its 16 bits never wrap), it is at most Mid in   *)
(* the start bit, and the bit index stays inside the byte and is back at   *)
(* zero whenever a frame's data bits begin.                                *)
TypeOK ==
  /\ i_Rx_Serial \in Bit
  /\ r_Rx_Data_R \in Bit
  /\ r_Rx_Data \in Bit
  /\ r_SM_Main \in SMState
  /\ r_Clock_Count \in 0 .. Last
  /\ r_SM_Main = "RX_START_BIT" => r_Clock_Count <= Mid
  /\ r_Bit_Index \in 0 .. DATA_BITS - 1
  /\ r_SM_Main # "RX_DATA_BITS" => r_Bit_Index = 0
  /\ r_Rx_Byte \in Byte
  /\ r_Rx_DV \in Bit
  /\ o_Rx_Byte \in Byte

(* The header of UartRX.v promises that DV is high for one clock cycle per *)
(* byte: it is high exactly while the machine is in its clean-up state,    *)
(* with the received byte on the output.                                   *)
DVMeansByte ==
  /\ r_Rx_DV = 1 <=> r_SM_Main = "CLEANUP"
  /\ r_Rx_DV = 1 => o_Rx_Byte = r_Rx_Byte

Port == INSTANCE RxPort WITH Value <- Byte, o_Rx_Byte1 <- o_Rx_Byte

(* To the logic behind it the receiver is an RxPort on any line: the byte  *)
(* changes only when the flag rises, and the flag falls in between.        *)
IsRxPort == Port!PortSpec

(* Whatever garbage came before, once the line stays idle the receiver     *)
(* returns to its idle state and stays there: a broken frame cannot leave  *)
(* it stuck or make it invent bytes for ever.                              *)
IdleLineQuiesces == <>[](i_Rx_Serial = 1) => <>[](r_SM_Main = "IDLE" /\ r_Rx_DV = 0)
=============================================================================
