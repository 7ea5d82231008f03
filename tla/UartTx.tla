------------------------------- MODULE UartTx -------------------------------
(***************************************************************************)
(* The UART transmitter (impl1/source/UartTX.v).  A step is one edge of    *)
(* osc_clk; registers are assigned nonblocking, so the line is one step    *)
(* behind the state machine.  In Spec the request inputs are free.         *)
(***************************************************************************)
EXTENDS Integers

CONSTANTS CLKS_PER_BIT,
          DATA_BITS,     \* 8 in the code
          Sendable       \* the bytes offered on i_Tx_Byte

ASSUME TxClksAssumption == CLKS_PER_BIT \in 1 .. 65536
ASSUME TxBitsAssumption == DATA_BITS \in 1 .. 8
ASSUME TxSendableAssumption == Sendable \subseteq [0 .. DATA_BITS - 1 -> {0, 1}]

VARIABLES i_Tx_DV, i_Tx_Byte,                       \* inputs
          o_Tx_Serial, r_Tx_Active, r_Tx_Done,      \* outputs
          r_SM_Main, r_Clock_Count, r_Bit_Index, r_Tx_Data

txRegs == <<o_Tx_Serial, r_Tx_Active, r_Tx_Done, r_SM_Main, r_Clock_Count, r_Bit_Index,
            r_Tx_Data>>
vars   == <<i_Tx_DV, i_Tx_Byte, txRegs>>

Bit  == {0, 1}
Byte == [0 .. DATA_BITS - 1 -> Bit]

SMState == {"IDLE", "TX_START_BIT", "TX_DATA_BITS", "TX_STOP_BIT", "CLEANUP"}

Last     == CLKS_PER_BIT - 1
Inc16(n) == (n + 1) % 65536

(* o_Tx_Serial has no initial value: until the first clock edge in idle    *)
(* drives it high the line may be low.                                     *)
TxInit ==
  /\ o_Tx_Serial \in Bit
  /\ r_Tx_Active = 0
  /\ r_Tx_Done = 0
  /\ r_SM_Main = "IDLE"
  /\ r_Clock_Count = 0
  /\ r_Bit_Index = 0
  /\ r_Tx_Data = [k \in 0 .. DATA_BITS - 1 |-> 0]

IdleArm ==
  /\ r_SM_Main = "IDLE"
  /\ o_Tx_Serial' = 1
  /\ r_Tx_Done' = 0
  /\ r_Clock_Count' = 0
  /\ r_Bit_Index' = 0

StayIdle ==
  /\ IdleArm
  /\ i_Tx_DV = 0
  /\ UNCHANGED <<r_SM_Main, r_Tx_Active, r_Tx_Data>>

Accept ==
  /\ IdleArm
  /\ i_Tx_DV = 1
  /\ r_Tx_Active' = 1
  /\ r_Tx_Data' = i_Tx_Byte
  /\ r_SM_Main' = "TX_START_BIT"

(* What the start, data and stop arms drive on the line.                   *)
Drives ==
  CASE r_SM_Main = "TX_START_BIT" -> 0
    [] r_SM_Main = "TX_DATA_BITS" -> r_Tx_Data[r_Bit_Index]
    [] OTHER                      -> 1

HoldBit ==   \* the counting branch of the three arms
  /\ r_SM_Main \in {"TX_START_BIT", "TX_DATA_BITS", "TX_STOP_BIT"}
  /\ r_Clock_Count < Last
  /\ o_Tx_Serial' = Drives
  /\ r_Clock_Count' = Inc16(r_Clock_Count)
  /\ UNCHANGED <<r_Tx_Active, r_Tx_Done, r_SM_Main, r_Bit_Index, r_Tx_Data>>

BitDone ==   \* what the other branch does in all three
  /\ r_Clock_Count >= Last
  /\ o_Tx_Serial' = Drives
  /\ r_Clock_Count' = 0
  /\ UNCHANGED r_Tx_Data

StartDoneLatches ==   \* mutant: takes the byte at the end of the start bit
  /\ r_SM_Main = "TX_START_BIT"
  /\ r_Clock_Count >= Last
  /\ o_Tx_Serial' = Drives
  /\ r_Clock_Count' = 0
  /\ r_Tx_Data' = i_Tx_Byte
  /\ r_SM_Main' = "TX_DATA_BITS"
  /\ UNCHANGED <<r_Tx_Active, r_Tx_Done, r_Bit_Index>>

StartDone ==
  /\ r_SM_Main = "TX_START_BIT"
  /\ BitDone
  /\ r_SM_Main' = "TX_DATA_BITS"
  /\ UNCHANGED <<r_Tx_Active, r_Tx_Done, r_Bit_Index>>

DataDone ==
  /\ r_SM_Main = "TX_DATA_BITS"
  /\ BitDone
  /\ \/ /\ r_Bit_Index < DATA_BITS - 1
        /\ r_Bit_Index' = r_Bit_Index + 1
        /\ UNCHANGED r_SM_Main
     \/ /\ r_Bit_Index >= DATA_BITS - 1
        /\ r_Bit_Index' = 0
        /\ r_SM_Main' = "TX_STOP_BIT"
  /\ UNCHANGED <<r_Tx_Active, r_Tx_Done>>

StopDone ==
  /\ r_SM_Main = "TX_STOP_BIT"
  /\ BitDone
  /\ r_Tx_Done' = 1
  /\ r_Tx_Active' = 0
  /\ r_SM_Main' = "CLEANUP"
  /\ UNCHANGED r_Bit_Index

Cleanup ==
  /\ r_SM_Main = "CLEANUP"
  /\ r_Tx_Done' = 1
  /\ r_SM_Main' = "IDLE"
  /\ UNCHANGED <<o_Tx_Serial, r_Tx_Active, r_Clock_Count, r_Bit_Index, r_Tx_Data>>

TxClock == StayIdle \/ Accept \/ HoldBit \/ StartDone \/ DataDone \/ StopDone \/ Cleanup

Inputs == i_Tx_DV' \in Bit /\ i_Tx_Byte' \in Sendable

Init == TxInit /\ i_Tx_DV = 0 /\ i_Tx_Byte \in Sendable
Next == TxClock /\ Inputs

Spec == Init /\ [][Next]_vars

-----------------------------------------------------------------------------
(* The registers keep their types; the cell counter never wraps and the    *)
(* bit index selects a bit of the byte.                                    *)
TypeOK ==
  /\ i_Tx_DV \in Bit /\ i_Tx_Byte \in Byte
  /\ o_Tx_Serial \in Bit /\ r_Tx_Active \in Bit /\ r_Tx_Done \in Bit
  /\ r_SM_Main \in SMState
  /\ r_Clock_Count \in 0 .. Last
  /\ r_SM_Main = "CLEANUP" => r_Clock_Count = 0
  /\ r_Bit_Index \in 0 .. DATA_BITS - 1
  /\ r_SM_Main # "TX_DATA_BITS" => r_Bit_Index = 0
  /\ r_Tx_Data \in Byte
=============================================================================
