---------------------------- MODULE UartTxFrames ----------------------------
(***************************************************************************)
(* The transmitter puts well-formed frames on the line: it implements      *)
(* FrameSender with cells of exactly CLKS_PER_BIT ticks.  The line is a    *)
(* register one tick behind the state machine, so the first tick of each   *)
(* state still shows the cell before it.  A behaviour starts after the     *)
(* first clock edge, which drives the uninitialised line register high.    *)
(***************************************************************************)
EXTENDS UartTx

VARIABLE wireByte   \* history: the byte of the last start bit on the line

frameVars == <<vars, wireByte>>

FrameInit == TxInit /\ o_Tx_Serial = 1 /\ i_Tx_DV \in Bit /\ i_Tx_Byte \in Sendable
             /\ wireByte \in Sendable

StartReachesLine == r_SM_Main = "TX_START_BIT" /\ r_Clock_Count = 0

WireByte == wireByte' = IF StartReachesLine THEN r_Tx_Data ELSE wireByte

FrameNext == Next /\ WireByte
FrameSpec == FrameInit /\ [][FrameNext]_frameVars

-----------------------------------------------------------------------------
Sending == r_SM_Main \in {"TX_START_BIT", "TX_DATA_BITS", "TX_STOP_BIT"}

WireCell ==
  CASE r_SM_Main = "TX_START_BIT" -> IF r_Clock_Count = 0 THEN DATA_BITS + 1 ELSE 0
    [] r_SM_Main = "TX_DATA_BITS" -> IF r_Clock_Count = 0 THEN r_Bit_Index ELSE r_Bit_Index + 1
    [] r_SM_Main = "TX_STOP_BIT"  -> IF r_Clock_Count = 0 THEN DATA_BITS ELSE DATA_BITS + 1
    [] OTHER                      -> DATA_BITS + 1

WireAge == IF Sending /\ r_Clock_Count > 0 THEN r_Clock_Count - 1 ELSE Last

Sender == INSTANCE FrameSender
            WITH BIT_MIN <- CLKS_PER_BIT, BIT_MAX <- CLKS_PER_BIT, line <- o_Tx_Serial,
                 txCell <- WireCell, txAge <- WireAge, txByte <- wireByte

(* The line carries nothing but complete frames with cells of CLKS_PER_BIT *)
(* ticks, at least a full stop bit apart, so whatever UartLink says of a   *)
(* receiver holds of one connected to this transmitter.                    *)
WellFormedFrames == Sender!SenderSpec

(* The frame on the line is that of the byte taken with the request: a     *)
(* request or another byte on the inputs during the frame changes nothing. *)
FrameCarriesAccepted ==
  Sending /\ ~ StartReachesLine => wireByte = r_Tx_Data

(* The inductive invariant behind the refinement: besides the types, the   *)
(* byte being sent is one that was offered, and the line is at the level   *)
(* of the cell WireCell says it is in.                                     *)
FrameInv ==
  /\ TypeOK
  /\ i_Tx_Byte \in Sendable
  /\ Sending => r_Tx_Data \in Sendable
  /\ FrameCarriesAccepted
  /\ o_Tx_Serial = Sender!Level(WireCell, wireByte)
=============================================================================
