--------------------------- MODULE UartTx_proofs ----------------------------
(***************************************************************************)
(* Proofs about the transmitter and the echo test that uses it, for every  *)
(* CLKS_PER_BIT and DATA_BITS, DELAY and CAPACITY.                         *)
(***************************************************************************)
EXTENDS Echo, SequenceTheorems, TLAPS

LEMMA TxConstants ==
  /\ CLKS_PER_BIT \in Nat /\ DATA_BITS \in 1 .. 8
  /\ Last \in 0 .. 65535 /\ Last = CLKS_PER_BIT - 1
  BY TxClksAssumption, TxBitsAssumption DEF Last

(* Every bit the state machine drives is a bit.                            *)
LEMMA DrivesBit == TypeOK => Drives \in Bit
<1> SUFFICES ASSUME TypeOK PROVE Drives \in Bit
  OBVIOUS
<1>1. r_Tx_Data[r_Bit_Index] \in Bit
  BY DEF TypeOK, Byte
<1> QED
  BY <1>1 DEF Drives, Bit

LEMMA HoldCounts ==
  ASSUME TypeOK, HoldBit
  PROVE  r_Clock_Count' = r_Clock_Count + 1 /\ r_Clock_Count' \in 0 .. Last
  BY TxConstants DEF TypeOK, HoldBit, Inc16

LEMMA Zeroes == 0 \in Bit /\ 1 \in Bit /\ 0 \in 0 .. Last /\ 0 \in 0 .. DATA_BITS - 1
  BY TxConstants DEF Bit

LEMMA TxClockType ==
  ASSUME TypeOK, TxClock, Inputs
  PROVE  TypeOK'
<1>0. i_Tx_DV' \in Bit /\ i_Tx_Byte' \in Byte /\ Drives \in Bit
  BY TxSendableAssumption, DrivesBit DEF Inputs, Byte, Bit
<1> USE Zeroes DEF TypeOK, SMState
<1>1. CASE StayIdle
  BY <1>0, <1>1, Zenon DEF StayIdle, IdleArm
<1>2. CASE Accept
  BY <1>0, <1>2, Zenon DEF Accept, IdleArm
<1>3. CASE HoldBit
  BY <1>0, <1>3, HoldCounts, Zenon DEF HoldBit
<1>4. CASE StartDone
  BY <1>0, <1>4, Zenon DEF StartDone, BitDone
<1>5. CASE DataDone
  <2>1. r_Bit_Index' \in 0 .. DATA_BITS - 1
    BY <1>5, TxConstants DEF DataDone
  <2> QED
    BY <1>0, <1>5, <2>1, Zenon DEF DataDone, BitDone
<1>6. CASE StopDone
  BY <1>0, <1>6, Zenon DEF StopDone, BitDone
<1>7. CASE Cleanup
  BY <1>0, <1>7, Zenon DEF Cleanup
<1> QED
  BY <1>1, <1>2, <1>3, <1>4, <1>5, <1>6, <1>7, Zenon DEF TxClock

LEMMA TxInitType == TxInit /\ i_Tx_DV \in Bit /\ i_Tx_Byte \in Sendable => TypeOK
<1> SUFFICES ASSUME TxInit, i_Tx_DV \in Bit, i_Tx_Byte \in Sendable PROVE TypeOK
  OBVIOUS
<1>1. i_Tx_Byte \in Byte
  BY TxSendableAssumption DEF Byte, Bit
<1>2. r_Tx_Data \in Byte
  BY Zeroes DEF TxInit, Byte
<1> QED
  BY <1>1, <1>2, TxConstants, Zeroes DEF TxInit, TypeOK, SMState

(* The transmitter's registers keep their types for any requests: its      *)
(* 16-bit counter (UartTX.v:76,94,124) never wraps, and UartTX.v:90 always *)
(* selects a bit of the byte.                                              *)
THEOREM TxTypeCorrect == FrameSpec => []TypeOK
<1>1. FrameInit => TypeOK
  BY TxInitType DEF FrameInit
<1>2. TypeOK /\ [FrameNext]_frameVars => TypeOK'
  <2> SUFFICES ASSUME TypeOK, [FrameNext]_frameVars PROVE TypeOK'
    OBVIOUS
  <2>1. CASE FrameNext
    BY <2>1, TxClockType DEF FrameNext, Next
  <2>2. CASE UNCHANGED frameVars
    BY <2>2 DEF frameVars, vars, txRegs, TypeOK
  <2> QED
    BY <2>1, <2>2
<1> QED
  BY <1>1, <1>2, PTL DEF FrameSpec
-----------------------------------------------------------------------------
STOPCELL == DATA_BITS + 1

LEMMA WireIs ==
  /\ r_SM_Main \in {"IDLE", "CLEANUP"} => WireCell = STOPCELL /\ WireAge = Last
  /\ Sending /\ r_Clock_Count = 0 => WireAge = Last
  /\ Sending /\ r_Clock_Count > 0 => WireAge = r_Clock_Count - 1
  /\ r_SM_Main = "TX_START_BIT" =>
       WireCell = IF r_Clock_Count = 0 THEN STOPCELL ELSE 0
  /\ r_SM_Main = "TX_DATA_BITS" =>
       WireCell = IF r_Clock_Count = 0 THEN r_Bit_Index ELSE r_Bit_Index + 1
  /\ r_SM_Main = "TX_STOP_BIT" =>
       WireCell = IF r_Clock_Count = 0 THEN DATA_BITS ELSE STOPCELL
  BY DEF WireCell, WireAge, Sending, STOPCELL

LEMMA WireIsNext ==
  /\ r_SM_Main' \in {"IDLE", "CLEANUP"} => WireCell' = STOPCELL /\ WireAge' = Last
  /\ Sending' /\ r_Clock_Count' = 0 => WireAge' = Last
  /\ Sending' /\ r_Clock_Count' > 0 => WireAge' = r_Clock_Count' - 1
  /\ r_SM_Main' = "TX_START_BIT" =>
       WireCell' = IF r_Clock_Count' = 0 THEN STOPCELL ELSE 0
  /\ r_SM_Main' = "TX_DATA_BITS" =>
       WireCell' = IF r_Clock_Count' = 0 THEN r_Bit_Index' ELSE r_Bit_Index' + 1
  /\ r_SM_Main' = "TX_STOP_BIT" =>
       WireCell' = IF r_Clock_Count' = 0 THEN DATA_BITS ELSE STOPCELL
  BY DEF WireCell, WireAge, Sending, STOPCELL, Last

(* The cell the line is in once this state's level has reached it.         *)
Target ==
  CASE r_SM_Main = "TX_START_BIT" -> 0
    [] r_SM_Main = "TX_DATA_BITS" -> r_Bit_Index + 1
    [] OTHER                      -> STOPCELL

(* A step inside a frame shows the state's cell on the line, Drives is its *)
(* level, and the cell's age is the counter's value.                       *)
LEMMA SendingStep ==
  ASSUME TypeOK, Sending, HoldBit \/ StartDone \/ DataDone \/ StopDone
  PROVE  /\ WireCell' = Target
         /\ WireAge' = r_Clock_Count
         /\ o_Tx_Serial' = Drives
         /\ r_Tx_Data' = r_Tx_Data
<1> USE TxConstants
<1>1. CASE HoldBit
  <2>1. /\ r_SM_Main' = r_SM_Main /\ r_Bit_Index' = r_Bit_Index
        /\ r_Clock_Count' = r_Clock_Count + 1 /\ r_Clock_Count' > 0 /\ Sending'
    BY <1>1, HoldCounts DEF HoldBit, TypeOK, Sending
  <2>2. WireAge' = r_Clock_Count
    BY <2>1, WireIsNext DEF TypeOK
  <2>3. WireCell' = Target
    BY <2>1, WireIsNext DEF Target, Sending
  <2> QED
    BY <1>1, <2>2, <2>3 DEF HoldBit
<1>2. CASE StartDone \/ DataDone \/ StopDone
  <2>1. /\ r_Clock_Count = Last /\ r_Clock_Count' = 0
        /\ o_Tx_Serial' = Drives /\ r_Tx_Data' = r_Tx_Data
    BY <1>2 DEF StartDone, DataDone, StopDone, BitDone, TypeOK
  <2>2. CASE StartDone
    <3>1. r_SM_Main = "TX_START_BIT" /\ r_SM_Main' = "TX_DATA_BITS" /\ r_Bit_Index' = 0
      BY <2>2 DEF StartDone, TypeOK
    <3> QED
      BY <2>1, <3>1, WireIsNext DEF Target, Sending
  <2>3. CASE DataDone
    <3>1. r_SM_Main = "TX_DATA_BITS" /\ r_Bit_Index \in 0 .. DATA_BITS - 1
      BY <2>3 DEF DataDone, TypeOK
    <3>2. \/ r_SM_Main' = "TX_DATA_BITS" /\ r_Bit_Index' = r_Bit_Index + 1
          \/ r_SM_Main' = "TX_STOP_BIT" /\ r_Bit_Index = DATA_BITS - 1
      BY <2>3, <3>1 DEF DataDone
    <3> QED
      BY <2>1, <3>1, <3>2, WireIsNext DEF Target, Sending
  <2>4. CASE StopDone
    <3>1. r_SM_Main = "TX_STOP_BIT" /\ r_SM_Main' = "CLEANUP"
      BY <2>4 DEF StopDone
    <3> QED
      BY <2>1, <3>1, WireIsNext DEF Target
  <2> QED
    BY <1>2, <2>2, <2>3, <2>4
<1> QED
  BY <1>1, <1>2
LEMMA DrivesLevel ==
  ASSUME TypeOK, Sending PROVE Drives = Sender!Level(Target, r_Tx_Data)
<1> USE TxConstants
<1>1. CASE r_SM_Main = "TX_START_BIT"
  BY <1>1 DEF Drives, Target, Sender!Level, Sender!STOP
<1>2. CASE r_SM_Main = "TX_DATA_BITS"
  <2>1. Target = r_Bit_Index + 1 /\ r_Bit_Index \in 0 .. DATA_BITS - 1
    BY <1>2 DEF Target, TypeOK
  <2>2. Sender!Level(Target, r_Tx_Data) = r_Tx_Data[r_Bit_Index]
    BY <2>1 DEF Sender!Level, Sender!STOP
  <2> QED
    BY <1>2, <2>2 DEF Drives
<1>3. CASE r_SM_Main = "TX_STOP_BIT"
  BY <1>3 DEF Drives, Target, STOPCELL, Sender!Level, Sender!STOP
<1> QED
  BY <1>1, <1>2, <1>3 DEF Sending

LEMMA StopLevel == \A b : Sender!Level(STOPCELL, b) = 1
  BY TxConstants DEF STOPCELL, Sender!Level, Sender!STOP

(* A step outside a frame leaves the line in its stop cell.                *)
LEMMA QuietStep ==
  ASSUME TypeOK, FrameInv, StayIdle \/ Accept \/ Cleanup
  PROVE  /\ WireCell = STOPCELL /\ WireCell' = STOPCELL
         /\ WireAge = Last /\ WireAge' = Last
         /\ ~ StartReachesLine /\ ~ Sending
         /\ o_Tx_Serial = 1 /\ o_Tx_Serial' = 1
         /\ \/ ~ Sending' /\ r_Tx_Data' = r_Tx_Data
            \/ StartReachesLine' /\ r_Tx_Data' = i_Tx_Byte
<1>1. r_SM_Main \in {"IDLE", "CLEANUP"}
  BY DEF StayIdle, Accept, IdleArm, Cleanup
<1>2. WireCell = STOPCELL /\ WireAge = Last /\ ~ StartReachesLine /\ ~ Sending
  BY <1>1, WireIs DEF StartReachesLine, Sending
<1>3. o_Tx_Serial = 1
  BY <1>2, StopLevel DEF FrameInv
<1>4. o_Tx_Serial' = 1
  BY <1>3 DEF StayIdle, Accept, IdleArm, Cleanup
<1>5. \/ r_SM_Main' = "IDLE" /\ r_Tx_Data' = r_Tx_Data
      \/ r_SM_Main' = "TX_START_BIT" /\ r_Clock_Count' = 0 /\ r_Tx_Data' = i_Tx_Byte
  BY DEF StayIdle, Accept, IdleArm, Cleanup
<1>6. WireCell' = STOPCELL /\ WireAge' = Last
  BY <1>5, WireIsNext DEF Sending
<1> QED
  BY <1>2, <1>3, <1>4, <1>5, <1>6 DEF Sending, StartReachesLine

LEMMA FrameInvStep ==
  ASSUME FrameInv, FrameNext
  PROVE  FrameInv'
<1>0. TypeOK /\ TypeOK' /\ i_Tx_Byte' \in Sendable
  BY TxClockType DEF FrameInv, FrameNext, Next, Inputs
<1>1. CASE StayIdle \/ Accept \/ Cleanup
  <2>1. wireByte' = wireByte
    BY <1>0, <1>1, QuietStep DEF FrameNext, WireByte
  <2>2. o_Tx_Serial' = Sender!Level(WireCell', wireByte')
    BY <1>0, <1>1, QuietStep, StopLevel
  <2>3. (Sending => r_Tx_Data \in Sendable)' /\ FrameCarriesAccepted'
    BY <1>0, <1>1, QuietStep DEF FrameInv, FrameCarriesAccepted
  <2> QED
    BY <1>0, <2>2, <2>3 DEF FrameInv, Sender!Level, Sender!STOP
<1>2. CASE HoldBit \/ StartDone \/ DataDone \/ StopDone
  <2>1. Sending
    BY <1>2 DEF HoldBit, StartDone, DataDone, StopDone, Sending
  <2>2. wireByte' = r_Tx_Data /\ r_Tx_Data \in Sendable
    BY <2>1 DEF FrameInv, FrameNext, WireByte, FrameCarriesAccepted
  <2>3. WireCell' = Target /\ o_Tx_Serial' = Drives /\ r_Tx_Data' = r_Tx_Data
    BY <1>0, <1>2, <2>1, SendingStep
  <2>4. o_Tx_Serial' = Sender!Level(WireCell', wireByte')
    BY <1>0, <2>1, <2>2, <2>3, DrivesLevel
  <2> QED
    BY <1>0, <2>2, <2>3, <2>4 DEF FrameInv, FrameCarriesAccepted, Sender!Level, Sender!STOP
<1> QED
  BY <1>1, <1>2 DEF FrameNext, Next, TxClock

LEMMA FrameInvInit == FrameInit => FrameInv
<1> SUFFICES ASSUME FrameInit PROVE FrameInv
  OBVIOUS
<1>1. TypeOK /\ i_Tx_Byte \in Sendable /\ o_Tx_Serial = 1 /\ r_SM_Main = "IDLE"
  BY TxInitType DEF FrameInit, TxInit
<1>2. WireCell = STOPCELL
  BY <1>1, WireIs
<1> QED
  BY <1>1, <1>2, StopLevel DEF FrameInv, FrameCarriesAccepted, Sending

LEMMA FrameInvStutter == FrameInv /\ UNCHANGED frameVars => FrameInv'
  BY DEF FrameInv, frameVars, vars, txRegs, TypeOK, FrameCarriesAccepted, Sending,
         StartReachesLine, WireCell, Sender!Level, Sender!STOP

(* The inductive invariant of the transmitter and its line: what the line  *)
(* carries is the cell of the accepted byte the state machine is at.       *)
THEOREM FrameInvariant == FrameSpec => []FrameInv
<1>1. FrameInv /\ [FrameNext]_frameVars => FrameInv'
  BY FrameInvStep, FrameInvStutter
<1> QED
  BY <1>1, FrameInvInit, PTL DEF FrameSpec

-----------------------------------------------------------------------------
LEMMA SenderStep ==
  ASSUME FrameInv, FrameNext
  PROVE  [Sender!TxStep]_(Sender!senderVars)
<1> USE DEF Sender!TxStep, Sender!senderVars, Sender!txVars
<1>0. TypeOK
  BY DEF FrameInv
<1>1. CASE StayIdle \/ Accept \/ Cleanup
  BY <1>0, <1>1, QuietStep DEF FrameNext, WireByte
<1>2. CASE HoldBit \/ StartDone \/ DataDone \/ StopDone
  <2>1. Sending
    BY <1>2 DEF HoldBit, StartDone, DataDone, StopDone, Sending
  <2>2. wireByte' = r_Tx_Data /\ r_Tx_Data \in Sendable
    BY <2>1 DEF FrameInv, FrameNext, WireByte, FrameCarriesAccepted
  <2>3. /\ WireCell' = Target /\ WireAge' = r_Clock_Count
        /\ o_Tx_Serial' = Sender!Level(Target, r_Tx_Data)
    BY <1>0, <1>2, <2>1, SendingStep, DrivesLevel
  <2>4. o_Tx_Serial = Sender!Level(WireCell, wireByte)
    BY DEF FrameInv
  <2>5. r_Clock_Count \in 0 .. Last /\ r_Bit_Index \in 0 .. DATA_BITS - 1
    BY <1>0 DEF TypeOK
  <2>6. CASE r_Clock_Count > 0   \* the cell goes on
    <3>1. WireCell = Target /\ WireAge = r_Clock_Count - 1
      BY <2>1, <2>6, WireIs DEF Target, Sending
    <3>2. wireByte' = wireByte /\ wireByte = r_Tx_Data
      BY <2>1, <2>6 DEF FrameInv, FrameNext, WireByte, FrameCarriesAccepted, StartReachesLine
    <3>3. o_Tx_Serial' = o_Tx_Serial /\ WireCell' = WireCell /\ WireAge' = WireAge + 1
      BY <2>3, <2>4, <2>5, <3>1, <3>2, TxConstants
    <3>4. WireAge + 1 < CLKS_PER_BIT
      BY <2>5, <3>1, TxConstants
    <3> QED
      BY <3>2, <3>3, <3>4, <2>5, <3>1, TxConstants DEF Sender!KeepCell
  <2>7. CASE r_Clock_Count = 0   \* the state's cell begins
    <3>1. WireAge = Last /\ WireAge' = 0 /\ WireAge + 1 >= CLKS_PER_BIT
      BY <2>1, <2>3, <2>7, WireIs, TxConstants
    <3>2. CASE r_SM_Main = "TX_START_BIT"
      <4>1. WireCell = Sender!STOP /\ WireCell' = 0 /\ o_Tx_Serial' = 0
        <5>1. Target = 0 /\ Sender!Level(0, r_Tx_Data) = 0
          BY <3>2, TxConstants DEF Target, Sender!STOP, Sender!Level
        <5>2. WireCell = Sender!STOP
          BY <2>7, <3>2, WireIs DEF STOPCELL, Sender!STOP
        <5> QED
          BY <2>3, <5>1, <5>2
      <4> QED
        BY <2>2, <3>1, <4>1 DEF Sender!StartFrame
    <3>3. CASE r_SM_Main \in {"TX_DATA_BITS", "TX_STOP_BIT"}
      <4>1. WireCell # Sender!STOP /\ WireCell' = WireCell + 1
        BY <2>3, <2>5, <2>7, <3>3, WireIs, TxConstants DEF Target, STOPCELL, Sender!STOP
      <4>2. wireByte' = wireByte
        BY <3>3 DEF FrameNext, WireByte, StartReachesLine
      <4>3. o_Tx_Serial' = Sender!Level(WireCell + 1, wireByte)
        BY <2>2, <2>3, <4>1, <4>2
      <4> QED
        BY <3>1, <4>1, <4>2, <4>3 DEF Sender!NextCell
    <3> QED
      BY <2>1, <3>2, <3>3 DEF Sending
  <2> QED
    BY <2>5, <2>6, <2>7
<1> QED
  BY <1>1, <1>2 DEF FrameNext, Next, TxClock

(* The transmitter implements the frame sender with cells of exactly       *)
(* CLKS_PER_BIT ticks (UartTX.v:4-6), for every CLKS_PER_BIT, DATA_BITS    *)
(* and sequence of requests, from the first clock edge on.                 *)
THEOREM TxImplementsSender == FrameSpec => WellFormedFrames
<1>1. FrameInit => Sender!SenderInit
  <2> SUFFICES ASSUME FrameInit PROVE Sender!SenderInit
    OBVIOUS
  <2>1. r_SM_Main = "IDLE" /\ o_Tx_Serial = 1 /\ wireByte \in Sendable
    BY DEF FrameInit, TxInit
  <2>2. WireCell = STOPCELL /\ WireAge = Last
    BY <2>1, WireIs
  <2> QED
    BY <2>1, <2>2 DEF Sender!SenderInit, Sender!STOP, STOPCELL, Last
<1>2. FrameInv /\ [FrameNext]_frameVars => [Sender!TxStep]_(Sender!senderVars)
  <2> SUFFICES ASSUME FrameInv, UNCHANGED frameVars
               PROVE  UNCHANGED Sender!senderVars
    BY SenderStep
  <2> QED
    BY DEF frameVars, vars, txRegs, Sender!senderVars, Sender!txVars, WireCell, WireAge, Sending
<1> QED
  BY <1>1, <1>2, FrameInvariant, PTL DEF FrameSpec, WellFormedFrames, Sender!SenderSpec

-----------------------------------------------------------------------------
(* The echo test.  How long the frame that is being sent has taken, which  *)
(* the delay started by the byte after it cannot have overtaken.           *)
FrameAge ==
  CASE r_SM_Main = "TX_START_BIT" -> r_Clock_Count
    [] r_SM_Main = "TX_DATA_BITS" -> (r_Bit_Index + 1) * CLKS_PER_BIT + r_Clock_Count
    [] r_SM_Main = "TX_STOP_BIT"  -> (DATA_BITS + 1) * CLKS_PER_BIT + r_Clock_Count
    [] OTHER                      -> (DATA_BITS + 2) * CLKS_PER_BIT

EchoTypeOK ==
  /\ TypeOK /\ i_Tx_Byte \in Sendable
  /\ o_Rx_DV \in Bit /\ o_Rx_Byte \in Sendable
  /\ fifo \in Seq(Sendable) /\ Len(fifo) <= CAPACITY
  /\ StartTXCount \in Bit

EchoIndInv ==
  /\ EchoTypeOK
  /\ EchoInv
  /\ TXDelayed = 1 => StartTXCount = 0 /\ DelayCounter = 0
  /\ r_SM_Main # "IDLE" => DelayCounter <= FrameAge

LEMMA CellsAdd ==
  ASSUME NEW c \in Nat, NEW k \in Nat
  PROVE  (k + 1) * c = k * c + c /\ k * c \in Nat
OBVIOUS

LEMMA CellsGrow ==
  ASSUME NEW c \in Nat, NEW j \in Nat, NEW k \in Nat, j <= k
  PROVE  j * c <= k * c
<1>1. k - j \in Nat /\ k = j + (k - j)
  OBVIOUS
<1>2. (j + (k - j)) * c = j * c + (k - j) * c /\ (k - j) * c \in Nat
  BY <1>1
<1> QED
  BY <1>1, <1>2

\* A frame ages by a clock a clock, and is over at the end of its stop bit.
LEMMA FrameAges ==
  ASSUME TypeOK, HoldBit \/ StartDone \/ DataDone \/ StopDone
  PROVE  /\ FrameAge' = FrameAge + 1 /\ FrameAge \in Nat
         /\ FrameAge < (DATA_BITS + 2) * CLKS_PER_BIT
<1> DEFINE C == CLKS_PER_BIT
           D == DATA_BITS
           Cells(k) == k * C
<1>1. /\ C \in Nat /\ D \in 1 .. 8 /\ Last = C - 1
      /\ r_Clock_Count \in 0 .. Last /\ r_Bit_Index \in 0 .. D - 1
  BY TxConstants DEF TypeOK
<1>2. \A k \in Nat : Cells(k + 1) = Cells(k) + C /\ Cells(k) \in Nat
  BY <1>1, CellsAdd
<1>3. \A j, k \in Nat : j <= k => Cells(j) <= Cells(k)
  BY <1>1, CellsGrow
<1>4. /\ r_SM_Main = "TX_START_BIT" => FrameAge = r_Clock_Count
      /\ r_SM_Main = "TX_DATA_BITS" => FrameAge = Cells(r_Bit_Index + 1) + r_Clock_Count
      /\ r_SM_Main = "TX_STOP_BIT"  => FrameAge = Cells(D + 1) + r_Clock_Count
      /\ r_SM_Main = "CLEANUP"      => FrameAge = Cells(D + 2)
  BY DEF FrameAge
<1>5. /\ r_SM_Main' = "TX_START_BIT" => FrameAge' = r_Clock_Count'
      /\ r_SM_Main' = "TX_DATA_BITS" => FrameAge' = Cells(r_Bit_Index' + 1) + r_Clock_Count'
      /\ r_SM_Main' = "TX_STOP_BIT"  => FrameAge' = Cells(D + 1) + r_Clock_Count'
      /\ r_SM_Main' = "CLEANUP"      => FrameAge' = Cells(D + 2)
  BY DEF FrameAge
<1>6. Cells(1) = C /\ Cells(D + 1) \in Nat /\ Cells(D + 2) = Cells(D + 1) + C
  <2>1. Cells(1) = C
    BY <1>1
  <2>2. D + 1 \in Nat /\ (D + 1) + 1 = D + 2
    BY <1>1
  <2> QED
    BY <1>2, <2>1, <2>2
<1>7. /\ Cells(r_Bit_Index + 1) \in Nat /\ Cells(r_Bit_Index + 1 + 1) = Cells(r_Bit_Index + 1) + C
      /\ Cells(r_Bit_Index + 1) <= Cells(D)
      /\ Cells(D + 1) = Cells(D) + C /\ Cells(D) \in Nat
  <2>1. r_Bit_Index + 1 \in Nat /\ r_Bit_Index + 1 <= D /\ D \in Nat
    BY <1>1
  <2> QED
    BY <1>2, <1>3, <2>1
<1>8. Cells(D + 2) = (DATA_BITS + 2) * CLKS_PER_BIT
  OBVIOUS
<1> HIDE DEF Cells, C, D
<1>9. CASE HoldBit
  <2>1. r_Clock_Count' = r_Clock_Count + 1 /\ r_SM_Main' = r_SM_Main /\ r_Bit_Index' = r_Bit_Index
        /\ r_SM_Main \in {"TX_START_BIT", "TX_DATA_BITS", "TX_STOP_BIT"}
    BY <1>9, HoldCounts DEF HoldBit
  <2> QED
    BY <1>1, <1>4, <1>5, <1>6, <1>7, <1>8, <2>1
<1>10. CASE StartDone
  <2>1. r_Clock_Count = Last /\ r_Clock_Count' = 0 /\ r_Bit_Index' = 0
        /\ r_SM_Main = "TX_START_BIT" /\ r_SM_Main' = "TX_DATA_BITS"
    BY <1>1, <1>10 DEF StartDone, BitDone, TypeOK
  <2> QED
    BY <1>1, <1>4, <1>5, <1>6, <1>7, <1>8, <2>1
<1>11. CASE DataDone
  <2>1. /\ r_Clock_Count = Last /\ r_Clock_Count' = 0 /\ r_SM_Main = "TX_DATA_BITS"
        /\ \/ r_Bit_Index' = r_Bit_Index + 1 /\ r_SM_Main' = "TX_DATA_BITS"
           \/ r_Bit_Index = D - 1 /\ r_SM_Main' = "TX_STOP_BIT"
    BY <1>1, <1>11 DEF DataDone, BitDone, D
  <2>2. r_Bit_Index = D - 1 => r_Bit_Index + 1 + 1 = D + 1
    BY <1>1
  <2> QED
    BY <1>1, <1>4, <1>5, <1>6, <1>7, <1>8, <2>1, <2>2
<1>12. CASE StopDone
  <2>1. r_Clock_Count = Last /\ r_SM_Main = "TX_STOP_BIT" /\ r_SM_Main' = "CLEANUP"
    BY <1>1, <1>12 DEF StopDone, BitDone
  <2> QED
    BY <1>1, <1>4, <1>5, <1>6, <1>8, <2>1
<1> QED
  BY <1>9, <1>10, <1>11, <1>12

LEMMA FifoMoves ==
  ASSUME EchoTypeOK, Receiver, Fifo
  PROVE  /\ o_Rx_DV' \in Bit /\ o_Rx_Byte' \in Sendable /\ i_Tx_Byte' \in Sendable
         /\ fifo' \in Seq(Sendable) /\ Len(fifo') <= CAPACITY
         /\ Reads /\ Writes => fifo' = Append(Tail(fifo), o_Rx_Byte)
         /\ Reads /\ ~ Writes => fifo' = Tail(fifo)
         /\ ~ Reads /\ Writes => fifo' = Append(fifo, o_Rx_Byte)
         /\ ~ Reads /\ ~ Writes => fifo' = fifo
         /\ o_Rx_DV = 1 \/ (fifo # << >> /\ ~ Reads) => fifo' # << >>
<1>1. /\ fifo \in Seq(Sendable) /\ Len(fifo) \in Nat /\ Len(fifo) <= CAPACITY
      /\ CAPACITY \in Nat /\ CAPACITY >= 2 /\ o_Rx_Byte \in Sendable /\ i_Tx_Byte \in Sendable
      /\ o_Rx_DV \in Bit
  BY CapacityAssumption, LenProperties DEF EchoTypeOK
<1>2. Writes => Len(fifo) < CAPACITY
  BY DEF Writes
<1>3. Reads => /\ Head(fifo) \in Sendable /\ Tail(fifo) \in Seq(Sendable)
               /\ Len(Tail(fifo)) = Len(fifo) - 1 /\ Len(fifo) >= 1
  BY <1>1, HeadTailProperties, EmptySeq DEF Reads
<1>4. /\ o_Rx_DV' \in Bit /\ o_Rx_Byte' \in Sendable
  BY DEF Receiver, Bit
<1>5. i_Tx_Byte' \in Sendable
  BY <1>1, <1>3 DEF Fifo
<1>6. CASE Reads /\ Writes
  <2>1. fifo' = Tail(fifo) \o <<o_Rx_Byte>>
    BY <1>6 DEF Fifo
  <2>2. /\ fifo' = Append(Tail(fifo), o_Rx_Byte) /\ fifo' \in Seq(Sendable) /\ fifo' # << >>
        /\ Len(fifo') = Len(fifo)
    BY <1>1, <1>3, <1>6, <2>1, AppendIsConcat, AppendProperties
  <2> QED
    BY <1>1, <1>4, <1>5, <1>6, <2>2
<1>7. CASE Reads /\ ~ Writes
  <2>1. fifo' = Tail(fifo) \o << >>
    BY <1>7 DEF Fifo
  <2>2. fifo' = Tail(fifo)
    BY <1>3, <1>7, <2>1, ConcatEmptySeq
  <2>3. o_Rx_DV = 1 => Len(fifo') >= 1
    BY <1>1, <1>3, <1>7, <2>2 DEF Writes
  <2>4. fifo' = << >> => Len(fifo') = 0
    BY EmptySeq
  <2> QED
    BY <1>1, <1>3, <1>4, <1>5, <1>7, <2>2, <2>3, <2>4
<1>8. CASE ~ Reads /\ Writes
  <2>1. fifo' = fifo \o <<o_Rx_Byte>>
    BY <1>8 DEF Fifo
  <2>2. /\ fifo' = Append(fifo, o_Rx_Byte) /\ fifo' \in Seq(Sendable) /\ fifo' # << >>
        /\ Len(fifo') = Len(fifo) + 1
    BY <1>1, <2>1, AppendIsConcat, AppendProperties
  <2> QED
    BY <1>1, <1>2, <1>4, <1>5, <1>8, <2>2
<1>9. CASE ~ Reads /\ ~ Writes
  <2>1. fifo' = fifo \o << >>
    BY <1>9 DEF Fifo
  <2>2. fifo' = fifo
    BY <1>1, <2>1, ConcatEmptySeq
  <2>3. o_Rx_DV = 1 => Len(fifo) >= 2
    BY <1>1, <1>9 DEF Writes
  <2>4. fifo = << >> => Len(fifo) = 0
    BY EmptySeq
  <2> QED
    BY <1>1, <1>4, <1>5, <1>9, <2>2, <2>3, <2>4
<1> QED
  BY <1>6, <1>7, <1>8, <1>9

LEMMA EchoStep ==
  ASSUME EchoIndInv, EchoNext
  PROVE  EchoIndInv'
<1>1. /\ TypeOK /\ EchoTypeOK /\ EchoInv /\ Receiver /\ Fifo /\ TxClock
      /\ Expired \/ Counting
      /\ DELAY \in Nat /\ DELAY > 0
      /\ DelayCounter \in 0 .. DELAY /\ StartTXCount \in {0, 1} /\ o_Rx_DV \in {0, 1}
      /\ TXDelayed \in {0, 1}
  <2>1. DELAY \in Nat /\ DELAY > 0
    <3>1. (DATA_BITS + 2) * CLKS_PER_BIT > 0
      <4>1. DATA_BITS + 2 \in Nat \ {0} /\ CLKS_PER_BIT \in Nat \ {0}
        BY TxConstants, TxClksAssumption
      <4>2. \A a, b \in Nat \ {0} : a * b > 0
        OBVIOUS
      <4> QED
        BY <4>1, <4>2
    <3> QED
      BY <3>1, DelayAssumption, TxConstants
  <2> QED
    BY <2>1 DEF EchoIndInv, EchoTypeOK, EchoInv, EchoNext, TypeOK, Bit, TXDelayed
<1>2. i_Tx_DV' \in Bit /\ StartTXCount' \in Bit
  BY <1>1 DEF Expired, Counting, Bit
<1>3. /\ o_Rx_DV' \in Bit /\ o_Rx_Byte' \in Sendable /\ i_Tx_Byte' \in Sendable
      /\ fifo' \in Seq(Sendable) /\ Len(fifo') <= CAPACITY
      /\ o_Rx_DV = 1 \/ (fifo # << >> /\ ~ Reads) => fifo' # << >>
  BY <1>1, FifoMoves
<1>4. TypeOK'
  BY <1>1, <1>2, <1>3, TxClockType DEF Inputs
<1>5. EchoTypeOK'
  BY <1>2, <1>3, <1>4 DEF EchoTypeOK
<1>6. r_SM_Main' # "IDLE" => DelayCounter' <= FrameAge'
  <2>1. CASE Expired
    <3>1. DelayCounter' = 0
      BY <2>1 DEF Expired
    <3>2. CASE HoldBit \/ StartDone \/ DataDone \/ StopDone
      BY <1>1, <3>1, <3>2, FrameAges
    <3>3. CASE StayIdle \/ Cleanup
      BY <3>3 DEF StayIdle, IdleArm, Cleanup
    <3>4. CASE Accept
      BY <3>1, <3>4 DEF Accept, IdleArm, FrameAge
    <3> QED
      BY <1>1, <3>2, <3>3, <3>4 DEF TxClock
  <2>2. CASE Counting
    <3>1. DelayCounter' = DelayCounter + StartTXCount
      BY <2>2 DEF Counting
    <3>2. CASE HoldBit \/ StartDone \/ DataDone \/ StopDone
      <4>1. DelayCounter <= FrameAge
        BY <3>2 DEF EchoIndInv, HoldBit, StartDone, DataDone, StopDone
      <4>2. FrameAge' = FrameAge + 1 /\ FrameAge \in Nat
        BY <1>1, <3>2, FrameAges
      <4> QED
        BY <1>1, <3>1, <4>1, <4>2
    <3>3. CASE StayIdle \/ Cleanup
      BY <3>3 DEF StayIdle, IdleArm, Cleanup
    <3>4. CASE Accept
      <4>1. DelayCounter = 0 /\ StartTXCount = 0
        BY <3>4 DEF Accept, EchoIndInv, TXDelayed
      <4>2. FrameAge' = 0
        BY <3>4 DEF Accept, IdleArm, FrameAge
      <4> QED
        BY <3>1, <4>1, <4>2
    <3> QED
      BY <1>1, <3>2, <3>3, <3>4 DEF TxClock
  <2> QED
    BY <1>1, <2>1, <2>2
<1>7. TXDelayed' = 1 => /\ StartTXCount' = 0 /\ DelayCounter' = 0
                        /\ r_SM_Main' = "IDLE" /\ fifo' # << >>
  <2> SUFFICES ASSUME TXDelayed' = 1
               PROVE  /\ StartTXCount' = 0 /\ DelayCounter' = 0
                      /\ r_SM_Main' = "IDLE" /\ fifo' # << >>
    OBVIOUS
  <2>1. DelayCounter = DELAY /\ StartTXCount' = 0 /\ DelayCounter' = 0
    BY <1>1 DEF Expired, Counting, TXDelayed
  <2>2. TXDelayed # 1 /\ fifo # << >>
    BY <1>1, <2>1 DEF EchoIndInv, EchoInv
  <2>3. fifo' # << >>
    BY <1>3, <2>2 DEF Reads
  <2>4. ~ (HoldBit \/ StartDone \/ DataDone \/ StopDone)
    <3> SUFFICES ASSUME HoldBit \/ StartDone \/ DataDone \/ StopDone PROVE FALSE
      OBVIOUS
    <3>1. DelayCounter <= FrameAge
      BY DEF EchoIndInv, HoldBit, StartDone, DataDone, StopDone
    <3>2. FrameAge \in Nat /\ FrameAge < (DATA_BITS + 2) * CLKS_PER_BIT
      BY <1>1, FrameAges
    <3>3. \E e \in Nat : e = (DATA_BITS + 2) * CLKS_PER_BIT /\ DELAY >= e
      BY DelayAssumption, TxConstants
    <3> QED
      BY <1>1, <2>1, <3>1, <3>2, <3>3
  <2>5. ~ Accept
    BY <2>2 DEF Accept, TXDelayed
  <2>6. r_SM_Main' = "IDLE"
    BY <1>1, <2>4, <2>5 DEF TxClock, StayIdle, IdleArm, Cleanup
  <2> QED
    BY <2>1, <2>3, <2>6
<1>8. /\ StartTXCount' = 1 => fifo' # << >>
      /\ DelayCounter' > 0 => StartTXCount' = 1
      /\ DelayCounter' \in 0 .. DELAY
  <2>1. CASE Expired
    BY <1>1, <2>1 DEF Expired
  <2>2. CASE Counting
    <3>1. /\ DelayCounter # DELAY /\ DelayCounter' = DelayCounter + StartTXCount
          /\ StartTXCount' = IF o_Rx_DV = 1 THEN 1 ELSE StartTXCount
      BY <2>2 DEF Counting
    <3>2. StartTXCount = 1 => fifo # << >> /\ ~ Reads
      BY <1>1 DEF EchoIndInv, EchoInv, Reads
    <3>3. DelayCounter > 0 => StartTXCount = 1
      BY <1>1 DEF EchoInv
    <3> QED
      BY <1>1, <1>3, <3>1, <3>2, <3>3
  <2> QED
    BY <1>1, <2>1, <2>2
<1> QED
  BY <1>5, <1>6, <1>7, <1>8 DEF EchoIndInv, EchoInv

LEMMA EchoStart == EchoInit => EchoIndInv
<1> SUFFICES ASSUME EchoInit PROVE EchoIndInv
  OBVIOUS
<1>1. TypeOK /\ r_SM_Main = "IDLE" /\ i_Tx_Byte \in Sendable
  BY TxInitType DEF EchoInit, FrameInit, TxInit
<1>2. /\ fifo = << >> /\ << >> \in Seq(Sendable) /\ Len(<< >>) = 0 /\ 0 <= CAPACITY
      /\ 0 \in Bit /\ 0 \in 0 .. DELAY
  BY EmptySeq, CapacityAssumption, DelayAssumption DEF EchoInit, Bit
<1> QED
  BY <1>1, <1>2 DEF EchoInit, EchoIndInv, EchoTypeOK, EchoInv, TXDelayed

LEMMA EchoStutter == EchoIndInv /\ UNCHANGED echoVars => EchoIndInv'
  BY DEF EchoIndInv, EchoTypeOK, EchoInv, TypeOK, FrameAge, TXDelayed, echoVars, echoRegs,
         frameVars, vars, txRegs

\* A request always finds a byte to send and the transmitter idle
\* (top.v:51-93), for every length of a cell, delay longer than a frame and
\* FIFO of two places or more.
THEOREM EchoInvariant == EchoSpec => []EchoInv
<1>1. EchoIndInv /\ [EchoNext]_echoVars => EchoIndInv'
  BY EchoStep, EchoStutter
<1>2. EchoIndInv => EchoInv
  BY DEF EchoIndInv
<1> QED
  BY EchoStart, <1>1, <1>2, PTL DEF EchoSpec
-----------------------------------------------------------------------------
(* The bytes that wait: the oldest is in the FIFO's output register.       *)
LEMMA Waiting ==
  ASSUME NEW S, NEW x \in S, NEW s \in Seq(S)
  PROVE  /\ <<x>> \o s \in Seq(S) /\ Len(<<x>> \o s) = Len(s) + 1
         /\ Head(<<x>> \o s) = x /\ Tail(<<x>> \o s) = s
         /\ s # << >> => <<Head(s)>> \o Tail(s) = s
         /\ \A v \in S : <<x>> \o Append(s, v) = Append(<<x>> \o s, v)
<1>1. <<x>> \in Seq(S) /\ Len(<<x>>) = 1 /\ <<x>>[1] = x /\ Len(s) \in Nat
  BY LenProperties
<1>2. /\ <<x>> \o s \in Seq(S) /\ Len(<<x>> \o s) = Len(s) + 1
      /\ \A i \in 1 .. Len(s) + 1 : (<<x>> \o s)[i] = IF i <= 1 THEN x ELSE s[i - 1]
  BY <1>1, ConcatProperties
<1>3. <<x>> \o s # << >> /\ Head(<<x>> \o s) = x
  BY <1>1, <1>2, EmptySeq
<1>4. Tail(<<x>> \o s) = s
  <2>1. /\ Tail(<<x>> \o s) \in Seq(S) /\ Len(Tail(<<x>> \o s)) = Len(s)
        /\ \A i \in 1 .. Len(s) : Tail(<<x>> \o s)[i] = (<<x>> \o s)[i + 1]
    BY <1>1, <1>2, <1>3, HeadTailProperties
  <2>2. \A i \in 1 .. Len(s) : (<<x>> \o s)[i + 1] = s[i]
    BY <1>1, <1>2
  <2> QED
    BY <2>1, <2>2, SeqEqual
<1>5. ASSUME s # << >> PROVE <<Head(s)>> \o Tail(s) = s
  <2>1. /\ Head(s) \in S /\ Tail(s) \in Seq(S) /\ Len(Tail(s)) = Len(s) - 1
        /\ \A i \in 1 .. Len(s) - 1 : Tail(s)[i] = s[i + 1]
        /\ Head(s) = s[1]
    BY <1>5, HeadTailProperties
  <2>2. /\ <<Head(s)>> \in Seq(S) /\ Len(<<Head(s)>>) = 1 /\ <<Head(s)>>[1] = Head(s)
    BY <2>1
  <2>3. /\ <<Head(s)>> \o Tail(s) \in Seq(S) /\ Len(<<Head(s)>> \o Tail(s)) = Len(s)
        /\ \A i \in 1 .. Len(s) : (<<Head(s)>> \o Tail(s))[i]
                                    = IF i <= 1 THEN Head(s) ELSE Tail(s)[i - 1]
    BY <1>1, <2>1, <2>2, ConcatProperties
  <2>4. \A i \in 1 .. Len(s) : (<<Head(s)>> \o Tail(s))[i] = s[i]
    BY <1>1, <2>1, <2>3
  <2> QED
    BY <2>3, <2>4, SeqEqual
<1>6. ASSUME NEW v \in S PROVE <<x>> \o Append(s, v) = Append(<<x>> \o s, v)
  <2>1. /\ Append(s, v) = s \o <<v>> /\ Append(<<x>> \o s, v) = (<<x>> \o s) \o <<v>>
        /\ <<v>> \in Seq(S)
    BY <1>2, AppendIsConcat
  <2> QED
    BY <1>1, <2>1, ConcatAssociative
<1> QED
  BY <1>2, <1>3, <1>4, <1>5, <1>6

LEMMA QueueStep ==
  ASSUME EchoIndInv, EchoNext
  PROVE  [Queue!Enqueue \/ Queue!Send \/ Queue!SendEnqueue]_(<<<<i_Tx_Byte>> \o fifo, r_Tx_Data>>)
<1> DEFINE waiting == <<i_Tx_Byte>> \o fifo
<1>1. /\ EchoTypeOK /\ EchoInv /\ Receiver /\ Fifo /\ TxClock /\ TXDelayed \in {0, 1}
      /\ fifo \in Seq(Byte) /\ Len(fifo) \in Nat /\ Len(fifo) <= CAPACITY /\ CAPACITY \in Nat
      /\ i_Tx_Byte \in Byte /\ o_Rx_Byte \in Byte
  <2>1. fifo \in Seq(Sendable) /\ Sendable \subseteq Byte
    BY TxSendableAssumption DEF EchoIndInv, EchoTypeOK, Byte, Bit
  <2>2. fifo \in Seq(Byte)
    BY <2>1, SeqMonotonic
  <2> QED
    BY <2>1, <2>2, CapacityAssumption, LenProperties
       DEF EchoIndInv, EchoTypeOK, EchoNext, TypeOK, Bit, TXDelayed
<1>2. /\ Reads /\ Writes => fifo' = Append(Tail(fifo), o_Rx_Byte)
      /\ Reads /\ ~ Writes => fifo' = Tail(fifo)
      /\ ~ Reads /\ Writes => fifo' = Append(fifo, o_Rx_Byte)
      /\ ~ Reads /\ ~ Writes => fifo' = fifo
  BY <1>1, FifoMoves
<1>3. i_Tx_Byte' = IF Reads THEN Head(fifo) ELSE i_Tx_Byte
  BY <1>1 DEF Fifo
<1>4. r_Tx_Data' = IF Reads THEN i_Tx_Byte ELSE r_Tx_Data
  <2>1. Reads <=> TXDelayed = 1
    BY <1>1 DEF EchoInv, Reads
  <2>2. TXDelayed = 1 => r_SM_Main = "IDLE"
    BY <1>1 DEF EchoInv
  <2>3. CASE TXDelayed = 1
    <3>1. Accept
      BY <1>1, <2>2, <2>3 DEF TxClock, StayIdle, HoldBit, StartDone, DataDone, StopDone,
            Cleanup, TXDelayed
    <3> QED
      BY <2>1, <2>3, <3>1 DEF Accept
  <2>4. CASE TXDelayed = 0
    <3>1. ~ Accept
      BY <2>4 DEF Accept, TXDelayed
    <3>2. r_Tx_Data' = r_Tx_Data
      BY <1>1, <3>1 DEF TxClock, StayIdle, HoldBit, StartDone, DataDone, StopDone, BitDone,
            Cleanup
    <3> QED
      BY <2>1, <2>4, <3>2
  <2> QED
    BY <1>1, <2>3, <2>4
<1>5. /\ Len(waiting) = Len(fifo) + 1 /\ Head(waiting) = i_Tx_Byte /\ Tail(waiting) = fifo
      /\ <<i_Tx_Byte>> \o Append(fifo, o_Rx_Byte) = Append(waiting, o_Rx_Byte)
  <2> HIDE DEF waiting
  <2>1. waiting = <<i_Tx_Byte>> \o fifo
    BY DEF waiting
  <2> QED
    BY <1>1, <2>1, Waiting
<1>6. CASE Reads
  <2>1. fifo # << >> /\ Head(fifo) \in Byte /\ Tail(fifo) \in Seq(Byte)
    BY <1>1, <1>6, HeadTailProperties DEF Reads
  <2>2. Len(fifo) > 0
    BY <1>1, <2>1, EmptySeq
  <2>3. /\ <<Head(fifo)>> \o Tail(fifo) = fifo
        /\ <<Head(fifo)>> \o Append(Tail(fifo), o_Rx_Byte) = Append(fifo, o_Rx_Byte)
    BY <1>1, <2>1, Waiting
  <2>4. CASE Writes
    <3>1. waiting' = Append(fifo, o_Rx_Byte) /\ Len(fifo) < CAPACITY
      BY <1>2, <1>3, <1>6, <2>3, <2>4 DEF Writes
    <3>2. Queue!SendEnqueue
      BY <1>1, <1>4, <1>5, <1>6, <2>2, <3>1 DEF Queue!SendEnqueue
    <3> QED
      BY <3>2
  <2>5. CASE ~ Writes
    <3>1. waiting' = fifo
      BY <1>2, <1>3, <1>6, <2>3, <2>5
    <3>2. Len(waiting) > 1
      BY <1>1, <1>5, <2>2
    <3>3. Tail(waiting) = fifo /\ Head(waiting) = i_Tx_Byte
      BY <1>5
    <3>4. r_Tx_Data' = Head(waiting) /\ waiting' = Tail(waiting)
      <4> HIDE DEF waiting
      <4> QED
        BY <1>4, <1>6, <3>1, <3>3
    <3>5. Queue!Send
      BY <3>2, <3>4 DEF Queue!Send
    <3> QED
      BY <3>5
  <2> QED
    BY <2>4, <2>5
<1>7. CASE ~ Reads /\ Writes
  <2>1. waiting' = Append(waiting, o_Rx_Byte)
    BY <1>1, <1>2, <1>3, <1>5, <1>7
  <2>2. Len(waiting) <= CAPACITY
    BY <1>1, <1>5, <1>7 DEF Writes
  <2>3. Queue!Put(o_Rx_Byte)
    BY <2>1, <2>2 DEF Queue!Put
  <2>4. Queue!Enqueue
    BY <1>1, <1>4, <1>7, <2>3 DEF Queue!Enqueue
  <2> QED
    BY <2>4
<1>8. CASE ~ Reads /\ ~ Writes
  BY <1>2, <1>3, <1>4, <1>8
<1> QED
  BY <1>6, <1>7, <1>8

\* What is sent are the bytes received, each once, in order and one behind:
\* the echo test implements the queue (top.v:51-93), for every sequence of
\* bytes and times at which they come.
THEOREM EchoImplementsQueue == EchoSpec => EchoesInOrder
<1>1. EchoInit => Queue!Init
  <2> SUFFICES ASSUME EchoInit PROVE Queue!Init
    OBVIOUS
  <2>1. i_Tx_Byte \in Byte /\ r_Tx_Data \in Byte /\ fifo = << >>
    BY TxSendableAssumption DEF EchoInit, FrameInit, TxInit, Byte, Bit
  <2>2. <<i_Tx_Byte>> \in Seq(Byte) /\ <<i_Tx_Byte>> \o << >> = <<i_Tx_Byte>>
    BY <2>1, ConcatEmptySeq
  <2>3. <<i_Tx_Byte>> \in [1 .. 1 -> Byte]
    BY <2>1
  <2> QED
    BY <2>1, <2>2, <2>3 DEF Queue!Init
<1>2. EchoIndInv /\ [EchoNext]_echoVars => EchoIndInv'
  BY EchoStep, EchoStutter
<1>3. EchoIndInv /\ [EchoNext]_echoVars
      => [Queue!Enqueue \/ Queue!Send \/ Queue!SendEnqueue]_(<<<<i_Tx_Byte>> \o fifo, r_Tx_Data>>)
  <2>1. UNCHANGED echoVars => UNCHANGED <<<<i_Tx_Byte>> \o fifo, r_Tx_Data>>
    BY DEF echoVars, echoRegs, frameVars, vars, txRegs
  <2> QED
    BY <2>1, QueueStep
<1> QED
  BY EchoStart, <1>1, <1>2, <1>3, PTL DEF EchoSpec, EchoesInOrder, Queue!QueueSpec

\* The line carries nothing but complete frames when the requests are those
\* of the echo test (top.v:95-104), too.
THEOREM EchoWellFormed == EchoSpec => WellFormedFrames
<1>1. EchoInit => FrameInit
  BY DEF EchoInit, Bit
<1>2. EchoIndInv /\ [EchoNext]_echoVars => EchoIndInv'
  BY EchoStep, EchoStutter
<1>3. EchoIndInv /\ [EchoNext]_echoVars => [FrameNext]_frameVars
  <2>1. ASSUME EchoIndInv, EchoNext PROVE FrameNext
    <3>1. i_Tx_DV' \in Bit
      BY <2>1 DEF EchoNext, Expired, Counting, Bit
    <3>2. i_Tx_Byte' \in Sendable
      BY <2>1, FifoMoves DEF EchoIndInv, EchoNext
    <3> QED
      BY <2>1, <3>1, <3>2 DEF EchoNext, FrameNext, Next, Inputs
  <2>2. UNCHANGED echoVars => UNCHANGED frameVars
    BY DEF echoVars
  <2> QED
    BY <2>1, <2>2
<1>4. EchoSpec => FrameSpec
  BY EchoStart, <1>1, <1>2, <1>3, PTL DEF EchoSpec, FrameSpec
<1> QED
  BY <1>4, TxImplementsSender
=============================================================================
