-------------------------- MODULE UartLink_proofs ---------------------------
(***************************************************************************)
(* The receiver keeps its types and drives a port on any line; a link      *)
(* delivers every byte, once; noise is not taken for one: for every        *)
(* CLKS_PER_BIT, DATA_BITS and cell lengths within ToleranceAssumption,    *)
(* glitches and gaps within NoiseAssumption.                               *)
(***************************************************************************)
EXTENDS UartLink, UartNoise, TLAPS

-----------------------------------------------------------------------------
(* The middle of a cell, as (CLKS_PER_BIT-1)/2 computes it, is inside it.  *)
LEMMA MidInCell == Mid \in 0 .. Last /\ Last \in 0 .. 65535 /\ 2 * Mid <= Last
  BY ClksAssumption DEF Mid, Last

(* Sampling a bit into the shift register gives a byte again.              *)
LEMMA SampleIsByte ==
  ASSUME NEW b \in Byte, NEW i \in 0 .. DATA_BITS - 1, NEW v \in Bit
  PROVE  [b EXCEPT ![i] = v] \in Byte
  BY DEF Byte

LEMMA Zeroes == 0 \in Bit /\ 1 \in Bit /\ 0 \in 0 .. Last /\ 0 \in 0 .. DATA_BITS - 1 /\ 0 <= Mid
  BY MidInCell, BitsAssumption DEF Bit

LEMMA WaitCounts ==
  ASSUME TypeOK, Wait
  PROVE  /\ r_Clock_Count' = r_Clock_Count + 1
         /\ r_Clock_Count' \in 0 .. Last
         /\ r_SM_Main = "RX_START_BIT" => r_Clock_Count' <= Mid
<1>1. r_Clock_Count < Last /\ r_Clock_Count \in 0 .. Last
  BY MidInCell DEF Wait, TypeOK
<1>2. r_Clock_Count' = r_Clock_Count + 1
  BY <1>1, MidInCell DEF Wait, Inc16
<1> QED
  BY <1>1, <1>2, MidInCell DEF Wait, TypeOK

(* One edge of the receiver's clock preserves the types, whatever the line *)
(* does.                                                                   *)
LEMMA RxClockType ==
  ASSUME TypeOK, RxClock, i_Rx_Serial' \in Bit
  PROVE  TypeOK'
<1> USE Zeroes DEF TypeOK, SMState
<1>1. r_Rx_Data_R' \in Bit /\ r_Rx_Data' \in Bit
  BY Zenon DEF RxClock, Sync
<1>2. CASE Idle
  BY <1>1, <1>2, Zenon DEF Idle
<1>3. CASE Wait
  BY <1>1, <1>3, WaitCounts, Zenon DEF Wait
<1>4. CASE StartConfirmed
  BY <1>1, <1>4, Zenon DEF StartConfirmed
<1>5. CASE StartRejected
  BY <1>1, <1>5, Zenon DEF StartRejected
<1>6. CASE Sample
  <2>1. r_Rx_Byte' \in Byte
    BY <1>6, SampleIsByte, Zenon DEF Sample
  <2>2. r_Bit_Index' \in 0 .. DATA_BITS - 1
    BY <1>6, BitsAssumption DEF Sample
  <2> QED
    BY <1>1, <1>6, <2>1, <2>2, Zenon DEF Sample
<1>7. CASE StopDone
  BY <1>1, <1>7, Zenon DEF StopDone
<1>8. CASE Cleanup
  BY <1>1, <1>8, Zenon DEF Cleanup
<1> QED
  BY <1>2, <1>3, <1>4, <1>5, <1>6, <1>7, <1>8, Zenon DEF RxClock, Fsm

LEMMA InitType == Init => TypeOK
  BY MidInCell, BitsAssumption DEF Init, RxInit, TypeOK, Bit, Byte, SMState

LEMMA NextType == TypeOK /\ [Next]_vars => TypeOK'
<1> SUFFICES ASSUME TypeOK, [Next]_vars PROVE TypeOK'
  OBVIOUS
<1>1. CASE Next
  BY <1>1, RxClockType DEF Next
<1>2. CASE UNCHANGED vars
  BY <1>2 DEF TypeOK, vars, rxVars, rxRegs
<1> QED
  BY <1>1, <1>2

(* The receiver's registers keep their types on any line: in particular    *)
(* the 16-bit cell counter of UartRX.v:97,108,137 never wraps and the      *)
(* index of UartRX.v:114 never leaves the byte.                            *)
THEOREM TypeCorrect == Spec => []TypeOK
  BY InitType, NextType, PTL DEF Spec

-----------------------------------------------------------------------------
LEMMA RxClockDV ==
  ASSUME TypeOK, DVMeansByte, RxClock
  PROVE  DVMeansByte'
<1> USE DEF DVMeansByte, TypeOK, SMState
<1>1. CASE Idle
  BY <1>1 DEF Idle
<1>2. CASE Wait
  BY <1>2 DEF Wait
<1>3. CASE StartConfirmed
  BY <1>3 DEF StartConfirmed
<1>4. CASE StartRejected
  BY <1>4 DEF StartRejected
<1>5. CASE Sample
  BY <1>5 DEF Sample
<1>6. CASE StopDone
  BY <1>6 DEF StopDone
<1>7. CASE Cleanup
  BY <1>7 DEF Cleanup
<1> QED
  BY <1>1, <1>2, <1>3, <1>4, <1>5, <1>6, <1>7 DEF RxClock, Fsm

(* DV is a one-tick pulse, and the byte is on the output when it is high   *)
(* (UartRX.v:7-8), on any line.                                            *)
THEOREM PulsePerByte == Spec => []DVMeansByte
<1>1. Init => DVMeansByte
  BY DEF Init, RxInit, DVMeansByte
<1>2. TypeOK /\ DVMeansByte /\ [Next]_vars => DVMeansByte'
  BY RxClockDV DEF Next, vars, rxVars, rxRegs, DVMeansByte
<1> QED
  BY <1>1, <1>2, TypeCorrect, PTL DEF Spec

-----------------------------------------------------------------------------
LEMMA PortStep ==
  ASSUME TypeOK, DVMeansByte, [Next]_vars
  PROVE  [Port!Rise \/ Port!Fall]_(Port!portVars)
<1> USE DEF DVMeansByte, Port!Rise, Port!Fall, Port!portVars
<1>1. CASE UNCHANGED vars
  BY <1>1 DEF vars, rxVars, rxRegs
<1>2. CASE Idle
  BY <1>2, Zenon DEF Idle, TypeOK, Bit
<1>3. CASE Wait \/ StartConfirmed \/ StartRejected \/ Sample
  BY <1>3, Zenon DEF Wait, StartConfirmed, StartRejected, Sample
<1>4. CASE StopDone
  BY <1>4 DEF StopDone, TypeOK, Bit
<1>5. CASE Cleanup
  BY <1>5, Zenon DEF Cleanup
<1> QED
  BY <1>1, <1>2, <1>3, <1>4, <1>5 DEF Next, RxClock, Fsm

(* The receiver is an RxPort (UartRX.v:142-143,154), whatever the line     *)
(* does: what TunerControl assumes of it.                                  *)
THEOREM ReceiverIsPort == Spec => IsRxPort
<1>1. Init => Port!PortInit
  BY DEF Init, RxInit, Port!PortInit
<1>2. TypeOK /\ DVMeansByte /\ [Next]_vars => [Port!Rise \/ Port!Fall]_(Port!portVars)
  BY PortStep
<1> QED
  BY <1>1, <1>2, TypeCorrect, PulsePerByte, PTL DEF Spec, IsRxPort, Port!PortSpec

-----------------------------------------------------------------------------
(* Arithmetic.  Cells and bit indices are small, cell lengths are any      *)
(* numbers: these three facts are all the multiplication the rest needs.   *)
LEMMA TimesStep == \A k, b \in Nat : (k + 1) * b = k * b + b
  OBVIOUS

LEMMA TimesNat == \A k, b \in Nat : k * b \in Nat
  OBVIOUS

LEMMA TimesMono == \A j, k, b \in Nat : j <= k => j * b <= k * b
<1> SUFFICES ASSUME NEW j \in Nat, NEW k \in Nat, NEW b \in Nat, j <= k
             PROVE  j * b <= k * b
  OBVIOUS
<1>1. PICK d \in Nat : k = j + d
  <2> WITNESS k - j \in Nat
  <2> QED OBVIOUS
<1>2. k * b = j * b + d * b
  BY <1>1
<1>3. d * b \in Nat /\ j * b \in Nat
  BY TimesNat
<1> QED
  BY <1>2, <1>3

LEMMA Constants ==
  /\ CLKS_PER_BIT \in Nat /\ DATA_BITS \in 1 .. 8
  /\ STOP = DATA_BITS + 1 /\ STOP \in Nat
  /\ Last = CLKS_PER_BIT - 1
  /\ Mid \in 0 .. Last
  /\ BIT_MIN \in Nat /\ BIT_MAX \in Nat /\ 3 <= BIT_MIN /\ BIT_MIN <= BIT_MAX
  BY ClksAssumption, BitsAssumption, CellAssumption, MidInCell DEF STOP, Last
-----------------------------------------------------------------------------
(* What the window says of the transmitter's cell at the moment the        *)
(* receiver samples: the line two ticks ago was in the cell it wants.      *)
LEMMA SampleSeesCell ==
  ASSUME TxTypeOK, SyncInv, CellWindow, NEW k \in 0 .. DATA_BITS,
         Elapsed = Mid + 3 + k * CLKS_PER_BIT
  PROVE  r_Rx_Data = Level(k, txByte)
<1> USE Constants DEF TxTypeOK
<1> DEFINE lo == txCell * BIT_MIN
           hi == txCell * BIT_MAX
           kc == k * CLKS_PER_BIT
<1>1. /\ lo \in Nat /\ hi \in Nat /\ kc \in Nat
      /\ k * BIT_MAX \in Nat /\ (k + 1) * BIT_MIN \in Nat
  BY TimesNat
<1>2. k * BIT_MAX <= Mid + 1 + kc /\ Mid + 1 + kc < (k + 1) * BIT_MIN
  BY ToleranceAssumption
<1>3. lo + txAge <= Mid + 3 + kc
  BY DEF CellWindow
<1>4. txCell <= k => Mid + 3 + kc <= hi + txAge
  BY DEF CellWindow
<1>5. CASE txAge >= 2
  <2>1. ~ (txCell > k)
    <3>1. txCell > k => lo >= (k + 1) * BIT_MIN
      BY TimesMono
    <3> HIDE DEF lo, hi, kc
    <3> QED BY <1>1, <1>2, <1>3, <1>5, <3>1
  <2>2. ~ (txCell < k)
    <3>1. txCell < k => hi + BIT_MAX <= k * BIT_MAX
      <4>1. txCell < k => (txCell + 1) * BIT_MAX <= k * BIT_MAX
        BY TimesMono
      <4> QED BY <4>1, TimesStep
    <3> HIDE DEF lo, hi, kc
    <3> QED BY <1>1, <1>2, <1>4, <3>1
  <2>3. txCell = k
    BY <2>1, <2>2
  <2> QED
    BY <1>5, <2>3 DEF SyncInv
<1>6. CASE txAge < 2
  <2>1. ~ (txCell > k + 1)
    <3>1. txCell > k + 1 => lo >= (k + 1) * BIT_MIN + BIT_MIN
      <4>1. txCell > k + 1 => lo >= (k + 1 + 1) * BIT_MIN
        BY TimesMono
      <4>2. (k + 1 + 1) * BIT_MIN = (k + 1) * BIT_MIN + BIT_MIN
        BY TimesStep
      <4> QED BY <4>1, <4>2
    <3> HIDE DEF lo, hi, kc
    <3> QED BY <1>1, <1>2, <1>3, <3>1
  <2>2. ~ (txCell <= k)
    <3>1. txCell <= k => hi <= k * BIT_MAX
      BY TimesMono
    <3> HIDE DEF lo, hi, kc
    <3> QED BY <1>1, <1>2, <1>4, <1>6, <3>1
  <2>3. txCell = k + 1
    BY <2>1, <2>2
  <2>4. r_Rx_Data = Before(k + 1)
    BY <1>6, <2>3 DEF SyncInv
  <2> QED
    BY <2>4 DEF Before
<1> QED
  BY <1>5, <1>6

(* While the receiver is busy the transmitter has not begun the next frame.*)
LEMMA BusyNoStart ==
  ASSUME TypeOK, TxTypeOK, CellWindow, RxBusy
  PROVE  ~ StartFrame
<1> USE Constants DEF TxTypeOK, TypeOK
<1>1. Elapsed <= Mid + 3 + STOP * CLKS_PER_BIT
  <2>1. /\ STOP * CLKS_PER_BIT = DATA_BITS * CLKS_PER_BIT + CLKS_PER_BIT
        /\ DATA_BITS * CLKS_PER_BIT \in Nat
    BY TimesStep, TimesNat
  <2>2. CASE r_SM_Main = "RX_START_BIT"
    BY <2>1, <2>2 DEF Elapsed
  <2>3. CASE r_SM_Main = "RX_STOP_BIT"
    BY <2>1, <2>3 DEF Elapsed
  <2>4. CASE r_SM_Main = "RX_DATA_BITS"
    <3>1. (r_Bit_Index + 1) * CLKS_PER_BIT <= DATA_BITS * CLKS_PER_BIT
      BY TimesMono
    <3>2. (r_Bit_Index + 1) * CLKS_PER_BIT = r_Bit_Index * CLKS_PER_BIT + CLKS_PER_BIT
      BY TimesStep
    <3>3. r_Bit_Index * CLKS_PER_BIT \in Nat
      BY TimesNat
    <3> QED
      BY <2>1, <2>4, <3>1, <3>2, <3>3 DEF Elapsed
  <2> QED
    BY <2>2, <2>3, <2>4 DEF RxBusy
<1>2. (STOP + 1) * BIT_MIN = STOP * BIT_MIN + BIT_MIN /\ STOP * BIT_MIN \in Nat
  BY TimesStep, TimesNat
<1>3. STOP * CLKS_PER_BIT \in Nat /\ Mid + 4 + STOP * CLKS_PER_BIT < (STOP + 1) * BIT_MIN
  BY TimesNat, ToleranceAssumption
<1>4. StartFrame => STOP * BIT_MIN + (BIT_MIN - 1) <= Elapsed
  BY DEF StartFrame, CellWindow
<1>5. Elapsed \in Int
  <2>1. r_Bit_Index * CLKS_PER_BIT \in Nat /\ DATA_BITS * CLKS_PER_BIT \in Nat
    BY TimesNat
  <2> QED
    BY <1>3, <2>1 DEF Elapsed
<1> QED
  BY <1>1, <1>2, <1>3, <1>4, <1>5
-----------------------------------------------------------------------------
LEMMA LevelBit ==
  ASSUME NEW c \in 0 .. STOP, NEW b \in Byte PROVE Level(c, b) \in Bit
<1>1. CASE c = 0 \/ c = STOP
  BY <1>1, Constants DEF Level, Bit
<1>2. CASE c # 0 /\ c # STOP
  <2>1. c - 1 \in 0 .. DATA_BITS - 1 /\ Level(c, b) = b[c - 1]
    BY <1>2, Constants DEF Level
  <2> QED
    BY <2>1 DEF Byte
<1> QED
  BY <1>1, <1>2

(* The transmitter keeps its types, and the line and the synchroniser keep *)
(* following it.                                                           *)
LEMMA TxStepInv ==
  ASSUME TxTypeOK, SyncInv, Sync, TxStep
  PROVE  TxTypeOK' /\ SyncInv' /\ i_Rx_Serial' \in Bit
<1> USE Constants
<1>1. TxTypeOK'
  <2>1. CASE KeepCell
    BY <2>1 DEF KeepCell, TxTypeOK
  <2>2. CASE NextCell
    BY <2>2 DEF NextCell, TxTypeOK
  <2>3. CASE StartFrame
    BY <2>3, SendableAssumption DEF StartFrame, TxTypeOK
  <2> QED
    BY <2>1, <2>2, <2>3 DEF TxStep
<1>2. SyncInv'
  <2>1. CASE KeepCell
    BY <2>1 DEF KeepCell, TxTypeOK, SyncInv, Sync, Before
  <2>2. CASE NextCell
    BY <2>2 DEF NextCell, TxTypeOK, SyncInv, Sync, Before
  <2>3. CASE StartFrame
    BY <2>3 DEF StartFrame, TxTypeOK, SyncInv, Sync, Before, Level
  <2> QED
    BY <2>1, <2>2, <2>3 DEF TxStep
<1>3. i_Rx_Serial' = Level(txCell', txByte') /\ txCell' \in 0 .. STOP /\ txByte' \in Byte
  BY <1>1, <1>2 DEF TxTypeOK, SyncInv
<1> QED
  BY <1>1, <1>2, <1>3, LevelBit

(* One tick moves the window on by one tick.                               *)
LEMMA WindowStep ==
  ASSUME TxTypeOK, CellWindow, KeepCell \/ NextCell,
         Elapsed \in Nat, Elapsed' = Elapsed + 1
  PROVE  CellWindow'
<1> USE Constants DEF TxTypeOK
<1>0. /\ txCell * BIT_MIN \in Nat /\ txCell * BIT_MAX \in Nat
      /\ (txCell + 1) * BIT_MIN = txCell * BIT_MIN + BIT_MIN
      /\ (txCell + 1) * BIT_MAX = txCell * BIT_MAX + BIT_MAX
  BY TimesNat, TimesStep
<1>1. CASE KeepCell
  BY <1>0, <1>1 DEF KeepCell, CellWindow
<1>2. CASE NextCell
  BY <1>0, <1>2 DEF NextCell, CellWindow
<1> QED
  BY <1>1, <1>2

(* Elapsed, state by state, now and after a step.                          *)
LEMMA ElapsedCases ==
  /\ r_SM_Main = "RX_START_BIT" => Elapsed = 3 + r_Clock_Count
  /\ r_SM_Main = "RX_DATA_BITS" =>
       Elapsed = Mid + 4 + r_Bit_Index * CLKS_PER_BIT + r_Clock_Count
  /\ r_SM_Main = "RX_STOP_BIT" =>
       Elapsed = Mid + 4 + DATA_BITS * CLKS_PER_BIT + r_Clock_Count
  /\ r_SM_Main = "CLEANUP" => Elapsed = Mid + 4 + STOP * CLKS_PER_BIT
  /\ r_SM_Main' = "RX_START_BIT" => Elapsed' = 3 + r_Clock_Count'
  /\ r_SM_Main' = "RX_DATA_BITS" =>
       Elapsed' = Mid + 4 + r_Bit_Index' * CLKS_PER_BIT + r_Clock_Count'
  /\ r_SM_Main' = "RX_STOP_BIT" =>
       Elapsed' = Mid + 4 + DATA_BITS * CLKS_PER_BIT + r_Clock_Count'
  /\ r_SM_Main' = "CLEANUP" => Elapsed' = Mid + 4 + STOP * CLKS_PER_BIT
  BY DEF Elapsed

(* One tick of a busy receiver that does not give up is one tick of        *)
(* Elapsed.                                                                *)
LEMMA ElapsedStep ==
  ASSUME TypeOK, RxBusy, RxClock, ~ StartRejected
  PROVE  Elapsed \in Nat /\ Elapsed' = Elapsed + 1 /\ r_SM_Main' # "IDLE"
<1> DEFINE ic == r_Bit_Index * CLKS_PER_BIT
           dc == DATA_BITS * CLKS_PER_BIT
           sc == STOP * CLKS_PER_BIT
<1>0. /\ ic \in Nat /\ dc \in Nat
      /\ (r_Bit_Index + 1) * CLKS_PER_BIT = ic + CLKS_PER_BIT
      /\ sc = dc + CLKS_PER_BIT
      /\ 0 * CLKS_PER_BIT = 0
  BY Constants, TimesNat, TimesStep DEF TypeOK
<1>1. r_Clock_Count \in Nat /\ r_Clock_Count <= Last
  BY Constants DEF TypeOK
<1>2. CASE r_SM_Main = "RX_START_BIT"
  <2>1. Elapsed = 3 + r_Clock_Count
    BY <1>2, ElapsedCases
  <2>2. CASE Wait
    <3>1. r_SM_Main' = "RX_START_BIT" /\ r_Clock_Count' = r_Clock_Count + 1
      <4>1. r_Clock_Count < Last
        BY <1>2, <2>2, Constants DEF Wait, TypeOK
      <4>2. r_Clock_Count' = Inc16(r_Clock_Count) /\ r_SM_Main' = r_SM_Main
        BY <2>2 DEF Wait
      <4>3. Inc16(r_Clock_Count) = r_Clock_Count + 1
        BY <1>1, <4>1, MidInCell DEF Inc16
      <4> QED
        BY <1>2, <4>2, <4>3
    <3> QED
      BY <1>1, <2>1, <3>1, ElapsedCases
  <2>3. CASE StartConfirmed
    <3>1. /\ r_SM_Main' = "RX_DATA_BITS" /\ r_Clock_Count' = 0 /\ r_Clock_Count = Mid
      BY <2>3 DEF StartConfirmed
    <3>2. r_Bit_Index' = 0
      BY <1>2, <2>3 DEF StartConfirmed, TypeOK
    <3> QED
      BY <1>0, <2>1, <3>1, <3>2, Constants, ElapsedCases
  <2> QED
    BY <1>2, <2>2, <2>3 DEF RxClock, Fsm, Idle, Sample, StopDone, Cleanup
<1>3. CASE r_SM_Main = "RX_DATA_BITS"
  <2>1. Elapsed = Mid + 4 + ic + r_Clock_Count
    BY <1>3, ElapsedCases
  <2>2. CASE Wait
    <3>1. /\ r_SM_Main' = "RX_DATA_BITS" /\ r_Clock_Count' = r_Clock_Count + 1
          /\ r_Bit_Index' = r_Bit_Index
      BY <1>1, <1>3, <2>2, MidInCell DEF Wait, Inc16
    <3> QED
      BY <1>0, <1>1, <2>1, <3>1, Constants, ElapsedCases
  <2>3. CASE Sample
    <3>1. r_Clock_Count = CLKS_PER_BIT - 1 /\ r_Clock_Count' = 0
      BY <1>1, <2>3, Constants DEF Sample
    <3>2. CASE r_Bit_Index < DATA_BITS - 1
      <4>1. r_SM_Main' = "RX_DATA_BITS" /\ r_Bit_Index' = r_Bit_Index + 1
        BY <1>3, <2>3, <3>2, Constants DEF Sample, TypeOK
      <4> QED
        BY <1>0, <1>1, <2>1, <3>1, <4>1, Constants, ElapsedCases
    <3>3. CASE r_Bit_Index = DATA_BITS - 1
      <4>1. r_SM_Main' = "RX_STOP_BIT"
        BY <2>3, <3>3, Constants DEF Sample
      <4>2. dc = ic + CLKS_PER_BIT
        BY <1>0, <3>3, Constants
      <4> QED
        BY <1>0, <1>1, <2>1, <3>1, <4>1, <4>2, Constants, ElapsedCases
    <3> QED
      BY <3>2, <3>3, Constants DEF TypeOK
  <2> QED
    BY <1>3, <2>2, <2>3 DEF RxClock, Fsm, Idle, StartConfirmed, StopDone, Cleanup
<1>4. CASE r_SM_Main = "RX_STOP_BIT"
  <2>1. Elapsed = Mid + 4 + dc + r_Clock_Count
    BY <1>4, ElapsedCases
  <2>2. CASE Wait
    <3>1. r_SM_Main' = "RX_STOP_BIT" /\ r_Clock_Count' = r_Clock_Count + 1
      BY <1>1, <1>4, <2>2, MidInCell DEF Wait, Inc16
    <3> QED
      BY <1>0, <1>1, <2>1, <3>1, Constants, ElapsedCases
  <2>3. CASE StopDone
    <3>1. r_SM_Main' = "CLEANUP" /\ r_Clock_Count = CLKS_PER_BIT - 1
      BY <1>1, <2>3, Constants DEF StopDone
    <3> QED
      BY <1>0, <1>1, <2>1, <3>1, Constants, ElapsedCases
  <2> QED
    BY <1>4, <2>2, <2>3 DEF RxClock, Fsm, Idle, StartConfirmed, Sample, Cleanup
<1> QED
  BY <1>2, <1>3, <1>4 DEF RxBusy
-----------------------------------------------------------------------------
(* Inside the tolerance a real start bit is always confirmed.              *)
LEMMA NoReject ==
  ASSUME TypeOK, TxTypeOK, SyncInv, PhaseInv
  PROVE  ~ StartRejected
<1> SUFFICES ASSUME StartRejected PROVE FALSE
  OBVIOUS
<1>1. r_SM_Main = "RX_START_BIT" /\ r_Clock_Count = Mid /\ r_Rx_Data = 1
  BY DEF StartRejected
<1>2. CellWindow
  BY <1>1 DEF PhaseInv
<1>3. Elapsed = Mid + 3 + 0 * CLKS_PER_BIT
  BY <1>1, Constants, ElapsedCases
<1>4. 0 \in 0 .. DATA_BITS
  BY Constants
<1>5. r_Rx_Data = Level(0, txByte)
  BY <1>2, <1>3, <1>4, SampleSeesCell
<1> QED
  BY <1>1, <1>5, Constants DEF Level

(* When a receiver at index i samples, the bit it takes is bit i.          *)
LEMMA SampleTakesBit ==
  ASSUME TypeOK, TxTypeOK, SyncInv, PhaseInv, Sample
  PROVE  r_Rx_Data = txByte[r_Bit_Index]
<1> DEFINE k == r_Bit_Index + 1
<1>1. r_SM_Main = "RX_DATA_BITS" /\ r_Clock_Count = CLKS_PER_BIT - 1
  BY Constants DEF Sample, TypeOK
<1>2. CellWindow
  BY <1>1 DEF PhaseInv
<1>3. k \in 0 .. DATA_BITS /\ r_Bit_Index \in 0 .. DATA_BITS - 1
  BY Constants DEF TypeOK
<1>4. k * CLKS_PER_BIT = r_Bit_Index * CLKS_PER_BIT + CLKS_PER_BIT
      /\ r_Bit_Index * CLKS_PER_BIT \in Nat
  BY <1>3, Constants, TimesStep, TimesNat
<1>5. Elapsed = Mid + 3 + k * CLKS_PER_BIT
  BY <1>1, <1>4, Constants, ElapsedCases
<1>6. r_Rx_Data = Level(k, txByte)
  <2> HIDE DEF k
  <2> QED BY <1>2, <1>3, <1>5, SampleSeesCell
<1>7. Level(k, txByte) = txByte[k - 1]
  BY <1>3, Constants DEF Level
<1> QED
  BY <1>3, <1>6, <1>7, Constants

(* When the stop bit is over for the receiver, the transmitter has been in *)
(* it for at least a tick.                                                 *)
LEMMA DVInStop ==
  ASSUME NEW c \in 0 .. STOP, NEW a \in 0 .. BIT_MAX - 1,
         \/ Mid + 4 + STOP * CLKS_PER_BIT <= c * BIT_MAX + a
         \/ c = STOP /\ a = BIT_MIN - 1
  PROVE  c = STOP /\ a >= 1
<1> USE Constants
<1>1. /\ STOP * CLKS_PER_BIT \in Nat /\ STOP * BIT_MAX \in Nat /\ c * BIT_MAX \in Nat
      /\ STOP * BIT_MAX <= Mid + 3 + STOP * CLKS_PER_BIT
  BY TimesNat, ToleranceAssumption
<1>2. c < STOP => c * BIT_MAX + BIT_MAX <= STOP * BIT_MAX
  <2>1. c < STOP => (c + 1) * BIT_MAX <= STOP * BIT_MAX
    BY TimesMono
  <2> QED
    BY <2>1, TimesStep
<1> QED
  BY <1>1, <1>2

-----------------------------------------------------------------------------
(* The phase relation between the two ends is kept by every tick.          *)
LEMMA PhaseStep ==
  ASSUME LinkInv, LinkNext
  PROVE  PhaseInv'
<1> TypeOK /\ TxTypeOK /\ SyncInv /\ PhaseInv
  BY DEF LinkInv
<1>0. TxTypeOK' /\ TxStep /\ RxClock
  <2>1. RxClock /\ Sync /\ TxStep
    BY DEF LinkNext, TxStep, RxClock
  <2> QED
    BY <2>1, TxStepInv
<1>1. CASE r_SM_Main = "IDLE"
  <2>1. Idle
    BY <1>0, <1>1 DEF RxClock, Fsm, Wait, StartConfirmed, StartRejected, Sample, StopDone, Cleanup
  <2>2. CASE txCell = STOP /\ txAge >= 2
    <3>1. r_SM_Main' = "IDLE"
      BY <2>1, <2>2, Constants DEF Idle, SyncInv, Level
    <3>2. (txCell' = STOP /\ txAge' >= 2) \/ (txCell' = 0 /\ txAge' = 0)
      BY <1>0, <2>2, Constants DEF TxStep, KeepCell, NextCell, StartFrame, TxTypeOK
    <3> QED
      BY <3>1, <3>2 DEF PhaseInv
  <2>3. CASE txCell = 0 /\ txAge < 2
    <3>1. r_SM_Main' = "IDLE"
      BY <2>1, <2>3, Constants DEF Idle, SyncInv, Before, TxTypeOK
    <3>2. txCell' = 0 /\ txAge' <= 2
      BY <1>0, <2>3, Constants DEF TxStep, KeepCell, NextCell, StartFrame, TxTypeOK
    <3> QED
      BY <3>1, <3>2 DEF PhaseInv
  <2>4. CASE txCell = 0 /\ txAge = 2
    <3>1. r_SM_Main' = "RX_START_BIT" /\ r_Clock_Count' = 0
      BY <2>1, <2>4, Constants DEF Idle, SyncInv, Level
    <3>2. Elapsed' = 3
      BY <3>1, ElapsedCases
    <3>3. (txCell' = 0 /\ txAge' = 3) \/ (txCell' = 1 /\ txAge' = 0 /\ BIT_MIN <= 3)
      BY <1>0, <2>4, Constants DEF TxStep, KeepCell, NextCell, StartFrame
    <3>4. CellWindow'
      BY <3>2, <3>3, Constants DEF CellWindow
    <3> QED
      BY <3>1, <3>4 DEF PhaseInv
  <2> QED
    BY <1>1, <2>2, <2>3, <2>4 DEF PhaseInv, TxTypeOK
<1>2. CASE RxBusy
  <2>1. CellWindow
    BY <1>2 DEF PhaseInv, RxBusy
  <2>2. Elapsed \in Nat /\ Elapsed' = Elapsed + 1 /\ r_SM_Main' # "IDLE"
    BY <1>0, <1>2, NoReject, ElapsedStep
  <2>3. KeepCell \/ NextCell
    BY <1>0, <1>2, <2>1, BusyNoStart DEF TxStep
  <2>4. CellWindow'
    BY <2>1, <2>2, <2>3, WindowStep
  <2>5. r_SM_Main' = "CLEANUP" => txCell' = STOP /\ txAge' >= 1
    <3>1. txCell' \in 0 .. STOP /\ txAge' \in 0 .. BIT_MAX - 1
      BY <1>0 DEF TxTypeOK
    <3>2. Elapsed' <= txCell' * BIT_MAX + txAge' \/ (txCell' = STOP /\ txAge' = BIT_MIN - 1)
      BY <2>4 DEF CellWindow
    <3> QED
      BY <3>1, <3>2, ElapsedCases, DVInStop
  <2> QED
    BY <2>2, <2>4, <2>5 DEF PhaseInv
<1>3. CASE r_SM_Main = "CLEANUP"
  <2>1. r_SM_Main' = "IDLE"
    BY <1>0, <1>3 DEF RxClock, Fsm, Idle, Wait, StartConfirmed, StartRejected, Sample, StopDone, Cleanup
  <2>2. txCell = STOP /\ txAge >= 1
    BY <1>3 DEF PhaseInv
  <2>3. (txCell' = STOP /\ txAge' >= 2) \/ (txCell' = 0 /\ txAge' = 0)
    BY <1>0, <2>2, Constants DEF TxStep, KeepCell, NextCell, StartFrame, TxTypeOK
  <2> QED
    BY <2>1, <2>3 DEF PhaseInv
<1> QED
  BY <1>1, <1>2, <1>3 DEF TypeOK, SMState, RxBusy
LEMMA ByteEq ==
  ASSUME NEW a \in Byte, NEW b \in Byte, \A k \in 0 .. DATA_BITS - 1 : a[k] = b[k]
  PROVE  a = b
<1> DEFINE D == 0 .. DATA_BITS - 1
<1>1. a = [k \in D |-> a[k]] /\ b = [k \in D |-> b[k]]
  BY DEF Byte
<1>2. [k \in D |-> a[k]] = [k \in D |-> b[k]]
  OBVIOUS
<1> QED
  BY <1>1, <1>2, Zenon

(* The bits received so far stay those of the frame on the wire.           *)
LEMMA BitsStep ==
  ASSUME LinkInv, LinkNext
  PROVE  BitsInv'
<1>0. TypeOK /\ TxTypeOK /\ SyncInv /\ PhaseInv /\ BitsInv
  BY DEF LinkInv
<1>1. RxClock /\ TxStep
  BY DEF LinkNext, TxStep
<1>2. RxBusy => txByte' = txByte
  <2> SUFFICES ASSUME RxBusy PROVE txByte' = txByte
    OBVIOUS
  <2>1. CellWindow
    BY <1>0 DEF PhaseInv, RxBusy
  <2>2. ~ StartFrame
    BY <1>0, <2>1, BusyNoStart
  <2> QED
    BY <1>1, <2>2 DEF TxStep, KeepCell, NextCell
<1>3. CASE Idle
  BY <1>3 DEF Idle, BitsInv
<1>4. CASE Wait
  BY <1>0, <1>2, <1>4 DEF Wait, BitsInv, RxBusy
<1>5. CASE StartConfirmed
  <2>1. r_SM_Main' = "RX_DATA_BITS" /\ r_Bit_Index' = 0
    BY <1>0, <1>5 DEF StartConfirmed, TypeOK
  <2> QED
    BY <2>1, Constants DEF BitsInv
<1>6. CASE StartRejected
  BY <1>6 DEF StartRejected, BitsInv
<1>7. CASE Sample
  <2>1. /\ r_SM_Main = "RX_DATA_BITS" /\ txByte' = txByte
        /\ r_Rx_Byte' = [r_Rx_Byte EXCEPT ![r_Bit_Index] = r_Rx_Data]
    BY <1>2, <1>7 DEF Sample, RxBusy
  <2>2. r_Rx_Data = txByte[r_Bit_Index]
    BY <1>0, <1>7, SampleTakesBit
  <2>3. r_Bit_Index \in 0 .. DATA_BITS - 1 /\ r_Rx_Byte \in Byte /\ txByte \in Byte
    BY <1>0 DEF TypeOK, TxTypeOK
  <2>4. \A k \in 0 .. DATA_BITS - 1 : k < r_Bit_Index + 1 => r_Rx_Byte'[k] = txByte[k]
    <3> TAKE k \in 0 .. DATA_BITS - 1
    <3> HAVE k < r_Bit_Index + 1
    <3>1. CASE k = r_Bit_Index
      BY <2>1, <2>2, <2>3, <3>1 DEF Byte
    <3>2. CASE k < r_Bit_Index
      <4>1. r_Rx_Byte[k] = txByte[k]
        BY <1>0, <2>1, <3>2 DEF BitsInv
      <4> QED
        BY <2>1, <2>3, <3>2, <4>1, Constants DEF Byte
    <3> QED
      BY <2>3, <3>1, <3>2, Constants
  <2>5. CASE r_Bit_Index < DATA_BITS - 1
    <3>1. r_SM_Main' = "RX_DATA_BITS" /\ r_Bit_Index' = r_Bit_Index + 1
      BY <1>7, <2>1, <2>3, <2>5, Constants DEF Sample
    <3> QED
      BY <2>1, <2>4, <3>1 DEF BitsInv
  <2>6. CASE r_Bit_Index = DATA_BITS - 1
    <3>1. r_SM_Main' = "RX_STOP_BIT"
      BY <1>7, <2>6, Constants DEF Sample
    <3>2. r_Rx_Byte' \in Byte
      BY <1>0, RxClockType, <1>1, TxStepInv DEF RxClock, TypeOK
    <3>3. \A k \in 0 .. DATA_BITS - 1 : r_Rx_Byte'[k] = txByte[k]
      BY <2>4, <2>6, Constants
    <3>4. r_Rx_Byte' = txByte
      BY <2>3, <3>2, <3>3, ByteEq
    <3> QED
      BY <2>1, <3>1, <3>4 DEF BitsInv
  <2> QED
    BY <2>3, <2>5, <2>6, Constants
<1>8. CASE StopDone
  BY <1>0, <1>2, <1>8 DEF StopDone, BitsInv, RxBusy
<1>9. CASE Cleanup
  BY <1>9 DEF Cleanup, BitsInv
<1> QED
  BY <1>1, <1>3, <1>4, <1>5, <1>6, <1>7, <1>8, <1>9 DEF RxClock, Fsm

LEMMA LinkStep == LinkInv /\ LinkNext => LinkInv'
<1> SUFFICES ASSUME LinkInv, LinkNext PROVE LinkInv'
  OBVIOUS
<1>0. TypeOK /\ DVMeansByte /\ TxTypeOK /\ SyncInv
  BY DEF LinkInv
<1>1. RxClock /\ Sync /\ TxStep
  BY DEF LinkNext, TxStep, RxClock
<1>2. TxTypeOK' /\ SyncInv' /\ i_Rx_Serial' \in Bit
  BY <1>0, <1>1, TxStepInv
<1>3. TypeOK' /\ DVMeansByte'
  BY <1>0, <1>1, <1>2, RxClockType, RxClockDV
<1>4. PhaseInv' /\ BitsInv'
  BY PhaseStep, BitsStep
<1> QED
  BY <1>2, <1>3, <1>4 DEF LinkInv

LEMMA LinkStart == LinkInit => LinkInv
<1> SUFFICES ASSUME LinkInit PROVE LinkInv
  OBVIOUS
<1>1. TypeOK /\ DVMeansByte
  BY InitType DEF LinkInit, SenderInit, Init, RxInit, DVMeansByte
<1>2. TxTypeOK
  BY Constants, SendableAssumption DEF LinkInit, SenderInit, TxTypeOK
<1>3. SyncInv
  BY Constants DEF LinkInit, SenderInit, Init, RxInit, SyncInv, Level, Before
<1>4. PhaseInv /\ BitsInv
  BY Constants DEF LinkInit, SenderInit, Init, RxInit, PhaseInv, BitsInv
<1> QED
  BY <1>1, <1>2, <1>3, <1>4 DEF LinkInv

LEMMA LinkStutter == LinkInv /\ UNCHANGED linkVars => LinkInv'
<1> SUFFICES ASSUME LinkInv, UNCHANGED linkVars PROVE LinkInv'
  OBVIOUS
<1> USE DEF LinkInv, linkVars, vars, txVars, rxVars, rxRegs
<1>1. TypeOK' /\ DVMeansByte'
  BY DEF TypeOK, DVMeansByte
<1>2. TxTypeOK' /\ SyncInv'
  BY DEF TxTypeOK, SyncInv, Before
<1>3. PhaseInv'
  BY DEF PhaseInv, CellWindow, Elapsed
<1>4. BitsInv'
  BY DEF BitsInv
<1> QED
  BY <1>1, <1>2, <1>3, <1>4

(* The receiver's counters and the transmitter's cells stay in step: the   *)
(* inductive invariant of the link, for every clock mismatch within the    *)
(* tolerance.                                                              *)
THEOREM LinkInvariant == LinkSpec => []LinkInv
<1>1. LinkInv /\ [LinkNext]_linkVars => LinkInv'
  BY LinkStep, LinkStutter
<1> QED
  BY <1>1, LinkStart, PTL DEF LinkSpec
(* The byte at DV is the byte that was sent, with any clocks the tolerance *)
(* allows.                                                                 *)
THEOREM DVByteCorrect == LinkSpec => []DVByteIsSent
<1>1. LinkInv => DVByteIsSent
  BY DEF LinkInv, DVMeansByte, BitsInv, DVByteIsSent
<1> QED
  BY <1>1, LinkInvariant, PTL

(* No data bit is ever taken for a start bit, no start bit is ever missed  *)
(* by the check in its middle.                                             *)
THEOREM NoFalseStart == LinkSpec => StartsAreReal
<1> DEFINE Real == /\ r_SM_Main = "IDLE" /\ r_SM_Main' = "RX_START_BIT" => txCell = 0
                   /\ ~ StartRejected
<1>1. LinkInv /\ LinkNext => Real
  <2> SUFFICES ASSUME LinkInv, LinkNext PROVE Real
    OBVIOUS
  <2>1. ~ StartRejected
    BY NoReject DEF LinkInv
  <2>2. ASSUME r_SM_Main = "IDLE", r_SM_Main' = "RX_START_BIT" PROVE txCell = 0
    <3>1. r_Rx_Data = 0
      BY <2>2 DEF LinkNext, RxClock, Fsm, Idle, Wait, StartConfirmed, StartRejected,
                  Sample, StopDone, Cleanup
    <3>2. txCell # STOP \/ txAge < 2
      BY <3>1, Constants DEF LinkInv, SyncInv, TxTypeOK, Level
    <3> QED
      BY <2>2, <3>2, Constants DEF LinkInv, PhaseInv, TxTypeOK
  <2> QED
    BY <2>1, <2>2
<1>2. LinkInv /\ [LinkNext]_linkVars => [Real]_linkVars
  BY <1>1
<1> QED
  BY <1>2, LinkInvariant, PTL DEF LinkSpec, StartsAreReal

-----------------------------------------------------------------------------
(* A step of the link is a send, a delivery or nothing, in the channel.    *)
LEMMA ChannelStep ==
  LinkInv /\ [LinkNext]_linkVars => [Channel!ChNext]_(Channel!chVars)
<1> SUFFICES ASSUME LinkInv, [LinkNext]_linkVars
             PROVE  [Channel!ChNext]_(Channel!chVars)
  OBVIOUS
<1> USE DEF Channel!ChNext, Channel!chVars, Channel!Send, Channel!Deliver
<1>0. TypeOK /\ TxTypeOK /\ SyncInv /\ PhaseInv /\ BitsInv
  BY DEF LinkInv
<1>1. CASE UNCHANGED linkVars
  BY <1>1 DEF linkVars, vars, rxVars, rxRegs, txVars, InFlight, RxBusy
<1>2. CASE LinkNext
  <2>0. RxClock /\ TxStep /\ LinkInv'
    BY <1>2, LinkStep DEF LinkNext, TxStep
  <2>1. CASE StartFrame
    <3>1. ~ RxBusy
      BY <1>0, <2>1, BusyNoStart DEF PhaseInv, RxBusy
    <3>2. InFlight = FALSE /\ InFlight' = TRUE /\ txByte' \in Byte
      BY <2>0, <2>1, <3>1, Constants DEF StartFrame, InFlight, LinkInv, TxTypeOK
    <3>3. o_Rx_Byte' = o_Rx_Byte
      BY <2>0, <3>1 DEF RxClock, Fsm, Idle, Wait, StartConfirmed, StartRejected,
                        Sample, StopDone, Cleanup, RxBusy
    <3> QED
      BY <3>2, <3>3
  <2>2. CASE StopDone
    <3>1. RxBusy /\ r_SM_Main' = "CLEANUP" /\ o_Rx_Byte' = txByte
      BY <1>0, <2>2 DEF StopDone, RxBusy, BitsInv
    <3>2. txByte' = txByte
      BY <1>0, <2>0, <3>1, BusyNoStart DEF PhaseInv, RxBusy, TxStep, KeepCell, NextCell
    <3>3. InFlight = TRUE /\ InFlight' = FALSE
      BY <2>0, <3>1 DEF InFlight, RxBusy, LinkInv, PhaseInv
    <3> QED
      BY <3>1, <3>2, <3>3
  <2>3. CASE ~ StartFrame /\ ~ StopDone
    <3>1. txByte' = txByte
      BY <2>0, <2>3 DEF TxStep, KeepCell, NextCell
    <3>2. o_Rx_Byte' = o_Rx_Byte
      BY <2>0, <2>3 DEF RxClock, Fsm, Idle, Wait, StartConfirmed, StartRejected,
                        Sample, Cleanup
    <3>3. InFlight' = InFlight
      <4>1. CASE r_SM_Main = "IDLE" /\ txCell = STOP /\ txAge >= 2
        <5>1. txCell' = STOP
          BY <2>0, <2>3, <4>1 DEF TxStep, KeepCell, NextCell
        <5>2. r_SM_Main' = "IDLE"
          BY <1>0, <2>0, <4>1, Constants DEF RxClock, Fsm, Idle, Wait, StartConfirmed,
             StartRejected, Sample, StopDone, Cleanup, SyncInv, Level
        <5> QED
          BY <4>1, <5>1, <5>2 DEF InFlight, RxBusy
      <4>2. CASE r_SM_Main = "IDLE" /\ txCell = 0 /\ txAge <= 2
        <5>1. txCell' # STOP
          BY <2>0, <2>3, <4>2, Constants DEF TxStep, KeepCell, NextCell
        <5> QED
          BY <4>2, <5>1, Constants DEF InFlight
      <4>3. CASE RxBusy
        <5>1. RxBusy'
          BY <1>0, <2>0, <2>3, <4>3, NoReject DEF RxClock, Fsm, Idle, Wait, StartConfirmed,
             Sample, Cleanup, RxBusy
        <5> QED
          BY <4>3, <5>1 DEF InFlight
      <4>4. CASE r_SM_Main = "CLEANUP"
        <5>1. txCell = STOP /\ r_SM_Main' = "IDLE"
          BY <1>0, <2>0, <4>4 DEF PhaseInv, RxClock, Fsm, Idle, Wait, StartConfirmed,
             StartRejected, Sample, StopDone, Cleanup
        <5>2. txCell' = STOP
          BY <2>0, <2>3, <5>1 DEF TxStep, KeepCell, NextCell
        <5> QED
          BY <4>4, <5>1, <5>2 DEF InFlight, RxBusy
      <4> QED
        BY <1>0, <4>1, <4>2, <4>3, <4>4 DEF TypeOK, SMState, RxBusy, PhaseInv
    <3> QED
      BY <3>1, <3>2, <3>3
  <2> QED
    BY <2>1, <2>2, <2>3
<1> QED
  BY <1>1, <1>2

(* The link implements the one-place channel: every frame is received,     *)
(* once, unchanged, before the next one starts (UartRX.v:5-8), for every   *)
(* CLKS_PER_BIT, DATA_BITS and jitter within the tolerance.                *)
THEOREM LinkImplementsChannel == LinkSpec => DeliversOnce
<1>1. LinkInit => Channel!ChInit
  <2> SUFFICES ASSUME LinkInit PROVE Channel!ChInit
    OBVIOUS
  <2>1. InFlight = FALSE
    BY DEF LinkInit, SenderInit, Init, RxInit, InFlight, RxBusy
  <2>2. txByte \in Byte /\ o_Rx_Byte \in Byte
    BY SendableAssumption DEF LinkInit, SenderInit, Init, RxInit
  <2> QED
    BY <2>1, <2>2 DEF Channel!ChInit
<1> QED
  BY <1>1, ChannelStep, LinkInvariant, PTL DEF LinkSpec, DeliversOnce, Channel!ChSafety

-----------------------------------------------------------------------------
(* Noise.                                                                  *)
\* What the synchroniser holds are the two levels before: at most one glitch
\* or one gap is among the three, unless gaps of a tick are allowed.
LevelsSeen ==
  /\ i_Rx_Serial = 0 =>
       /\ levelAge <= GLITCH_MAX
       /\ r_Rx_Data_R = 0 <=> levelAge >= 2
       /\ r_Rx_Data_R = 0 => (r_Rx_Data = 0 <=> levelAge >= 3)
       /\ r_Rx_Data_R = 1 /\ r_Rx_Data = 0 => GAP_MIN = 1
  /\ i_Rx_Serial = 1 =>
       /\ r_Rx_Data_R = 0 => levelAge = 1 /\ (r_Rx_Data = 0 => GLITCH_MAX >= 2)
       /\ r_Rx_Data_R = 1 => levelAge >= 2 \/ levelAge = GAP_MIN
       /\ r_Rx_Data_R = 1 /\ r_Rx_Data = 0 => levelAge <= 2

\* A glitch that has got the receiver out of idle: while it lasts it is at
\* least as long as the count, and so too short to last until Mid; once it is
\* over the next one is too far away to be there by then.
Suspect ==
  /\ r_Rx_Data = 0 =>
       IF r_Rx_Data_R = 1 THEN i_Rx_Serial = 1 /\ r_Clock_Count + 2 <= GLITCH_MAX
       ELSE IF i_Rx_Serial = 1 THEN r_Clock_Count + 3 <= GLITCH_MAX
       ELSE r_Clock_Count + 4 <= levelAge
  /\ r_Rx_Data = 1 =>
       IF r_Rx_Data_R = 0 THEN r_Clock_Count >= Mid
       ELSE IF i_Rx_Serial = 0 THEN r_Clock_Count + 1 >= Mid
       ELSE levelAge <= r_Clock_Count + 3

NoiseInv ==
  onlyNoise =>
    /\ levelAge \in 1 .. GAP_MIN
    /\ LevelsSeen
    /\ r_SM_Main \in {"IDLE", "RX_START_BIT"} /\ r_Rx_DV = 0
    /\ r_SM_Main = "RX_START_BIT" => Suspect

NoiseIndInv == TypeOK /\ onlyNoise \in BOOLEAN /\ NoiseInv

LEMMA NoiseConstants ==
  /\ Mid \in Nat /\ GLITCH_MAX \in Nat /\ GAP_MIN \in Nat
  /\ 1 <= GLITCH_MAX /\ GLITCH_MAX <= Mid + 1 /\ Mid + 1 <= GAP_MIN
  BY MidInCell, NoiseAssumption DEF Last

\* A tick of noise and what the synchroniser then holds.
LEMMA NoiseTick ==
  ASSUME NoiseIndInv, onlyNoise = TRUE, onlyNoise' = TRUE, Sync, Noise, i_Rx_Serial' \in Bit
  PROVE  /\ levelAge \in 1 .. GAP_MIN /\ levelAge' \in 1 .. GAP_MIN
         /\ i_Rx_Serial \in {0, 1} /\ r_Rx_Data_R \in {0, 1} /\ r_Rx_Data \in {0, 1}
         /\ i_Rx_Serial' \in {0, 1}
         /\ r_Rx_Data_R' = i_Rx_Serial /\ r_Rx_Data' = r_Rx_Data_R
         /\ levelAge' = IF i_Rx_Serial' # i_Rx_Serial THEN 1
                        ELSE IF levelAge < GAP_MIN THEN levelAge + 1 ELSE levelAge
         /\ i_Rx_Serial = 0 /\ i_Rx_Serial' = 0 => levelAge < GLITCH_MAX
         /\ i_Rx_Serial = 1 /\ i_Rx_Serial' = 0 => levelAge = GAP_MIN
<1>1. /\ levelAge \in 1 .. GAP_MIN /\ i_Rx_Serial \in {0, 1} /\ r_Rx_Data_R \in {0, 1}
      /\ r_Rx_Data \in {0, 1} /\ LevelsSeen
  BY DEF NoiseIndInv, NoiseInv, TypeOK, Bit
<1>2. r_Rx_Data_R' = i_Rx_Serial /\ r_Rx_Data' = r_Rx_Data_R /\ i_Rx_Serial' \in {0, 1}
  BY DEF Sync, Bit
<1>3. ~ TooLong /\ ~ TooClose
  BY DEF Noise
<1>4. levelAge' = IF i_Rx_Serial' # i_Rx_Serial THEN 1
                  ELSE IF levelAge < GAP_MIN THEN levelAge + 1 ELSE levelAge
  BY DEF Noise
<1>5. levelAge' \in 1 .. GAP_MIN
  BY <1>1, <1>4, NoiseConstants
<1>6. i_Rx_Serial = 0 /\ i_Rx_Serial' = 0 => levelAge < GLITCH_MAX
  BY <1>1, <1>3, NoiseConstants DEF TooLong, LevelsSeen
<1>7. i_Rx_Serial = 1 /\ i_Rx_Serial' = 0 => levelAge = GAP_MIN
  BY <1>1, <1>3, NoiseConstants DEF TooClose
<1> QED
  BY <1>1, <1>2, <1>4, <1>5, <1>6, <1>7

LEMMA LevelsStep ==
  ASSUME NoiseIndInv, onlyNoise = TRUE, onlyNoise' = TRUE, Sync, Noise, i_Rx_Serial' \in Bit
  PROVE  LevelsSeen'
<1>1. LevelsSeen
  BY DEF NoiseIndInv, NoiseInv
<1> QED
  BY <1>1, NoiseTick, NoiseConstants DEF LevelsSeen

\* The glitch that gets the receiver out of idle, and one it goes on with.
LEMMA SuspectBegins ==
  ASSUME NoiseIndInv, onlyNoise = TRUE, onlyNoise' = TRUE, Sync, Noise, i_Rx_Serial' \in Bit,
         r_Rx_Data = 0, r_Clock_Count' = 0
  PROVE  Suspect'
<1>1. LevelsSeen
  BY DEF NoiseIndInv, NoiseInv
<1> QED
  BY <1>1, NoiseTick, NoiseConstants DEF LevelsSeen, Suspect

LEMMA SuspectGoesOn ==
  ASSUME NoiseIndInv, onlyNoise = TRUE, onlyNoise' = TRUE, Sync, Noise, i_Rx_Serial' \in Bit,
         Suspect, r_Clock_Count \in 0 .. Mid, r_Clock_Count # Mid,
         r_Clock_Count' = r_Clock_Count + 1
  PROVE  Suspect'
<1>1. LevelsSeen
  BY DEF NoiseIndInv, NoiseInv
<1> QED
  BY <1>1, NoiseTick, NoiseConstants DEF LevelsSeen, Suspect

\* It is over when the receiver looks again.
LEMMA SuspectEnds ==
  ASSUME NoiseIndInv, onlyNoise = TRUE, Suspect, r_Clock_Count = Mid
  PROVE  r_Rx_Data # 0
<1>1. /\ levelAge \in 1 .. GAP_MIN /\ i_Rx_Serial \in {0, 1} /\ r_Rx_Data_R \in {0, 1}
      /\ r_Rx_Data \in {0, 1} /\ LevelsSeen
  BY DEF NoiseIndInv, NoiseInv, TypeOK, Bit
<1> QED
  BY <1>1, NoiseConstants DEF LevelsSeen, Suspect

LEMMA NoiseStep ==
  ASSUME NoiseIndInv, NoiseNext
  PROVE  NoiseIndInv'
<1>1. TypeOK /\ RxClock /\ Sync /\ Noise /\ i_Rx_Serial' \in Bit
  BY DEF NoiseNext, Next, RxClock, NoiseIndInv
<1>2. TypeOK' /\ onlyNoise' \in BOOLEAN
  BY <1>1, RxClockType DEF Noise
<1>3. ASSUME onlyNoise' PROVE NoiseInv'
  <2>1. onlyNoise = TRUE /\ onlyNoise' = TRUE
    BY <1>1, <1>2, <1>3 DEF Noise, NoiseIndInv
  <2>2. levelAge' \in 1 .. GAP_MIN
    BY <1>1, <2>1, NoiseTick
  <2>3. LevelsSeen'
    BY <1>1, <2>1, LevelsStep
  <2>4. /\ r_SM_Main \in {"IDLE", "RX_START_BIT"} /\ r_Rx_DV = 0
        /\ r_SM_Main = "RX_START_BIT" => Suspect /\ r_Clock_Count \in 0 .. Mid
    BY <2>1, MidInCell DEF NoiseIndInv, NoiseInv, TypeOK
  <2>5. CASE Idle
    BY <1>1, <2>1, <2>2, <2>3, <2>4, <2>5, SuspectBegins DEF Idle, NoiseInv
  <2>6. CASE Wait
    <3>1. r_SM_Main = "RX_START_BIT" /\ r_Clock_Count # Mid
      BY <2>4, <2>6 DEF Wait
    <3>2. r_Clock_Count' = r_Clock_Count + 1
      BY <1>1, <2>6, WaitCounts
    <3>3. Suspect'
      BY <1>1, <2>1, <2>4, <3>1, <3>2, SuspectGoesOn
    <3> QED
      BY <2>2, <2>3, <2>4, <2>6, <3>3 DEF Wait, NoiseInv
  <2>7. CASE StartConfirmed
    BY <2>1, <2>4, <2>7, SuspectEnds DEF StartConfirmed
  <2>8. CASE StartRejected
    BY <2>2, <2>3, <2>4, <2>8 DEF StartRejected, NoiseInv
  <2>9. ~ Sample /\ ~ StopDone /\ ~ Cleanup
    BY <2>4 DEF Sample, StopDone, Cleanup
  <2> QED
    BY <1>1, <2>5, <2>6, <2>7, <2>8, <2>9 DEF RxClock, Fsm
<1>4. NoiseInv'
  BY <1>3 DEF NoiseInv
<1> QED
  BY <1>2, <1>4 DEF NoiseIndInv

\* Noise is never taken for a frame: low glitches that last no longer than
\* from the start edge to the middle of the start bit, and are as far apart,
\* do not get the receiver past its second look at the line
\* (UartRX.v:83-99), for every length of a cell.
THEOREM NoiseRejected == NoiseSpec => []GlitchesRejected
<1>1. NoiseInit => NoiseIndInv
  <2> SUFFICES ASSUME NoiseInit PROVE NoiseIndInv
    OBVIOUS
  <2>1. TypeOK
    BY InitType DEF NoiseInit
  <2>2. LevelsSeen
    BY NoiseConstants DEF NoiseInit, Init, RxInit, LevelsSeen
  <2> QED
    BY <2>1, <2>2, NoiseConstants DEF NoiseInit, Init, RxInit, NoiseIndInv, NoiseInv
<1>2. NoiseIndInv /\ [NoiseNext]_noiseVars => NoiseIndInv'
  <2>1. NoiseIndInv /\ UNCHANGED noiseVars => NoiseIndInv'
    BY DEF noiseVars, vars, rxVars, rxRegs, NoiseIndInv, NoiseInv, LevelsSeen, Suspect, TypeOK
  <2> QED
    BY <2>1, NoiseStep
<1>3. NoiseIndInv => GlitchesRejected
  BY DEF NoiseIndInv, NoiseInv, GlitchesRejected
<1> QED
  BY <1>1, <1>2, <1>3, PTL DEF NoiseSpec
=============================================================================
