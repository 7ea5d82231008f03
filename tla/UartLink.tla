------------------------------ MODULE UartLink ------------------------------
(***************************************************************************)
(* A transmitter with a clock of its own sends frames to the receiver of   *)
(* UartRX.v.  The receiver assumes CLKS_PER_BIT ticks per cell; the cells  *)
(* on the wire last anything from BIT_MIN to BIT_MAX ticks, each its own   *)
(* length.  impl1/source/top.v sets CLKS_PER_BIT to 87 (80 MHz / 8 /       *)
(* 115200) and then runs from an oscillator it says is at about 83 MHz,    *)
(* where a cell is 90.06 ticks; the margin is what makes that work.        *)
(*                                                                         *)
(* The transmitter is a terminal on the other side of the USB bridge: it   *)
(* is not in the repository, and what it sends is any sequence of bytes.   *)
(***************************************************************************)
EXTENDS UartRx

CONSTANTS BIT_MIN, BIT_MAX,  \* shortest and longest cell on the wire, in ticks
          Sendable           \* the bytes the terminal sends

VARIABLES txCell, txAge, txByte   \* the transmitter's state, as in FrameSender

INSTANCE FrameSender WITH line <- i_Rx_Serial

linkVars == <<vars, txVars>>

(***************************************************************************)
(* The clock mismatch the receiver tolerates.  It looks at cell k          *)
(* Mid + 1 + k * CLKS_PER_BIT ticks after it sees the start edge, which    *)
(* has to fall inside the cell; and it is back in idle after the last data *)
(* cell is over, having raised DV before the next start bit can begin (the *)
(* synchroniser's two ticks are in the last two bounds).                   *)
(***************************************************************************)
ASSUME CellAssumption == BIT_MIN \in Nat /\ BIT_MAX \in Nat /\ 3 <= BIT_MIN /\ BIT_MIN <= BIT_MAX
ASSUME ToleranceAssumption ==
  /\ \A k \in 0 .. DATA_BITS :
        /\ k * BIT_MAX <= Mid + 1 + k * CLKS_PER_BIT
        /\ Mid + 1 + k * CLKS_PER_BIT < (k + 1) * BIT_MIN
  /\ STOP * BIT_MAX <= Mid + 3 + STOP * CLKS_PER_BIT
  /\ Mid + 4 + STOP * CLKS_PER_BIT < (STOP + 1) * BIT_MIN
ASSUME SendableAssumption == Sendable \subseteq Byte

LinkInit == Init /\ SenderInit
LinkNext == RxClock /\ TxStep
LinkSpec == LinkInit /\ [][LinkNext]_linkVars

\* The clocks never stop; the subscript leaves the terminal free to send nothing.
LinkFairSpec == LinkSpec /\ WF_rxVars(LinkNext)

-----------------------------------------------------------------------------
RxBusy == r_SM_Main \in {"RX_START_BIT", "RX_DATA_BITS", "RX_STOP_BIT"}

(* A frame is in flight from the edge of its start bit until the receiver  *)
(* raises DV for it.                                                       *)
InFlight == txCell # STOP \/ RxBusy

Channel == INSTANCE ByteChannel
             WITH Value <- Byte, full <- InFlight, slot <- txByte, out <- o_Rx_Byte

(* Whatever the clock mismatch inside the tolerance, the link is the       *)
(* one-place channel: each frame is received, once, with the bits that     *)
(* were sent, before the next one starts.                                  *)
DeliversOnce  == Channel!ChSafety
DeliversEventually == Channel!ChSpec

(* The byte on the output when DV is high is the byte of the last frame.   *)
DVByteIsSent == r_Rx_DV = 1 => o_Rx_Byte = txByte

(***************************************************************************)
(* The inductive invariant behind them.  Elapsed is how long ago the start *)
(* edge of the frame was, by the receiver's counters; CellWindow says      *)
(* which cell the transmitter can be in by then; SyncInv what the two      *)
(* flip-flops hold, one and two ticks behind the line.                     *)
(***************************************************************************)
Elapsed ==
  CASE r_SM_Main = "RX_START_BIT" -> 3 + r_Clock_Count
    [] r_SM_Main = "RX_DATA_BITS" -> Mid + 4 + r_Bit_Index * CLKS_PER_BIT + r_Clock_Count
    [] r_SM_Main = "RX_STOP_BIT"  -> Mid + 4 + DATA_BITS * CLKS_PER_BIT + r_Clock_Count
    [] OTHER                      -> Mid + 4 + STOP * CLKS_PER_BIT

CellWindow ==
  /\ txCell * BIT_MIN + txAge <= Elapsed
  /\ \/ Elapsed <= txCell * BIT_MAX + txAge
     \/ txCell = STOP /\ txAge = BIT_MIN - 1

TxTypeOK ==
  /\ txCell \in 0 .. STOP
  /\ txAge \in 0 .. BIT_MAX - 1
  /\ txCell = STOP => txAge <= BIT_MIN - 1
  /\ txByte \in Byte

Before(cell) == IF cell = 0 THEN 1 ELSE Level(cell - 1, txByte)

SyncInv ==
  /\ i_Rx_Serial = Level(txCell, txByte)
  /\ r_Rx_Data_R = IF txAge >= 1 THEN Level(txCell, txByte) ELSE Before(txCell)
  /\ r_Rx_Data   = IF txAge >= 2 THEN Level(txCell, txByte) ELSE Before(txCell)

PhaseInv ==
  /\ r_SM_Main = "IDLE" => \/ txCell = STOP /\ txAge >= 2
                           \/ txCell = 0 /\ txAge <= 2
  /\ r_SM_Main # "IDLE" => CellWindow
  /\ r_SM_Main = "CLEANUP" => txCell = STOP /\ txAge >= 1

BitsInv ==
  /\ r_SM_Main = "RX_DATA_BITS" =>
        \A k \in 0 .. DATA_BITS - 1 : k < r_Bit_Index => r_Rx_Byte[k] = txByte[k]
  /\ r_SM_Main \in {"RX_STOP_BIT", "CLEANUP"} => r_Rx_Byte = txByte

(* The receiver's counters and the transmitter's cell never drift apart by *)
(* more than the clocks allow, and the bits taken so far are those sent.   *)
LinkInv ==
  /\ TypeOK
  /\ DVMeansByte
  /\ TxTypeOK
  /\ SyncInv
  /\ PhaseInv
  /\ BitsInv

(* The receiver is never fooled by a data bit: it takes a falling edge for *)
(* a start bit only if it is one, and it never rejects a real start bit.   *)
StartsAreReal ==
  [][/\ r_SM_Main = "IDLE" /\ r_SM_Main' = "RX_START_BIT" => txCell = 0
     /\ ~ StartRejected]_linkVars
=============================================================================
