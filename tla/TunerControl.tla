---------------------------- MODULE TunerControl ----------------------------
(***************************************************************************)
(* From the receiver to the tuner registers in the MachXO2 radio: the      *)
(* clock divider and edge detector at the top of UartRX.v and the always   *)
(* block at the end of impl1/source/top.v.  A step is one edge of osc_clk. *)
(* UartClk counts them; the receiver is clocked by its bit 2, so it runs   *)
(* after the assignments of every eighth edge (those where the count goes  *)
(* from 3 to 4), and everything clocked by osc_clk sees its new values one *)
(* edge later.  UartClk has 8 bits, of which only the low three matter.    *)
(***************************************************************************)
EXTENDS KeyTable

VARIABLES r_Rx_DV, o_Rx_Byte1,      \* the receiver's registers
          UartClk, r_Rx_DV_last,    \* UartRX.v, osc_clk domain
          o_Rx_DV1,                 \* its output o_Rx_DV
          o_Rx_DV, o_Rx_Byte,       \* top.v's registered copies
          CICGain, phase_inc_carrGen,
          phase_inc_carrGen1        \* what the oscillator uses

controlVars == <<r_Rx_DV, o_Rx_Byte1, UartClk, r_Rx_DV_last, o_Rx_DV1, o_Rx_DV, o_Rx_Byte,
                 CICGain, phase_inc_carrGen, phase_inc_carrGen1>>

Rx == INSTANCE RxPort WITH Value <- Keys

(* A key waits from the rise of the receiver's flag until top.v has used   *)
(* its own copy of it.                                                     *)
Pending == \/ r_Rx_DV = 1 /\ r_Rx_DV_last = 0
           \/ o_Rx_DV1 = 1
           \/ o_Rx_DV = 1

Commands == INSTANCE Tuner WITH waiting <- Pending, key <- o_Rx_Byte1

(* Registers without an initial value come up at 0 on this device.  The    *)
(* model does not rely on it for r_Rx_DV_last and the byte registers.      *)
ControlInit ==
  /\ Rx!PortInit
  /\ UartClk = 0
  /\ r_Rx_DV_last \in {0, 1}
  /\ o_Rx_DV1 = 0
  /\ o_Rx_DV = 0
  /\ o_Rx_Byte \in Keys
  /\ CICGain = 0
  /\ phase_inc_carrGen = 0
  /\ phase_inc_carrGen1 = 0

RxEdge ==   \* posedge UartClk[2]
  \/ UartClk = 3 /\ (Rx!Rise \/ Rx!Fall)
  \/ UNCHANGED <<r_Rx_DV, o_Rx_Byte1>>

UartOscLevel ==   \* mutant: passes the flag on without detecting its edge
  /\ UartClk' = (UartClk + 1) % 8
  /\ o_Rx_DV1' = r_Rx_DV
  /\ r_Rx_DV_last' = r_Rx_DV

UartOsc ==
  /\ UartClk' = (UartClk + 1) % 8
  /\ o_Rx_DV1' = IF r_Rx_DV = 1 /\ r_Rx_DV_last = 0 THEN 1 ELSE 0
  /\ r_Rx_DV_last' = r_Rx_DV

TopRegs ==
  /\ phase_inc_carrGen1' = phase_inc_carrGen
  /\ o_Rx_DV' = o_Rx_DV1
  /\ o_Rx_Byte' = o_Rx_Byte1

TopCommandEarly ==   \* mutant: acts on the flag a register too early
  IF o_Rx_DV1 = 1
    THEN /\ CICGain' = GainAfter(o_Rx_Byte, CICGain)
         /\ phase_inc_carrGen' = PhaseAfter(o_Rx_Byte, phase_inc_carrGen)
    ELSE UNCHANGED <<CICGain, phase_inc_carrGen>>

TopCommand ==
  IF o_Rx_DV = 1
    THEN /\ CICGain' = GainAfter(o_Rx_Byte, CICGain)
         /\ phase_inc_carrGen' = PhaseAfter(o_Rx_Byte, phase_inc_carrGen)
    ELSE UNCHANGED <<CICGain, phase_inc_carrGen>>

OscEdge == UartOsc /\ TopRegs /\ TopCommand /\ RxEdge

ControlSpec     == ControlInit /\ [][OscEdge]_controlVars
ControlFairSpec == ControlSpec /\ WF_controlVars(OscEdge)   \* the oscillator runs

-----------------------------------------------------------------------------
(* The registers keep their types: the gain stays one of the four the CIC  *)
(* shift is meant for, the phase increment a word.                         *)
ControlTypeOK ==
  /\ r_Rx_DV \in {0, 1} /\ o_Rx_Byte1 \in Keys
  /\ UartClk \in 0 .. 7 /\ r_Rx_DV_last \in {0, 1}
  /\ o_Rx_DV1 \in {0, 1} /\ o_Rx_DV \in {0, 1} /\ o_Rx_Byte \in Keys
  /\ CICGain \in 0 .. 3
  /\ phase_inc_carrGen \in Phase /\ phase_inc_carrGen1 \in Phase

(* At most one of the three stages of the crossing holds the key, at its   *)
(* own count of the divider, and top.v's copy of the byte is the           *)
(* receiver's when its copy of the flag is set.                            *)
CrossingInv ==
  /\ r_Rx_DV = 1 /\ r_Rx_DV_last = 0 => UartClk = 4 /\ o_Rx_DV1 = 0 /\ o_Rx_DV = 0
  /\ o_Rx_DV1 = 1 => UartClk = 5 /\ r_Rx_DV = 1 /\ o_Rx_DV = 0
  /\ o_Rx_DV = 1 => UartClk = 6 /\ r_Rx_DV = 1 /\ o_Rx_Byte = o_Rx_Byte1

(* Every key takes effect exactly once, in order and with the byte that    *)
(* was received, although the receiver's flag is high for eight edges of   *)
(* the clock that acts on it and crosses two registers on the way.         *)
EachKeyOnce == Commands!TunerSafety

(* And every key does take effect.                                         *)
KeysTakeEffect == Commands!TunerSpec
=============================================================================
