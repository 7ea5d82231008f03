------------------------------ MODULE Ps2Link -------------------------------
(***************************************************************************)
(* A keyboard sends frames to the PS/2 receiver.  The keyboard drives the  *)
(* clock; it changes the data at least HOLD system clocks after the clock  *)
(* rises and at least SETUP before it falls, and the clock is low for at   *)
(* least LOW.  All three phases may last longer.                           *)
(*                                                                         *)
(* The receiver has no timeout and does not resynchronise, so the model    *)
(* starts with the keyboard idle and every frame is completed.             *)
(***************************************************************************)
EXTENDS Ps2Receive, FiniteSets

CONSTANTS HOLD, SETUP, LOW,
          GAP,         \* from the last rise of the clock to the next frame
          ScanCodes

ASSUME ScanCodesAssumption == ScanCodes \subseteq ScanCode

(***************************************************************************)
(* What the debouncers need: a clock level must be long enough to be       *)
(* shown, and the data must not move before the clock has been.  The gap   *)
(* lets the last frame through the receiver before the next one begins.    *)
(***************************************************************************)
ASSUME TimingAssumption ==
  /\ HOLD \in Nat /\ SETUP \in Nat /\ LOW \in Nat /\ GAP \in Nat
  /\ HOLD > CYCLES
  /\ SETUP > 0
  /\ LOW > CYCLES
  /\ GAP >= CYCLES + 9

VARIABLES kbBit,     \* the bit on the data line; LastBit also when idle
          kbPhase,   \* "high" before the data changes, "set" after, "low"
          kbAge,     \* clocks in this phase, up to the least it must last
          kbByte

keyboardVars == <<ps2_clk, ps2_dat, kbBit, kbPhase, kbAge, kbByte>>
linkVars == <<receiveRegs, keyboardVars>>

Parity(byte) == (1 + Cardinality({k \in 0 .. DATA_BITS - 1 : byte[k] = 1})) % 2

FrameBit(byte, k) ==
  CASE k = 0             -> 0
    [] k = DATA_BITS + 1 -> Parity(byte)
    [] k = LastBit       -> 1
    [] OTHER             -> byte[k - 1]

Least ==
  CASE kbPhase = "high" -> IF kbBit = LastBit THEN GAP ELSE HOLD
    [] kbPhase = "set"  -> SETUP
    [] OTHER            -> LOW

KeyboardInit ==
  /\ ps2_clk = 1
  /\ ps2_dat = 1
  /\ kbBit = LastBit
  /\ kbPhase = "high"
  /\ kbAge = GAP
  /\ kbByte \in ScanCodes

KbWait ==
  /\ kbAge' = IF kbAge < Least THEN kbAge + 1 ELSE kbAge
  /\ UNCHANGED <<ps2_clk, ps2_dat, kbBit, kbPhase, kbByte>>

Phase(from, to) == kbPhase = from /\ kbAge = Least /\ kbPhase' = to /\ kbAge' = 1

KbStart ==
  /\ kbBit = LastBit
  /\ Phase("high", "set")
  /\ kbByte' \in ScanCodes
  /\ kbBit' = 0
  /\ ps2_dat' = 0
  /\ UNCHANGED ps2_clk

KbNextBit ==
  /\ kbBit < LastBit
  /\ Phase("high", "set")
  /\ kbBit' = kbBit + 1
  /\ ps2_dat' = FrameBit(kbByte, kbBit + 1)
  /\ UNCHANGED <<ps2_clk, kbByte>>

KbFall == Phase("set", "low") /\ ps2_clk' = 0 /\ UNCHANGED <<ps2_dat, kbBit, kbByte>>
KbRise == Phase("low", "high") /\ ps2_clk' = 1 /\ UNCHANGED <<ps2_dat, kbBit, kbByte>>

KbFinish == KbNextBit \/ KbFall \/ KbRise
Keyboard == KbWait \/ KbStart \/ KbFinish

LinkInit == ReceiveInit /\ KeyboardInit
LinkNext == ReceiveClock /\ Keyboard
=============================================================================
