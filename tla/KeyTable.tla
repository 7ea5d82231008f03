------------------------------ MODULE KeyTable ------------------------------
(***************************************************************************)
(* The key table of the MachXO2 radio: the two case statements of          *)
(* impl1/source/top.v as built (CLOCK_IS_83_MHZ).  Phase increments are    *)
(* 64-bit words in the code; here they are numbers modulo PHASE_MOD, and   *)
(* the three step sizes and four preset stations are constants.            *)
(***************************************************************************)
EXTENDS Integers

CONSTANTS PHASE_MOD,                     \* 2^64 in the code
          STEP_9K, STEP_1K, STEP_100,    \* phase increments of 9 kHz, 1 kHz, 100 Hz
          Preset,                        \* the station of each preset key
          Keys                           \* the bytes the terminal sends

PresetKeys == {97, 98, 102, 103}   \* a b f g
GainKeys   == 48 .. 51             \* 0 1 2 3

Phase == 0 .. PHASE_MOD - 1

ASSUME PhaseAssumption ==
  /\ PHASE_MOD \in Nat \ {0}
  /\ STEP_9K \in Phase /\ STEP_1K \in Phase /\ STEP_100 \in Phase
  /\ Preset \in [PresetKeys -> Phase]

GainAfter(k, gain) == IF k \in GainKeys THEN k - 48 ELSE gain

Steps(k) ==   \* the change of the phase increment a stepping key makes
  CASE k = 110 -> - STEP_9K
    [] k = 109 -> STEP_9K
    [] k = 111 -> - STEP_100
    [] k = 112 -> STEP_100
    [] k = 113 -> - STEP_1K
    [] k = 104 -> STEP_1K
    [] OTHER   -> 0

PhaseAfter(k, phase) ==
  IF k \in PresetKeys THEN Preset[k] ELSE (phase + Steps(k)) % PHASE_MOD
=============================================================================
