----------------------------- MODULE UartNoise ------------------------------
(***************************************************************************)
(* The receiver on a line that may change at every tick, with a history    *)
(* that tells noise from frames.  Noise is low glitches of at most         *)
(* GLITCH_MAX ticks, at least GAP_MIN ticks apart.  The start-bit check of *)
(* UartRX.v looks at the line twice, when it leaves idle and Mid ticks     *)
(* later; this module asks which noise that rejects.                       *)
(***************************************************************************)
EXTENDS UartRx

CONSTANTS GLITCH_MAX, GAP_MIN

ASSUME NoiseAssumption ==
  /\ GLITCH_MAX \in 1 .. Mid + 1
  /\ GAP_MIN \in Nat
  /\ GAP_MIN >= Mid + 1

VARIABLES levelAge,   \* ticks the line has had its level, counted up to GAP_MIN
          onlyNoise   \* whether the line has shown nothing but noise

noiseVars == <<vars, levelAge, onlyNoise>>

TooLong  == i_Rx_Serial = 0 /\ i_Rx_Serial' = 0 /\ levelAge = GLITCH_MAX
TooClose == i_Rx_Serial = 1 /\ i_Rx_Serial' = 0 /\ levelAge < GAP_MIN

\* Nothing is left to measure once the line has shown more than noise.
Noise ==
  /\ onlyNoise' = (onlyNoise /\ ~ TooLong /\ ~ TooClose)
  /\ levelAge' = IF ~ onlyNoise' THEN GAP_MIN
                 ELSE IF i_Rx_Serial' # i_Rx_Serial THEN 1
                 ELSE IF levelAge < GAP_MIN THEN levelAge + 1
                 ELSE levelAge

NoiseInit == Init /\ levelAge = GAP_MIN /\ onlyNoise = TRUE
NoiseNext == Next /\ Noise
NoiseSpec == NoiseInit /\ [][NoiseNext]_noiseVars /\ WF_rxVars(NoiseNext)

-----------------------------------------------------------------------------
(* The middle-of-the-start-bit check filters the noise out: no glitch ever *)
(* gets the receiver past the start bit, so noise never becomes a command. *)
GlitchesRejected ==
  onlyNoise => r_SM_Main \in {"IDLE", "RX_START_BIT"} /\ r_Rx_DV = 0
=============================================================================
