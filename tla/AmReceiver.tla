----------------------------- MODULE AmReceiver -----------------------------
(***************************************************************************)
(* How samples travel through the Cyclone III radio, from the decimation   *)
(* in cic_filter.sv through the pipeline of am_demod.sv to the PWM.  Valid *)
(* bits and data go through pipelines of different lengths, and a sample   *)
(* is held until the next one comes.                                       *)
(*                                                                         *)
(* A sample is its number modulo LEVELS: the arithmetic of the combs, the  *)
(* squares and the root is left out, the clocks they take are not.  I and  *)
(* Q take the same way.  Nothing resets the pipelines, so they start with  *)
(* whatever they hold.                                                     *)
(***************************************************************************)
EXTENDS Pwm

CONSTANTS DECIMATION,
          COUNTS         \* 2^clog2(DECIMATION): decimation_count's values

\* Whole periods of the PWM per sample, and a sample through the combs and
\* out of the demodulator before the next: 4096, 4096 and 256 in sdr.sv.
ASSUME DecimationAssumption ==
  /\ DECIMATION \in Nat /\ DECIMATION > 12 /\ DECIMATION % LEVELS = 0
  /\ COUNTS \in Nat /\ COUNTS >= DECIMATION

\* lpm_mult 2, sum 1, altsqrt 8; demod_valid_pipe 9 and demod_valid.
DATA_STAGES  == 11
VALID_STAGES == 10

VARIABLES decimation_count, comb_enable,
          sub_node,         \* of the last stage
          data_out_valid, data_out,
          demod_pipe,       \* the data on its way to demodulated_out
          demod_valid_pipe,
          held              \* history: clocks the PWM has had its level

cicRegs   == <<decimation_count, comb_enable, sub_node, data_out_valid, data_out>>
demodRegs == <<demod_pipe, demod_valid_pipe>>
amVars == <<outputVars, cicRegs, demodRegs, held>>

-----------------------------------------------------------------------------
LastCountShort == ((DECIMATION % COUNTS) - 2) % COUNTS   \* mutant: off by one

LastCount == ((DECIMATION % COUNTS) - 1) % COUNTS   \* all ones when they are equal

EndDecimationCount == decimation_count >= LastCount

Decimate ==
  /\ comb_enable' = IF EndDecimationCount THEN 1 ELSE 0
  /\ decimation_count' = IF EndDecimationCount THEN 0 ELSE (decimation_count + 1) % COUNTS

CombAlways ==   \* mutant: the combs run at every clock
  /\ sub_node' = (sub_node + 1) % LEVELS
  /\ data_out_valid' = comb_enable
  /\ data_out' = sub_node

Comb ==   \* a sample comes out of the last stage
  /\ sub_node' = IF comb_enable = 1 THEN (sub_node + 1) % LEVELS ELSE sub_node
  /\ data_out_valid' = comb_enable
  /\ data_out' = sub_node

Demod ==
  /\ demod_pipe' = [k \in 1 .. DATA_STAGES |-> IF k = 1 THEN data_out ELSE demod_pipe[k - 1]]
  /\ demod_valid_pipe' = [k \in 1 .. VALID_STAGES |->
       IF k = 1 THEN data_out_valid ELSE demod_valid_pipe[k - 1]]

ToPwm ==   \* the wires to the PWM, as in sdr.sv
  /\ data_valid' = demod_valid_pipe'[VALID_STAGES]
  /\ data' = demod_pipe'[DATA_STAGES] - Half

-----------------------------------------------------------------------------
\* The first clock out of reset of the receiver; the PWM is a clock ahead.
AmInit ==
  /\ decimation_count = 0 /\ comb_enable = 0
  /\ sub_node = 0
  /\ data_out_valid = 0 /\ data_out \in {0, Half}
  /\ demod_pipe \in {[k \in 1 .. DATA_STAGES |-> x] : x \in {0, Half}}
  /\ demod_valid_pipe \in [1 .. VALID_STAGES -> {0, 1}]
  /\ data_valid = demod_valid_pipe[VALID_STAGES]
  /\ data = demod_pipe[DATA_STAGES] - Half
  /\ pwm_counter = 1 /\ compare_reg = Half /\ pwm_out = 0
  /\ pwm_data_reg \in {0, Half}
  /\ high = 0 /\ playing = Half
  /\ held = 0

AmNext ==
  /\ Decimate
  /\ Comb
  /\ Demod
  /\ ToPwm
  /\ PwmStep
  /\ held' = IF compare_reg' # compare_reg THEN 1
             ELSE IF held < DECIMATION THEN held + 1 ELSE held

AmSpec == AmInit /\ [][AmNext]_amVars
AmFairSpec == AmSpec /\ WF_amVars(AmNext)   \* the clock runs

-----------------------------------------------------------------------------
(* Once what the pipelines held at reset has gone, the PWM is given every  *)
(* sample once and in order, always the one before the last: valid is a    *)
(* clock ahead of its data in the filter and again in the demodulator.     *)
SamplesInOrder ==
  /\ <>[][data_valid = 1 => /\ pwm_data_reg' = (pwm_data_reg + 1) % LEVELS
                            /\ pwm_data_reg' = (sub_node - 1) % LEVELS]_amVars
  /\ []<>(data_valid = 1)

(* And it plays every sample, for the same number of whole periods.        *)
PlayedEvenly ==
  <>[][compare_reg' # compare_reg => /\ compare_reg' = (compare_reg + 1) % LEVELS
                                     /\ held = DECIMATION]_amVars
=============================================================================
