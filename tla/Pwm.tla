-------------------------------- MODULE Pwm ---------------------------------
(***************************************************************************)
(* The audio output of the Cyclone III radio (pwm.sv).  A step is one edge *)
(* of the clock.  The compare value is changed only at the end of a period *)
(* of the counter; samples wait for it in data_reg.  Its registers counter *)
(* and data_reg have the module's name in front, for proofs about several  *)
(* modules at once.                                                        *)
(***************************************************************************)
EXTENDS Integers

CONSTANT LEVELS   \* 2^WIDTH, 256 in sdr.sv

ASSUME LevelsAssumption == LEVELS \in Nat /\ LEVELS >= 2 /\ LEVELS % 2 = 0

VARIABLES data_valid, data,   \* the sample, signed
          pwm_counter,
          pwm_data_reg,       \* the sample, offset to unsigned
          compare_reg,
          pwm_out

pwmRegs == <<pwm_counter, pwm_data_reg, compare_reg, pwm_out>>

Half    == LEVELS \div 2
Level   == 0 .. LEVELS - 1
Sample  == -Half .. Half - 1

PwmInit ==
  /\ pwm_counter = 0
  /\ pwm_data_reg = 0
  /\ compare_reg = Half
  /\ pwm_out = 0

TakeSample ==
  pwm_data_reg' = IF data_valid = 1 THEN (data + Half) % LEVELS ELSE pwm_data_reg

Load == compare_reg' = IF pwm_counter = LEVELS - 1 THEN pwm_data_reg ELSE compare_reg

DriveInclusive ==   \* mutant: one clock of the period too many
  pwm_out' = IF pwm_counter >= compare_reg THEN 1 ELSE 0

Drive == pwm_out' = IF pwm_counter > compare_reg THEN 1 ELSE 0

PwmClock ==
  /\ TakeSample
  /\ pwm_counter' = (pwm_counter + 1) % LEVELS
  /\ Load
  /\ Drive

-----------------------------------------------------------------------------
\* What the PWM puts out.  The output is a register: the clock in which it
\* shows a count is the one after.  In OutputSpec samples come at any clock;
\* AmReceiver has them from the demodulator.
VARIABLES high,     \* history: high clocks of the output in this period
          playing   \* history: the compare value the period began with

outputVars == <<data_valid, data, pwmRegs, high, playing>>

Inputs == data_valid' \in {0, 1} /\ data' \in Sample

OutputInit ==
  /\ data_valid \in {0, 1} /\ data \in Sample
  /\ PwmInit
  /\ high = Half - 1   \* as after a period of silence
  /\ playing = Half

PwmStep ==
  /\ PwmClock
  /\ high' = pwm_out' + IF pwm_counter = 0 THEN 0 ELSE high
  /\ playing' = IF pwm_counter = 0 THEN compare_reg ELSE playing

OutputNext == Inputs /\ PwmStep

OutputSpec == OutputInit /\ [][OutputNext]_outputVars

-----------------------------------------------------------------------------
(* The registers keep their types: the offset loses no sample.             *)
OutputTypeOK ==
  /\ data_valid \in {0, 1} /\ data \in Sample
  /\ pwm_counter \in Level
  /\ pwm_data_reg \in Level /\ compare_reg \in Level
  /\ pwm_out \in {0, 1}
  /\ high \in 0 .. LEVELS /\ playing \in Level

\* The clocks of the output period gone by: the whole period at count 0.
Shown == IF pwm_counter = 0 THEN LEVELS ELSE pwm_counter

(* The output has been high for as many clocks of its period as the level  *)
(* it began with makes it: a sample that comes in the middle of a period   *)
(* does not disturb it, and a whole period has exactly the duty.           *)
DutyInv == high = IF Shown - 1 > playing THEN Shown - 1 - playing ELSE 0

(* The output falls only where one period ends and the next begins.        *)
NoGlitch == [][pwm_out = 1 /\ pwm_out' = 0 => pwm_counter = 0]_outputVars
=============================================================================
