------------------------------ MODULE Debounce ------------------------------
(***************************************************************************)
(* The debouncer of the PS/2 inputs (ip/ps2_keyboard/debounce.sv): three   *)
(* synchroniser flip-flops, two registers that are compared, and a counter *)
(* of the clocks they have been equal.  A debouncer is a record of its     *)
(* registers and an edge of the clock a function of it and the line, so    *)
(* that Ps2Link can have two.                                              *)
(***************************************************************************)
EXTENDS Integers

CONSTANT CYCLES   \* SYSTEM_CLOCK * DELAY_US / 1000000, 500 on the board

ASSUME CyclesAssumption == CYCLES \in Nat \ {0}

Bit == {0, 1}

Debouncer ==
  [meta_sample : [0 .. 2 -> Bit], in_reg : Bit, last_in_reg : Bit,
   counter : 0 .. CYCLES - 1, out : Bit, valid_out : Bit]

\* What clock_sreset leaves on a line that has been at the level for a while.
AfterReset(level, x) ==
  [meta_sample |-> [k \in 0 .. 2 |-> level], in_reg |-> 0, last_in_reg |-> 0,
   counter |-> 0, out |-> x, valid_out |-> 0]

Stable(d) == d.last_in_reg = d.in_reg

FullCounter(d) == d.counter >= CYCLES - 1

CounterAfter(d) ==
  IF ~ Stable(d) THEN 0 ELSE IF FullCounter(d) THEN d.counter ELSE d.counter + 1

Clocked(d, level) ==
  [meta_sample |-> [k \in 0 .. 2 |-> IF k = 0 THEN level ELSE d.meta_sample[k - 1]],
   in_reg      |-> d.meta_sample[2],
   last_in_reg |-> d.in_reg,
   counter     |-> CounterAfter(d),
   out         |-> IF Stable(d) /\ FullCounter(d) THEN d.in_reg ELSE d.out,
   valid_out   |-> IF Stable(d) /\ FullCounter(d) THEN 1 ELSE 0]
=============================================================================
