----------------------------- MODULE Ps2Receive -----------------------------
(***************************************************************************)
(* The PS/2 frame receiver (ip/ps2_keyboard/ps2_receive.sv): the keyboard's*)
(* clock and data lines are debounced and a state machine shifts in a bit  *)
(* at each rising edge of the clock.  A step is one edge of the system     *)
(* clock; the lines are driven from outside (Ps2Link).                     *)
(***************************************************************************)
EXTENDS Debounce

CONSTANT DATA_BITS   \* 8; a frame has a start, a parity and a stop bit as well

ASSUME DataBitsAssumption == DATA_BITS \in Nat \ {0}

VARIABLES ps2_clk, ps2_dat,    \* the lines
          clk, dat,            \* their debouncers
          fsm, counter,
          data_out,            \* bit 0 is the oldest
          data_valid

receiveRegs == <<clk, dat, fsm, counter, data_out, data_valid>>

LastBit  == DATA_BITS + 2      \* 10, the 4'ha of the code
FrameBits == 0 .. LastBit
ScanCode == [0 .. DATA_BITS - 1 -> Bit]

\* After a reset with the keyboard idle.  fsm powers up in S1 and is not reset.
ReceiveInit ==
  /\ \E x \in Bit : clk = AfterReset(1, x) /\ dat = AfterReset(1, x)
  /\ fsm = "S1"
  /\ counter = 0
  /\ data_out \in {[k \in FrameBits |-> x] : x \in Bit}
  /\ data_valid = 0

BothValid == clk.valid_out = 1 /\ dat.valid_out = 1

NotValid ==
  /\ ~ BothValid
  /\ data_valid' = 0
  /\ UNCHANGED <<fsm, counter, data_out>>

S1 ==   \* waits for a start bit
  /\ BothValid
  /\ fsm = "S1"
  /\ counter' = 0
  /\ data_valid' = 0
  /\ fsm' = IF clk.out = 0 /\ dat.out = 0 THEN "S2" ELSE "S1"
  /\ UNCHANGED data_out

Shifted == [k \in FrameBits |-> IF k = LastBit THEN dat.out ELSE data_out[k + 1]]

S2 ==   \* waits for the clock to rise and takes a bit
  /\ BothValid
  /\ fsm = "S2"
  /\ \/ /\ clk.out = 1
        /\ data_out' = Shifted
        /\ counter' = counter + 1
        /\ fsm' = IF counter >= LastBit THEN "S4" ELSE "S3"
     \/ clk.out = 0 /\ UNCHANGED <<fsm, counter, data_out>>
  /\ UNCHANGED data_valid

S3 ==   \* waits for the clock to fall
  /\ BothValid
  /\ fsm = "S3"
  /\ fsm' = IF clk.out = 0 THEN "S2" ELSE "S3"
  /\ UNCHANGED <<counter, data_out, data_valid>>

S4Stays ==   \* mutant: does not go back to S1
  /\ BothValid
  /\ fsm = "S4"
  /\ data_valid' = 1
  /\ UNCHANGED <<fsm, counter, data_out>>

S4 ==   \* the parity check is commented out
  /\ BothValid
  /\ fsm = "S4"
  /\ data_valid' = 1
  /\ fsm' = "S1"
  /\ UNCHANGED <<counter, data_out>>

Receive == NotValid \/ S1 \/ S2 \/ S3 \/ S4

ReceiveClock ==
  /\ clk' = Clocked(clk, ps2_clk)
  /\ dat' = Clocked(dat, ps2_dat)
  /\ Receive
=============================================================================
