---------------------------- MODULE SystemMonitor ---------------------------
(***************************************************************************)
(* The PLL watchdog of the Cyclone III radio (system_monitor.sv).  It      *)
(* counts board clocks since the last PLL reset, resets the PLL again if   *)
(* it has not locked when the counter is full, and holds the system in     *)
(* reset until then; the reset request crosses into the PLL's clocks       *)
(* through four registers each.  The edges of the board clock and of the   *)
(* PLL's clocks interleave freely.                                         *)
(*                                                                         *)
(* The PLL is external.  It loses lock in reset, locks at most LOCK_TIME   *)
(* board clocks after it, and may lose the lock at any time, after which   *)
(* it may or may not lock again before the next reset.                     *)
(***************************************************************************)
EXTENDS Integers

CONSTANTS COUNTER_MAX,   \* 65535 in the code, all ones in 16 bits
          LOCK_TIME,     \* board clocks the PLL needs to lock after a reset
          Clocks         \* the PLL's clocks that get a reset; one in sdr.sv

ASSUME CounterAssumption == COUNTER_MAX \in Nat \ {0}
\* The PLL locks in time: before the counter is full, with the clock of the
\* reset itself and the three of the synchroniser to spare.
ASSUME LockAssumption == LOCK_TIME \in Nat \ {0} /\ LOCK_TIME + 4 <= COUNTER_MAX

VARIABLES counter,
          pll_locked_meta,    \* bits 0, 1 and 2 of the synchroniser
          pll_areset,
          pll_areset_flop,    \* the reset request the PLL domains sample
          sreset_meta,        \* bits 0, 1 and 2 of each
          pll_sreset,
          pll_locked, age,    \* the PLL: its lock, clocks since its reset
          lost,               \* history: it lost a lock since its reset
          unlocked            \* history: board clocks without lock, up to 5

monitorRegs == <<counter, pll_locked_meta, pll_areset, pll_areset_flop>>
resetRegs   == <<sreset_meta, pll_sreset>>
pllVars     == <<pll_locked, age, lost, unlocked>>
vars        == <<monitorRegs, resetRegs, pllVars>>

Flop == {0, 1}

\* Only counter has an initial value in the code.
Init ==
  /\ counter = 0
  /\ pll_locked_meta \in [0 .. 2 -> Flop]
  /\ pll_areset \in Flop
  /\ pll_areset_flop \in Flop
  /\ sreset_meta \in [Clocks -> [0 .. 2 -> Flop]]
  /\ pll_sreset \in [Clocks -> Flop]
  /\ pll_locked = FALSE
  /\ age = 0
  /\ lost = FALSE
  /\ unlocked = 0

-----------------------------------------------------------------------------
PllReset ==
  /\ pll_areset = 1
  /\ pll_locked' = FALSE /\ age' = 0 /\ lost' = FALSE

PllLoses ==
  /\ pll_areset = 0
  /\ pll_locked
  /\ pll_locked' = FALSE /\ lost' = TRUE
  /\ UNCHANGED age

PllRuns ==
  /\ pll_areset = 0
  /\ age' = IF age < LOCK_TIME THEN age + 1 ELSE age
  /\ pll_locked' \in BOOLEAN
  /\ pll_locked => pll_locked'
  /\ ~ lost /\ age' = LOCK_TIME => pll_locked'
  /\ UNCHANGED lost

Pll ==
  /\ PllReset \/ PllLoses \/ PllRuns
  /\ unlocked' = IF pll_locked' THEN 0 ELSE IF unlocked < 5 THEN unlocked + 1 ELSE 5

-----------------------------------------------------------------------------

Full == counter = COUNTER_MAX   \* &counter

SampleAndRequest ==   \* the assignments every board clock makes
  /\ pll_locked_meta' = [k \in 0 .. 2 |-> IF k > 0 THEN pll_locked_meta[k - 1]
                                          ELSE IF pll_locked THEN 1 ELSE 0]
  /\ pll_areset_flop' = IF pll_areset = 1 \/ ~ Full THEN 1 ELSE 0

CountingImpatient ==   \* mutant: looks at the lock before the counter is full
  /\ ~ Full
  /\ SampleAndRequest
  /\ pll_areset' = 1 - pll_locked_meta[2]
  /\ counter' = counter + 1

Counting ==
  /\ ~ Full
  /\ SampleAndRequest
  /\ pll_areset' = 0
  /\ counter' = counter + 1

RetryKeepsCount ==   \* mutant: does not restart the counter
  /\ Full /\ pll_locked_meta[2] = 0
  /\ SampleAndRequest
  /\ pll_areset' = 1
  /\ UNCHANGED counter

Retry ==
  /\ Full /\ pll_locked_meta[2] = 0
  /\ SampleAndRequest
  /\ pll_areset' = 1
  /\ counter' = 0

SteadyBlind ==   \* mutant: once released, the lock is not looked at again
  /\ Full
  /\ SampleAndRequest
  /\ pll_areset' = 0
  /\ UNCHANGED counter

Steady ==
  /\ Full /\ pll_locked_meta[2] = 1
  /\ SampleAndRequest
  /\ pll_areset' = 0
  /\ UNCHANGED counter

Monitor == Counting \/ Retry \/ Steady

BoardEdge == Monitor /\ Pll /\ UNCHANGED resetRegs

PllEdge(c) ==
  /\ sreset_meta' = [sreset_meta EXCEPT
       ![c] = [k \in 0 .. 2 |-> IF k = 0 THEN pll_areset_flop ELSE @[k - 1]]]
  /\ pll_sreset' = [pll_sreset EXCEPT ![c] = sreset_meta[c][2]]
  /\ UNCHANGED <<monitorRegs, pllVars>>

Next == BoardEdge \/ \E c \in Clocks : PllEdge(c)

Spec == Init /\ [][Next]_vars

\* The board clock runs; a clock of the PLL runs while the PLL is locked.
FairSpec ==
  /\ Spec
  /\ WF_monitorRegs(BoardEdge)
  /\ \A c \in Clocks : WF_resetRegs(pll_locked /\ PllEdge(c))

-----------------------------------------------------------------------------
(* The registers keep their types; the counter stops when it is full.      *)
TypeOK ==
  /\ counter \in 0 .. COUNTER_MAX
  /\ pll_locked_meta \in [0 .. 2 -> Flop]
  /\ pll_areset \in Flop /\ pll_areset_flop \in Flop
  /\ sreset_meta \in [Clocks -> [0 .. 2 -> Flop]]
  /\ pll_sreset \in [Clocks -> Flop]
  /\ pll_locked \in BOOLEAN /\ lost \in BOOLEAN
  /\ age \in 0 .. LOCK_TIME
  /\ unlocked \in 0 .. 5

(* A PLL that locks in time and keeps its lock is not reset again: the     *)
(* watchdog does not race the lock, three synchroniser clocks included.    *)
GoodPllNotReset == [][pll_areset = 0 /\ pll_areset' = 1 => lost]_vars

(* The system is not let out of reset without a lock: five board clocks   *)
(* after the lock is gone the request is active, except for the one clock  *)
(* in which a full counter makes the watchdog reset the PLL.               *)
HeldWithoutLock == unlocked = 5 /\ pll_areset_flop = 0 => pll_areset = 1

(* The invariants behind the last two: how far the lock, or its loss, has  *)
(* come through the synchroniser.                                          *)
LossInv ==
  /\ unlocked >= 1 => ~ pll_locked
  /\ \A k \in 0 .. 2 : unlocked >= k + 2 => pll_locked_meta[k] = 0
  /\ HeldWithoutLock

LockInv ==
  /\ pll_areset = 1 => counter = 0
  /\ pll_areset = 0 /\ ~ lost =>
       /\ age = LOCK_TIME => pll_locked
       /\ age = LOCK_TIME \/ counter <= age + 1
       /\ \A k \in 0 .. 2 : counter >= LOCK_TIME + k + 2 => pll_locked_meta[k] = 1

(* Once the PLL stops losing its lock, the system leaves reset for good,   *)
(* whatever happened before.                                               *)
SystemRuns == <>[][~ PllLoses]_vars => <>[](\A c \in Clocks : pll_sreset[c] = 0)
=============================================================================
