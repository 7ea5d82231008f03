---------------------------- MODULE Radio_proofs ----------------------------
(***************************************************************************)
(* Safety of the parts of the two radios that stand alone.  The MachXO2    *)
(* radio's path from a received key to the tuner's registers, where every  *)
(* key takes effect exactly once, for every key table arithmetic.  Of the  *)
(* Cyclone III: the PLL watchdog, for every size of the counter, every     *)
(* lock time within it and any set of clocks; a debouncer, for every       *)
(* length of its delay; the keyboard's bus side with the program that      *)
(* polls it, for any set of scan codes; and the audio output, for every    *)
(* width.                                                                  *)
(***************************************************************************)
EXTENDS TunerControl, SystemMonitor, Ps2Keyboard, Debounce, Pwm, TLAPS

-----------------------------------------------------------------------------
(* The control path of the MachXO2 radio.                                  *)
LEMMA GainInRange ==
  ASSUME NEW k \in Keys, NEW g \in 0 .. 3 PROVE GainAfter(k, g) \in 0 .. 3
  BY DEF GainAfter, GainKeys

(* Tuning wraps around the phase word and never leaves it.                 *)
LEMMA PhaseInRange ==
  ASSUME NEW k \in Keys, NEW p \in Phase PROVE PhaseAfter(k, p) \in Phase
<1>1. CASE k \in PresetKeys
  BY <1>1, PhaseAssumption DEF PhaseAfter
<1>2. CASE k \notin PresetKeys
  <2>1. Steps(k) \in Int
    BY PhaseAssumption DEF Steps, Phase
  <2>2. p + Steps(k) \in Int /\ PHASE_MOD \in Nat \ {0}
    BY <2>1, PhaseAssumption DEF Phase
  <2>3. (p + Steps(k)) % PHASE_MOD \in 0 .. PHASE_MOD - 1
    BY <2>2
  <2> QED
    BY <1>2, <2>3 DEF PhaseAfter, Phase
<1> QED
  BY <1>1, <1>2

LEMMA ControlType == ControlTypeOK /\ [OscEdge]_controlVars => ControlTypeOK'
<1> SUFFICES ASSUME ControlTypeOK, [OscEdge]_controlVars PROVE ControlTypeOK'
  OBVIOUS
<1>1. CASE OscEdge
  <2>1. CICGain' \in 0 .. 3 /\ phase_inc_carrGen' \in Phase
    BY <1>1, GainInRange, PhaseInRange DEF OscEdge, TopCommand, ControlTypeOK
  <2>2. r_Rx_DV' \in {0, 1} /\ o_Rx_Byte1' \in Keys
    BY <1>1 DEF OscEdge, RxEdge, Rx!Rise, Rx!Fall, ControlTypeOK
  <2>3. UartClk' \in 0 .. 7 /\ r_Rx_DV_last' \in {0, 1} /\ o_Rx_DV1' \in {0, 1}
    BY <1>1 DEF OscEdge, UartOsc, ControlTypeOK
  <2> QED
    BY <1>1, <2>1, <2>2, <2>3 DEF OscEdge, TopRegs, ControlTypeOK
<1>2. CASE UNCHANGED controlVars
  BY <1>2 DEF controlVars, ControlTypeOK
<1> QED
  BY <1>1, <1>2

LEMMA ControlStarts == ControlInit => ControlTypeOK /\ CrossingInv
  BY PhaseAssumption DEF ControlInit, Rx!PortInit, ControlTypeOK, CrossingInv, Phase

LEMMA CrossingStep == ControlTypeOK /\ CrossingInv /\ [OscEdge]_controlVars => CrossingInv'
<1> SUFFICES ASSUME ControlTypeOK, CrossingInv, [OscEdge]_controlVars PROVE CrossingInv'
  OBVIOUS
<1>1. CASE OscEdge
  BY <1>1 DEF OscEdge, UartOsc, TopRegs, RxEdge, Rx!Rise, Rx!Fall, ControlTypeOK, CrossingInv
<1>2. CASE UNCHANGED controlVars
  BY <1>2 DEF controlVars, CrossingInv
<1> QED
  BY <1>1, <1>2

(* The registers keep their types: top.v's phase arithmetic wraps inside   *)
(* its word and the gain stays one the CIC shift is meant for.             *)
THEOREM ControlTypeCorrect == ControlSpec => []ControlTypeOK
  BY ControlStarts, ControlType, PTL DEF ControlSpec

(* A key is in one stage of the crossing at a time.                        *)
THEOREM CrossingInvariant == ControlSpec => []CrossingInv
  BY ControlStarts, CrossingStep, ControlTypeCorrect, PTL DEF ControlSpec

-----------------------------------------------------------------------------
LEMMA CommandStep ==
  ASSUME ControlTypeOK, CrossingInv, [OscEdge]_controlVars
  PROVE  [Commands!TunerNext]_(Commands!tunerVars)
<1> USE DEF Commands!TunerNext, Commands!tunerVars
<1>1. CASE UNCHANGED controlVars
  BY <1>1 DEF controlVars, Pending
<1>2. CASE OscEdge /\ o_Rx_DV = 1
  <2>1. Pending = TRUE /\ o_Rx_Byte = o_Rx_Byte1 /\ UartClk = 6 /\ r_Rx_DV = 1
        /\ r_Rx_DV_last = 1 /\ o_Rx_DV1 = 0
    BY <1>2 DEF CrossingInv, ControlTypeOK, Pending
  <2>2. o_Rx_Byte1' = o_Rx_Byte1 /\ r_Rx_DV' = r_Rx_DV /\ r_Rx_DV_last' = 1
        /\ o_Rx_DV1' = 0 /\ o_Rx_DV' = 0
    BY <1>2, <2>1 DEF OscEdge, RxEdge, UartOsc, TopRegs
  <2>3. Pending' = FALSE
    BY <2>1, <2>2 DEF Pending
  <2>4. /\ CICGain' = GainAfter(o_Rx_Byte1, CICGain)
        /\ phase_inc_carrGen' = PhaseAfter(o_Rx_Byte1, phase_inc_carrGen)
    BY <1>2, <2>1 DEF OscEdge, TopCommand
  <2>5. GainAfter(o_Rx_Byte1, CICGain) = Commands!GainAfter(o_Rx_Byte1, CICGain)
        /\ PhaseAfter(o_Rx_Byte1, phase_inc_carrGen)
             = Commands!PhaseAfter(o_Rx_Byte1, phase_inc_carrGen)
    BY DEF GainAfter, PhaseAfter, Commands!GainAfter, Commands!PhaseAfter, GainKeys,
           Commands!GainKeys, PresetKeys, Commands!PresetKeys, Steps, Commands!Steps
  <2> QED
    BY <2>1, <2>2, <2>3, <2>4, <2>5 DEF Commands!Execute
<1>3. CASE OscEdge /\ o_Rx_DV # 1
  <2>1. UNCHANGED <<CICGain, phase_inc_carrGen>>
    BY <1>3 DEF OscEdge, TopCommand
  <2>2. CASE UNCHANGED <<r_Rx_DV, o_Rx_Byte1>>
    <3>1. Pending' = Pending
      BY <1>3, <2>2 DEF OscEdge, UartOsc, TopRegs, Pending, ControlTypeOK, CrossingInv
    <3> QED
      BY <2>1, <2>2, <3>1
  <2>3. CASE UartClk = 3 /\ Rx!Rise
    <3>1. Pending = FALSE /\ Pending' = TRUE
      BY <1>3, <2>3 DEF OscEdge, UartOsc, TopRegs, Rx!Rise, Pending, ControlTypeOK, CrossingInv
    <3> QED
      BY <2>1, <2>3, <3>1 DEF Commands!Receive, Rx!Rise
  <2>4. CASE UartClk = 3 /\ Rx!Fall
    <3>1. Pending = FALSE /\ Pending' = FALSE
      BY <1>3, <2>4 DEF OscEdge, UartOsc, TopRegs, Rx!Fall, Pending, ControlTypeOK, CrossingInv
    <3> QED
      BY <2>1, <2>4, <3>1 DEF Rx!Fall
  <2> QED
    BY <1>3, <2>2, <2>3, <2>4 DEF OscEdge, RxEdge
<1> QED
  BY <1>1, <1>2, <1>3

(* The control path implements the tuner (top.v:238-288 with               *)
(* UartRX.v:47-52): each key takes effect once, in order, unchanged, for   *)
(* every sequence of keys and every size of the phase word.                *)
THEOREM ControlImplementsTuner == ControlSpec => EachKeyOnce
<1>1. ControlInit => Commands!TunerInit
  BY PhaseAssumption
     DEF ControlInit, Rx!PortInit, Commands!TunerInit, Pending, Phase, Commands!Phase
<1> QED
  BY <1>1, CommandStep, ControlTypeCorrect, CrossingInvariant, PTL
     DEF ControlSpec, EachKeyOnce, Commands!TunerSafety

-----------------------------------------------------------------------------
(* The PLL watchdog.                                                       *)
USE CounterAssumption, LockAssumption

LEMMA MonitorTypeInit == Init => TypeOK
<1>1. 0 \in 0 .. COUNTER_MAX /\ 0 \in 0 .. LOCK_TIME /\ 0 \in 0 .. 5
  OBVIOUS
<1> QED
  BY <1>1, Zenon DEF Init, TypeOK

\* A clock of the PLL touches nothing but its own reset registers.
LEMMA PllEdgeQuiet ==
  ASSUME NEW c \in Clocks, PllEdge(c)
  PROVE  UNCHANGED <<monitorRegs, pllVars>>
  BY DEF PllEdge

LEMMA MonitorTypeStep == TypeOK /\ [Next]_vars => TypeOK'
<1> SUFFICES ASSUME TypeOK, [Next]_vars PROVE TypeOK'
  OBVIOUS
<1>1. CASE BoardEdge
  <2>1. pll_locked_meta' \in [0 .. 2 -> Flop] /\ pll_areset_flop' \in Flop
    BY <1>1 DEF BoardEdge, Monitor, Counting, Retry, Steady, SampleAndRequest, TypeOK, Flop
  <2>2. counter' \in 0 .. COUNTER_MAX /\ pll_areset' \in Flop
    BY <1>1 DEF BoardEdge, Monitor, Counting, Retry, Steady, Full, TypeOK, Flop
  <2>3. age' \in 0 .. LOCK_TIME
    BY <1>1 DEF BoardEdge, Pll, PllReset, PllLoses, PllRuns, TypeOK
  <2>5. pll_locked' \in BOOLEAN /\ lost' \in BOOLEAN
    BY <1>1, Zenon DEF BoardEdge, Pll, PllReset, PllLoses, PllRuns, TypeOK
  <2>4. unlocked' \in 0 .. 5
    BY <1>1 DEF BoardEdge, Pll, TypeOK
  <2> QED
    BY <1>1, <2>1, <2>2, <2>3, <2>4, <2>5 DEF BoardEdge, resetRegs, TypeOK
<1>2. ASSUME NEW c \in Clocks, PllEdge(c) PROVE TypeOK'
  <2>1. sreset_meta' \in [Clocks -> [0 .. 2 -> Flop]]
    BY <1>2 DEF PllEdge, TypeOK, Flop
  <2>2. pll_sreset' \in [Clocks -> Flop]
    BY <1>2 DEF PllEdge, TypeOK, Flop
  <2> QED
    BY <1>2, <2>1, <2>2 DEF PllEdge, monitorRegs, pllVars, TypeOK
<1>3. CASE UNCHANGED vars
  BY <1>3 DEF vars, monitorRegs, resetRegs, pllVars, TypeOK
<1> QED
  BY <1>1, <1>2, <1>3 DEF Next

(* The registers keep their types; the counter stops when it is full.      *)
THEOREM MonitorTypeCorrect == Spec => []TypeOK
  BY MonitorTypeInit, MonitorTypeStep, PTL DEF Spec

-----------------------------------------------------------------------------
LEMMA LossStep == TypeOK /\ LossInv /\ [Next]_vars => LossInv'
<1> SUFFICES ASSUME TypeOK, LossInv, [Next]_vars PROVE LossInv'
  OBVIOUS
<1>1. CASE BoardEdge
  <2>1. (unlocked >= 1 => ~ pll_locked)'
    BY <1>1 DEF BoardEdge, Pll
  <2>2. /\ unlocked' >= 2 => unlocked >= 1
        /\ unlocked' >= 3 => unlocked >= 2
        /\ unlocked' >= 4 => unlocked >= 3
        /\ unlocked' >= 5 => unlocked >= 4
    BY <1>1 DEF BoardEdge, Pll, TypeOK
  <2>3. (\A k \in 0 .. 2 : unlocked >= k + 2 => pll_locked_meta[k] = 0)'
    <3> SUFFICES ASSUME NEW k \in 0 .. 2, unlocked' >= k + 2
                 PROVE  pll_locked_meta'[k] = 0
      OBVIOUS
    <3>1. pll_locked_meta'[k] = IF k > 0 THEN pll_locked_meta[k - 1]
                                ELSE IF pll_locked THEN 1 ELSE 0
      BY <1>1 DEF BoardEdge, Monitor, Counting, Retry, Steady, SampleAndRequest
    <3>2. CASE k = 0
      BY <2>2, <3>1, <3>2 DEF LossInv
    <3>3. CASE k > 0
      <4>1. k - 1 \in 0 .. 2 /\ unlocked >= (k - 1) + 2
        BY <2>2, <3>3 DEF TypeOK
      <4> QED
        BY <3>1, <3>3, <4>1 DEF LossInv
    <3> QED
      BY <3>2, <3>3
  <2>4. HeldWithoutLock'
    <3> SUFFICES ASSUME unlocked' = 5, pll_areset_flop' = 0 PROVE pll_areset' = 1
      BY DEF HeldWithoutLock
    <3>1. pll_locked_meta[2] = 0
      BY <2>2 DEF LossInv, TypeOK
    <3>2. Full
      BY <1>1 DEF BoardEdge, Monitor, Counting, Retry, Steady, SampleAndRequest
    <3> QED
      BY <1>1, <3>1, <3>2 DEF BoardEdge, Monitor, Counting, Retry, Steady
  <2> QED
    BY <2>1, <2>3, <2>4 DEF LossInv
<1>2. ASSUME NEW c \in Clocks, PllEdge(c) PROVE LossInv'
  BY <1>2, PllEdgeQuiet DEF monitorRegs, pllVars, LossInv, HeldWithoutLock
<1>3. CASE UNCHANGED vars
  BY <1>3 DEF vars, monitorRegs, pllVars, LossInv, HeldWithoutLock
<1> QED
  BY <1>1, <1>2, <1>3 DEF Next

(* Five board clocks after the lock is gone the system is in reset, except *)
(* for the clock in which the watchdog resets the PLL.                     *)
THEOREM NoReleaseWithoutLock == Spec => []HeldWithoutLock
<1>1. Init => LossInv
  BY DEF Init, LossInv, HeldWithoutLock
<1>2. LossInv => HeldWithoutLock
  BY DEF LossInv
<1> QED
  BY <1>1, <1>2, LossStep, MonitorTypeCorrect, PTL DEF Spec

-----------------------------------------------------------------------------
LEMMA LockStep == TypeOK /\ LockInv /\ [Next]_vars => LockInv'
<1> SUFFICES ASSUME TypeOK, LockInv, [Next]_vars PROVE LockInv'
  OBVIOUS
<1>1. CASE BoardEdge
  <2>1. pll_areset' = 1 => counter' = 0
    BY <1>1 DEF BoardEdge, Monitor, Counting, Retry, Steady
  <2>2. CASE pll_areset = 1   \* the clock after a reset: the counter is at one
    <3>1. counter' = 1 /\ age' = 0
      BY <1>1, <2>2 DEF BoardEdge, Monitor, Counting, Retry, Steady, Full, Pll,
                        PllReset, PllLoses, PllRuns, LockInv
    <3> QED
      BY <2>1, <3>1 DEF LockInv
  <2>3. CASE pll_areset = 0 /\ ~ lost' /\ pll_areset' = 0
    <3>1. PllRuns /\ ~ lost
      BY <1>1, <2>3 DEF BoardEdge, Pll, PllReset, PllLoses, PllRuns
    <3>2. counter' <= counter + 1 /\ counter' \in Nat
      BY <1>1, <2>3 DEF BoardEdge, Monitor, Counting, Retry, Steady, Full, TypeOK
    <3>3. (age = LOCK_TIME => pll_locked)'
      BY <3>1 DEF PllRuns
    <3>4. (age = LOCK_TIME \/ counter <= age + 1)'
      BY <2>3, <3>1, <3>2 DEF PllRuns, LockInv, TypeOK
    <3>5. (\A k \in 0 .. 2 : counter >= LOCK_TIME + k + 2 => pll_locked_meta[k] = 1)'
      <4> SUFFICES ASSUME NEW k \in 0 .. 2, counter' >= LOCK_TIME + k + 2
                   PROVE  pll_locked_meta'[k] = 1
        OBVIOUS
      <4>1. pll_locked_meta'[k] = IF k > 0 THEN pll_locked_meta[k - 1]
                                  ELSE IF pll_locked THEN 1 ELSE 0
        BY <1>1 DEF BoardEdge, Monitor, Counting, Retry, Steady, SampleAndRequest
      <4>2. counter >= LOCK_TIME + k + 1
        BY <3>2 DEF TypeOK
      <4>3. CASE k = 0
        BY <2>3, <3>1, <4>1, <4>2, <4>3 DEF LockInv, TypeOK
      <4>4. CASE k > 0
        <5>1. k - 1 \in 0 .. 2 /\ counter >= LOCK_TIME + (k - 1) + 2
          BY <4>2, <4>4 DEF TypeOK
        <5> QED
          BY <2>3, <3>1, <4>1, <4>4, <5>1 DEF LockInv
      <4> QED
        BY <4>3, <4>4
    <3> QED
      BY <2>1, <3>3, <3>4, <3>5 DEF LockInv
  <2>4. CASE lost' \/ pll_areset' = 1
    BY <2>1, <2>4 DEF LockInv
  <2>5. pll_areset \in Flop /\ pll_areset' \in Flop
    BY MonitorTypeStep DEF TypeOK
  <2> QED
    BY <2>2, <2>3, <2>4, <2>5 DEF Flop
<1>2. ASSUME NEW c \in Clocks, PllEdge(c) PROVE LockInv'
  BY <1>2, PllEdgeQuiet DEF monitorRegs, pllVars, LockInv
<1>3. CASE UNCHANGED vars
  BY <1>3 DEF vars, monitorRegs, pllVars, LockInv
<1> QED
  BY <1>1, <1>2, <1>3 DEF Next

(* The watchdog's counter and the lock's way through the synchroniser.     *)
LEMMA LockSeenInTime == Spec => []LockInv
<1>1. Init => LockInv
  BY DEF Init, LockInv
<1> QED
  BY <1>1, LockStep, MonitorTypeCorrect, PTL DEF Spec

(* A PLL that locks within LOCK_TIME and keeps its lock is not reset.      *)
THEOREM WatchdogSparesGoodPll == Spec => GoodPllNotReset
<1>1. TypeOK /\ LockInv /\ [Next]_vars => [pll_areset = 0 /\ pll_areset' = 1 => lost]_vars
  <2> SUFFICES ASSUME TypeOK, LockInv, Next, pll_areset = 0, pll_areset' = 1 PROVE lost
    BY DEF vars
  <2>1. BoardEdge
    BY PllEdgeQuiet DEF Next, monitorRegs
  <2>2. Retry
    BY <2>1 DEF BoardEdge, Monitor, Counting, Steady
  <2> QED
    BY <2>2 DEF Retry, Full, LockInv
<1> QED
  BY <1>1, LockSeenInTime, MonitorTypeCorrect, PTL DEF Spec, GoodPllNotReset

-----------------------------------------------------------------------------
(* One debouncer on a line that may change at every clock.  recent is a    *)
(* history variable: the last samples of the line, the latest at 1.        *)
VARIABLES level, d, recent

lineVars == <<level, d, recent>>

\* The registers a sample goes through before it is compared with the next.
Delay  == 5
Length == Delay + CYCLES

\* The history a reset pretends: its two zeroes have just followed a one.
LineInit ==
  /\ level \in Bit
  /\ \E x \in Bit : d = AfterReset(level, x)
  /\ recent = [k \in 1 .. Length |-> IF k <= 3 THEN level ELSE IF k <= Delay THEN 0 ELSE 1]

LineNext ==
  /\ level' \in Bit
  /\ d' = Clocked(d, level)
  /\ recent' = [k \in 1 .. Length |-> IF k = 1 THEN level ELSE recent[k - 1]]

LineSpec == LineInit /\ [][LineNext]_lineVars

-----------------------------------------------------------------------------
(* The registers keep their types; the counter stops when it is full.      *)
LineTypeOK ==
  /\ level \in Bit
  /\ d \in Debouncer
  /\ recent \in [1 .. Length -> Bit]

LineSteady == \A k \in Delay .. Length : recent[k] = recent[Delay]

(* The debouncer shows a level, and calls it valid, exactly while the line *)
(* has had it for CYCLES + 1 samples, five clocks ago: no shorter pulse    *)
(* gets through, and no level that stays is withheld.                      *)
ValidIffSteady ==
  /\ d.valid_out = 1 <=> LineSteady
  /\ d.valid_out = 1 => d.out = recent[Delay]

(* The inductive invariant behind it: the registers are the first samples  *)
(* and the counter is the number of samples before them without a change.  *)
HistoryInv ==
  /\ \A k \in 0 .. 2 : d.meta_sample[k] = recent[k + 1]
  /\ d.in_reg = recent[4]
  /\ d.last_in_reg = recent[Delay]
  /\ \A k \in Delay .. Delay + d.counter : recent[k] = recent[Delay]
  /\ d.counter < CYCLES - 1 => recent[Delay + d.counter] # recent[Delay + d.counter + 1]
  /\ ValidIffSteady

-----------------------------------------------------------------------------
USE CyclesAssumption

\* A sample moves one place back in the history at each clock.
LEMMA Shift ==
  ASSUME LineNext
  PROVE  /\ recent'[1] = level
         /\ \A k \in 2 .. Length : recent'[k] = recent[k - 1]
  BY DEF LineNext, Length, Delay

LEMMA LineTypeInit == LineInit => LineTypeOK
<1> SUFFICES ASSUME LineInit PROVE LineTypeOK
  OBVIOUS
<1>1. d \in Debouncer
  BY DEF LineInit, AfterReset, Debouncer, Bit
<1>2. recent \in [1 .. Length -> Bit]
  BY DEF LineInit, Bit
<1> QED
  BY <1>1, <1>2 DEF LineInit, LineTypeOK

LEMMA LineTypeStep == LineTypeOK /\ [LineNext]_lineVars => LineTypeOK'
<1> SUFFICES ASSUME LineTypeOK, LineNext PROVE LineTypeOK'
  BY DEF lineVars, LineTypeOK
<1>1. d' \in Debouncer
  <2>1. CounterAfter(d) \in 0 .. CYCLES - 1
    BY DEF CounterAfter, FullCounter, LineTypeOK, Debouncer
  <2>2. [k \in 0 .. 2 |-> IF k = 0 THEN level ELSE d.meta_sample[k - 1]] \in [0 .. 2 -> Bit]
    BY DEF LineTypeOK, Debouncer, Bit
  <2> QED
    BY <2>1, <2>2 DEF LineNext, Clocked, LineTypeOK, Debouncer, Bit
<1>2. recent' \in [1 .. Length -> Bit]
  BY DEF LineNext, LineTypeOK, Length, Delay
<1> QED
  BY <1>1, <1>2 DEF LineNext, LineTypeOK

(* The debouncer's registers keep their types.                             *)
THEOREM DebouncerTypeCorrect == LineSpec => []LineTypeOK
  BY LineTypeInit, LineTypeStep, PTL DEF LineSpec

-----------------------------------------------------------------------------
LEMMA HistoryInit == LineInit => HistoryInv
<1> SUFFICES ASSUME LineInit PROVE HistoryInv
  OBVIOUS
<1>1. /\ \A k \in 1 .. 3 : recent[k] = level
      /\ recent[4] = 0 /\ recent[Delay] = 0 /\ recent[Delay + 1] = 1
  BY DEF LineInit, Length, Delay
<1>2. PICK x \in Bit : d = AfterReset(level, x)
  BY DEF LineInit
<1>3. /\ \A k \in 0 .. 2 : d.meta_sample[k] = recent[k + 1]
      /\ d.in_reg = 0 /\ d.last_in_reg = 0 /\ d.counter = 0 /\ d.valid_out = 0
  BY <1>1, <1>2 DEF AfterReset
<1>4. ~ LineSteady
  BY <1>1 DEF LineSteady, Length, Delay
<1> QED
  BY <1>1, <1>3, <1>4 DEF HistoryInv, ValidIffSteady, Delay

LEMMA HistoryStep == LineTypeOK /\ HistoryInv /\ [LineNext]_lineVars => HistoryInv'
<1> SUFFICES ASSUME LineTypeOK, HistoryInv, LineNext PROVE HistoryInv'
  BY DEF lineVars, HistoryInv, ValidIffSteady, LineSteady
<1>c. d.counter \in 0 .. CYCLES - 1
  BY DEF LineTypeOK, Debouncer
<1>d. d' = Clocked(d, level)
  BY DEF LineNext
\* Where the compared registers stand in the new history.
<1>r. /\ recent'[Delay] = d.in_reg
      /\ recent'[Delay + 1] = d.last_in_reg
      /\ \A k \in Delay + 1 .. Length : recent'[k] = recent[k - 1]
  BY Shift DEF HistoryInv, Length, Delay
<1>1. (/\ \A k \in 0 .. 2 : d.meta_sample[k] = recent[k + 1]
       /\ d.in_reg = recent[4]
       /\ d.last_in_reg = recent[Delay])'
  BY <1>d, Shift DEF Clocked, HistoryInv, Length, Delay
<1>2. CASE ~ Stable(d)
  <2>1. recent'[Delay + 1] # recent'[Delay]
    BY <1>2, <1>r DEF Stable
  <2>2. d'.counter = 0 /\ d'.valid_out = 0
    BY <1>2, <1>d DEF Clocked, CounterAfter
  <2> QED
    BY <1>1, <2>1, <2>2 DEF HistoryInv, ValidIffSteady, LineSteady, Length, Delay
<1>3. CASE Stable(d)
  <2>1. \A k \in Delay .. Delay + 1 + d.counter : recent'[k] = recent'[Delay]
    BY <1>3, <1>c, <1>r DEF Stable, HistoryInv, Length, Delay
  <2>2. CASE FullCounter(d)
    <3>1. d.counter = CYCLES - 1 /\ d'.counter = d.counter /\ d'.valid_out = 1 /\ d'.out = d.in_reg
      BY <1>3, <1>c, <1>d, <2>2 DEF Clocked, CounterAfter, FullCounter
    <3>2. LineSteady'
      BY <2>1, <3>1 DEF LineSteady, Length, Delay
    <3> QED
      BY <1>1, <1>r, <2>1, <3>1, <3>2 DEF HistoryInv, ValidIffSteady, Delay
  <2>3. CASE ~ FullCounter(d)
    <3>1. d.counter < CYCLES - 1 /\ d'.counter = d.counter + 1 /\ d'.valid_out = 0
      BY <1>3, <1>c, <1>d, <2>3 DEF Clocked, CounterAfter, FullCounter
    <3>2. recent'[Delay + d.counter + 1] # recent'[Delay + d.counter + 2]
      BY <1>c, <1>r, <3>1 DEF HistoryInv, Length, Delay
    <3>3. ~ LineSteady'
      BY <1>c, <3>1, <3>2 DEF LineSteady, Length, Delay
    <3> QED
      BY <1>1, <1>c, <2>1, <3>1, <3>2, <3>3 DEF HistoryInv, ValidIffSteady, Delay
  <2> QED
    BY <2>2, <2>3
<1> QED
  BY <1>2, <1>3

(* The registers are the line's history and the counter the length of its  *)
(* last level; so a level is shown exactly while it has lasted.            *)
THEOREM DebouncerExact == LineSpec => []ValidIffSteady
<1>1. HistoryInv => ValidIffSteady
  BY DEF HistoryInv
<1> QED
  BY <1>1, HistoryInit, HistoryStep, DebouncerTypeCorrect, PTL DEF LineSpec

-----------------------------------------------------------------------------
(* The keyboard's bus side and the program.                                *)
USE DEF Event, Ack, Data

KbdInv == KbdTypeOK /\ ReadInv

LEMMA KbdInvInit == KbdInit => KbdInv
  BY DEF KbdInit, KbdInv, KbdTypeOK, ReadInv, BusInv, Logic, Word

\* The registers of the slave, whatever the master does.
LEMMA SlaveTypes ==
  ASSUME KbdTypeOK, Clock
  PROVE  /\ ps2_data_valid' \in Logic /\ ps2_data' \in Code
         /\ data_reg' \in Code /\ event_flag' \in Logic
         /\ irq_flag' \in Logic /\ irq' \in Logic
         /\ read_latency' \in Logic /\ s_readdata' \in Word
         /\ fresh' \subseteq Code
<1>1. ps2_data_valid' \in Logic /\ ps2_data' \in Code
  BY DEF Clock, Receiver, KbdTypeOK, Logic
<1>2. data_reg' \in Code /\ event_flag' \in Logic /\ read_latency' \in Logic
  BY DEF Clock, Slave, Latency, EventFlag, KbdTypeOK, Logic
<1>3. irq_flag' \in Logic /\ irq' \in Logic
  BY DEF Clock, Slave, Interrupt, KbdTypeOK, Logic
<1>4. s_readdata' \in Word
  BY DEF Clock, Slave, ReadData, KbdTypeOK, Word
<1>5. fresh' \subseteq Code
  BY DEF Clock, Fresh, KbdTypeOK
<1> QED
  BY <1>1, <1>2, <1>3, <1>4, <1>5

\* The program and the bus.
LEMMA MasterTypes ==
  ASSUME KbdInv, Master
  PROVE  /\ s_address' \in {Event, Ack, Data} /\ s_read' \in Logic /\ s_write' \in Logic
         /\ s_writedata' \in Logic
         /\ pc' \in {"away", "clear", "poll", "get"} /\ key' \in Code
<1>1. CASE Rest
  BY <1>1 DEF Rest, BusIdle, bus, KbdInv, KbdTypeOK, Logic
<1>2. CASE OtherAccess
  BY <1>2 DEF OtherAccess, BusWrite, KbdInv, KbdTypeOK, Logic
<1>3. CASE OtherDone
  BY <1>3 DEF OtherDone, BusIdle, KbdInv, KbdTypeOK, Logic
<1>4. CASE Call
  BY <1>4 DEF Call, BusWrite, KbdInv, KbdTypeOK, Logic
<1>5. CASE Cleared
  BY <1>5 DEF Cleared, BusIdle, KbdInv, KbdTypeOK, Logic
<1>6. CASE Poll
  BY <1>6 DEF Poll, BusRead, KbdInv, KbdTypeOK, Logic
<1>7. CASE Polled
  BY <1>7 DEF Polled, BusIdle, KbdInv, KbdTypeOK, Logic
<1>8. CASE Get
  BY <1>8 DEF Get, BusRead, KbdInv, KbdTypeOK, Logic
<1>9. CASE Return
  <2>1. read_latency = 1
    BY <1>9 DEF Return, Wait, KbdInv, KbdTypeOK, Logic
  <2>2. key' \in Code   \* the word in the second clock is a code
    BY <1>9, <2>1 DEF Return, KbdInv, KbdTypeOK, ReadInv
  <2> QED
    BY <1>9, <2>2 DEF Return, BusIdle, KbdInv, KbdTypeOK, Logic
<1> QED
  BY <1>1, <1>2, <1>3, <1>4, <1>5, <1>6, <1>7, <1>8, <1>9 DEF Master, WaitPs2Key

\* A read in its first clock is held by the master.
LEMMA WaitHolds ==
  ASSUME KbdInv, Master, Wait
  PROVE  UNCHANGED <<bus, pc, key>>
  BY DEF Master, WaitPs2Key, Rest, OtherAccess, OtherDone, Call, Cleared, Poll, Polled, Get,
         Return, Wait, Idle, bus, KbdInv, ReadInv, BusInv

LEMMA BusStep ==
  ASSUME KbdInv, Clock, Master
  PROVE  BusInv'
<1> USE DEF KbdInv, ReadInv, BusInv
<1>1. read_latency' = 1 => s_read = 1 /\ read_latency = 0
  BY DEF Clock, Slave, Latency, KbdTypeOK, Logic
<1>2. pc = "poll" \/ pc = "get" => (event_flag = 1 => event_flag' = 1)
  BY DEF Clock, Slave, EventFlag, Writes
<1>3. CASE Wait
  BY <1>2, <1>3, WaitHolds DEF bus, Wait
<1>4. CASE ~ Wait
  <2>1. read_latency' = 0
    BY <1>1, <1>4, SlaveTypes DEF Wait, Logic
  <2>2. CASE Rest
    BY <1>2, <1>4, <2>1, <2>2 DEF Rest, BusIdle, Idle
  <2>3. CASE OtherAccess \/ OtherDone
    BY <2>1, <2>3 DEF OtherAccess, OtherDone, BusWrite, BusIdle
  <2>4. CASE Call \/ Cleared
    BY <2>1, <2>4 DEF Call, Cleared, BusWrite, BusIdle
  <2>5. CASE Poll \/ Get
    BY <1>2, <2>1, <2>5 DEF Poll, Get, BusRead
  <2>6. CASE Polled
    <3>1. read_latency = 1
      BY <2>6 DEF Polled, Wait, KbdTypeOK, Logic
    <3>2. s_readdata[1] = 1 => event_flag = 1
      BY <2>6, <3>1 DEF Polled, KbdTypeOK, Logic
    <3> QED
      BY <1>2, <2>1, <2>6, <3>2 DEF Polled, BusIdle
  <2>7. CASE Return
    BY <2>1, <2>7 DEF Return, BusIdle
  <2> QED
    BY <2>2, <2>3, <2>4, <2>5, <2>6, <2>7 DEF Master, WaitPs2Key
<1> QED
  BY <1>3, <1>4

\* A word on its way is what a code since the last clearing write left.
LEMMA ReadStep ==
  ASSUME KbdInv, Clock, Master
  PROVE  ReadInv'
<1> USE DEF KbdInv, ReadInv, BusInv
<1>1. (event_flag = 1 <=> fresh # {})'
  BY DEF Clock, Slave, EventFlag, Fresh, KbdTypeOK, Logic
<1>2. (event_flag = 1 => data_reg \in fresh)'
  BY DEF Clock, Slave, EventFlag, Fresh, KbdTypeOK, Logic
<1>3. ASSUME read_latency' = 1, pc' = "poll" \/ pc' = "get"
      PROVE  /\ s_read = 1 /\ pc' = pc /\ s_write = 0
             /\ event_flag <= event_flag' /\ fresh \subseteq fresh'
  <2>1. Wait
    BY <1>3 DEF Clock, Slave, Latency, Wait, KbdTypeOK, Logic
  <2>2. pc' = pc /\ s_write = 0
    BY <1>3, <2>1, WaitHolds
  <2> QED
    BY <2>1, <2>2 DEF Wait, Clock, Slave, EventFlag, Fresh, Writes, KbdTypeOK, Logic
<1>4. (read_latency = 1 /\ pc = "poll" => s_readdata \in (0 .. event_flag) \X Logic)'
  <2> SUFFICES ASSUME read_latency' = 1, pc' = "poll"
               PROVE  s_readdata' \in (0 .. event_flag') \X Logic
    OBVIOUS
  <2>1. s_readdata' = <<event_flag, irq_flag>>
    BY <1>3 DEF Clock, Slave, ReadData
  <2>2. event_flag \in 0 .. event_flag' /\ irq_flag \in Logic
    BY <1>3, SlaveTypes DEF KbdTypeOK, Logic
  <2> QED
    BY <2>1, <2>2
<1>5. (read_latency = 1 /\ pc = "get" => s_readdata \in fresh)'
  <2> SUFFICES ASSUME read_latency' = 1, pc' = "get" PROVE s_readdata' \in fresh'
    OBVIOUS
  <2>1. s_readdata' = data_reg
    BY <1>3 DEF Clock, Slave, ReadData
  <2> QED
    BY <1>3, <2>1
<1> QED
  BY <1>1, <1>2, <1>4, <1>5, BusStep

LEMMA KbdInvStep == KbdInv /\ [KbdNext]_kbdVars => KbdInv'
<1> SUFFICES ASSUME KbdInv, [KbdNext]_kbdVars PROVE KbdInv'
  OBVIOUS
<1>1. CASE KbdNext
  BY <1>1, SlaveTypes, MasterTypes, ReadStep DEF KbdNext, KbdInv, KbdTypeOK
<1>2. CASE UNCHANGED kbdVars
  BY <1>2 DEF kbdVars, slaveRegs, bus, KbdInv, KbdTypeOK, ReadInv, BusInv
<1> QED
  BY <1>1, <1>2

LEMMA KbdInvariant == KbdSpec => []KbdInv
  BY KbdInvInit, KbdInvStep, PTL DEF KbdSpec

(* The registers keep their types: the program never returns an event word *)
(* for a code.                                                             *)
THEOREM KeyboardTypeCorrect == KbdSpec => []KbdTypeOK
  BY KbdInvariant, PTL DEF KbdInv

(* What the program reads is the register it addressed, and an event bit   *)
(* always stands for a code that came after the clearing write.            *)
THEOREM ReadsAreCurrent == KbdSpec => []ReadInv
  BY KbdInvariant, PTL DEF KbdInv

(* wait_ps2_key returns a key that was pressed after it was called.        *)
THEOREM KeyIsFresh == KbdSpec => ReturnsFreshKey
<1>1. KbdInv /\ [KbdNext]_kbdVars => [Return => key' \in fresh]_kbdVars
  <2> SUFFICES ASSUME KbdInv, Return PROVE key' \in fresh
    OBVIOUS
  <2> QED
    BY DEF Return, Wait, KbdInv, KbdTypeOK, ReadInv, Logic
<1> QED
  BY <1>1, KbdInvariant, PTL DEF KbdSpec, ReturnsFreshKey

-----------------------------------------------------------------------------
(* The PWM of the Cyclone III radio.                                       *)
LEMMA Difference ==
  ASSUME NEW n \in Nat, NEW a \in 0 .. n - 1, NEW b \in 0 .. n - 1, a > b
  PROVE  a - b \in 0 .. n
  OBVIOUS

USE LevelsAssumption DEF Half, Level, Sample

\* What the registers do modulo the width.
LEMMA CounterWraps ==
  ASSUME NEW n \in Level
  PROVE  (n + 1) % LEVELS = IF n = LEVELS - 1 THEN 0 ELSE n + 1
  OBVIOUS

LEMMA OffsetFits ==
  ASSUME NEW x \in Sample
  PROVE  (x + Half) % LEVELS = x + Half /\ x + Half \in Level
  OBVIOUS

IInv ==
  /\ OutputTypeOK
  /\ DutyInv
  /\ pwm_counter > 0 => /\ compare_reg = playing   \* no change within a period
                    /\ pwm_out = IF pwm_counter - 1 > playing THEN 1 ELSE 0

LEMMA IInvInit == OutputInit => IInv
  BY DEF OutputInit, PwmInit, IInv, OutputTypeOK, DutyInv, Shown

LEMMA IInvStep == IInv /\ [OutputNext]_outputVars => IInv'
<1> SUFFICES ASSUME IInv, [OutputNext]_outputVars PROVE IInv'
  OBVIOUS
<1>1. CASE OutputNext
  <2>1. pwm_counter' = IF pwm_counter = LEVELS - 1 THEN 0 ELSE pwm_counter + 1
    BY <1>1, CounterWraps DEF OutputNext, PwmStep, PwmClock, IInv, OutputTypeOK
  <2>2. pwm_data_reg' \in Level
    BY <1>1, OffsetFits DEF OutputNext, PwmStep, PwmClock, TakeSample, IInv, OutputTypeOK
  <2>3. compare_reg' \in Level /\ playing' \in Level
    BY <1>1 DEF OutputNext, PwmStep, PwmClock, Load, IInv, OutputTypeOK
  <2>5. pwm_out' = IF pwm_counter > playing' THEN 1 ELSE 0
    BY <1>1 DEF OutputNext, PwmStep, PwmClock, Drive, IInv, OutputTypeOK
  <2>4. pwm_counter' > 0 => /\ compare_reg' = playing'
                        /\ pwm_out' = IF pwm_counter' - 1 > playing' THEN 1 ELSE 0
    BY <1>1, <2>1, <2>5 DEF OutputNext, PwmStep, PwmClock, Load, IInv, OutputTypeOK
  <2>6. Shown' = pwm_counter + 1
    BY <2>1 DEF Shown, IInv, OutputTypeOK
  <2>7. DutyInv'
    <3>1. CASE pwm_counter = 0
      BY <1>1, <2>3, <2>5, <2>6, <3>1 DEF OutputNext, PwmStep, DutyInv
    <3>2. CASE pwm_counter > 0
      <4>1. /\ pwm_counter \in Nat /\ playing \in Nat
            /\ high = IF pwm_counter - 1 > playing THEN pwm_counter - 1 - playing ELSE 0
        BY <3>2 DEF DutyInv, Shown, IInv, OutputTypeOK
      <4>2. playing' = playing /\ high' = pwm_out' + high
        BY <1>1, <3>2 DEF OutputNext, PwmStep
      <4> QED
        BY <2>5, <2>6, <3>2, <4>1, <4>2 DEF DutyInv
    <3> QED
      BY <3>1, <3>2 DEF IInv, OutputTypeOK
  <2>8. high' \in 0 .. LEVELS
    <3>1. pwm_counter \in 0 .. LEVELS - 1 /\ playing' \in 0 .. LEVELS - 1
      BY <2>3 DEF IInv, OutputTypeOK
    <3>2. high' = IF pwm_counter > playing' THEN pwm_counter - playing' ELSE 0
      BY <2>6, <2>7, <3>1 DEF DutyInv
    <3>3. CASE pwm_counter > playing'
      BY <3>1, <3>2, <3>3, Difference
    <3>4. CASE ~ (pwm_counter > playing')
      BY <3>2, <3>4
    <3> QED
      BY <3>3, <3>4
  <2>9. data_valid' \in {0, 1} /\ data' \in Sample /\ pwm_out' \in {0, 1}
    BY <1>1, <2>5 DEF OutputNext, PwmStep, Inputs
  <2> QED
    BY <2>1, <2>2, <2>3, <2>4, <2>7, <2>8, <2>9 DEF IInv, OutputTypeOK
<1>2. CASE UNCHANGED outputVars
  BY <1>2 DEF outputVars, pwmRegs, IInv, OutputTypeOK, DutyInv, Shown
<1> QED
  BY <1>1, <1>2

LEMMA Invariant == OutputSpec => []IInv
  BY IInvInit, IInvStep, PTL DEF OutputSpec

(* The registers keep their types: the offset loses no sample.             *)
THEOREM PwmTypeCorrect == OutputSpec => []OutputTypeOK
  BY Invariant, PTL DEF IInv

(* A period has exactly the duty of the level it began with.               *)
THEOREM DutyIsExact == OutputSpec => []DutyInv
  BY Invariant, PTL DEF IInv

(* The output falls only at the start of a period.                         *)
THEOREM OneFallPerPeriod == OutputSpec => NoGlitch
<1>1. IInv /\ [OutputNext]_outputVars => [pwm_out = 1 /\ pwm_out' = 0 => pwm_counter = 0]_outputVars
  <2> SUFFICES ASSUME IInv, OutputNext, pwm_out = 1, pwm_out' = 0, pwm_counter # 0 PROVE FALSE
    OBVIOUS
  <2> QED
    BY DEF OutputNext, PwmStep, PwmClock, Drive, IInv, OutputTypeOK
<1> QED
  BY <1>1, Invariant, PTL DEF OutputSpec, NoGlitch
=============================================================================
