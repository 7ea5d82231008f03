------------------------------- MODULE SdrMain -------------------------------
(***************************************************************************)
(* The control program of the radio, sdr/sdr.c: it reports the settings on *)
(* the console, writes them to the phase increment and the CIC gain        *)
(* registers, waits for a key and applies it.                              *)
(*                                                                         *)
(* Characters go to the driver one by one; the fixed texts count as one.   *)
(* The commented-out PS/2 variant of the loop is not modelled.             *)
(***************************************************************************)
EXTENDS SmallJtag

CONSTANTS KHZ,          \* 1000
          PLL_FREQ,     \* 100000000
          PHASE_WORD,   \* 2^32, the span of the phase register
          FREQ0,        \* 1278000
          STEP0, GAIN0, \* 9 and 4
          GAIN_MAX,     \* 8
          StepKeys,     \* "1" to "9"
          TYPED         \* bound: how many keys the operator types in all

ASSUME SdrAssumption ==
  /\ KHZ \in Nat \ {0} /\ PLL_FREQ \in Nat \ {0} /\ PHASE_WORD \in Nat \ {0}
  /\ FREQ0 \in Nat /\ GAIN0 \in 0 .. GAIN_MAX /\ STEP0 \in Nat
  /\ GAIN_MAX \in 0 .. 15   \* what the register holds
  /\ StepKeys \subseteq {"1", "2", "3", "4", "5", "6", "7", "8", "9"}

VARIABLES pc,          \* what the loop of main() does next
          out,         \* what it still has to print before that
          freq, gain, freq_step,
          PHASE_INCREMENT, CIC_GAIN,   \* the PIO registers
          typed                        \* history: how many keys were typed

sdrVars == <<pc, out, freq, gain, freq_step, PHASE_INCREMENT, CIC_GAIN, typed>>

Digit    == <<"0", "1", "2", "3", "4", "5", "6", "7", "8", "9">>
Value(c) == (CHOOSE i \in DOMAIN Digit : Digit[i] = c) - 1
Keys     == {"+", "-", "g", "?"} \cup StepKeys

-----------------------------------------------------------------------------
(* print_dec writes the digits backwards, a comma after every third, and   *)
(* takes a comma that ends up in front away again.                         *)
Backwards[p \in Nat \X Nat] ==   \* p: what is left to write, and the digits so far
  IF p[1] = 0 THEN << >>
  ELSE <<Digit[(p[1] % 10) + 1]>> \o (IF (p[2] + 1) % 3 = 0 THEN <<",">> ELSE << >>)
                  \o Backwards[<<p[1] \div 10, p[2] + 1>>]

print_dec_untrimmed(x) ==   \* mutant: the comma in front stays
  IF x = 0 THEN <<"0">> ELSE IF x < 0 THEN <<"-">> ELSE Reverse(Backwards[<<x, 0>>])

print_dec(x) ==
  IF x = 0 THEN <<"0">>
  ELSE IF x < 0 THEN <<"-">>
  ELSE LET r == Backwards[<<x, 0>>]
       IN  Reverse(IF Last(r) = "," THEN Front(r) ELSE r)

\* One line for each; the end of a line is left out but for the last.
Report == alt_putstr("PLL")  \o print_dec(PLL_FREQ)        \o
          alt_putstr("FREQ") \o print_dec(freq)            \o
          alt_putstr("STEP") \o print_dec(freq_step * KHZ) \o
          alt_putstr("GAIN") \o print_dec(gain)            \o alt_printf(<<"\n">>, << >>)

\* (freq * pow(2, 32)) / PLL_FREQ, cut towards zero when it becomes a long.
get_phase(f) ==
  IF f >= 0 THEN (f * PHASE_WORD) \div PLL_FREQ ELSE - ((- f * PHASE_WORD) \div PLL_FREQ)

\* What the gain register keeps of a value: four bits.
Nibble(g) == g % 16

-----------------------------------------------------------------------------
SdrInit ==
  /\ pc = "report" /\ out = alt_putstr("BANNER")
  /\ freq = FREQ0 /\ gain = GAIN0 /\ freq_step = STEP0
  /\ PHASE_INCREMENT = 0 /\ CIC_GAIN = 0
  /\ typed = 0

StartReport ==
  /\ pc = "report"
  /\ out' = out \o Report
  /\ pc' = "print"
  /\ UNCHANGED <<freq, gain, freq_step, PHASE_INCREMENT, CIC_GAIN, typed,
                 txfifo, rxfifo, console>>

PrintNext ==
  /\ pc = "print" /\ out # << >>
  /\ alt_putchar(Head(out))
  /\ out' = Tail(out)
  /\ UNCHANGED <<pc, freq, gain, freq_step, PHASE_INCREMENT, CIC_GAIN, typed,
                 rxfifo, console>>

Tune ==
  /\ pc = "print" /\ out = << >>
  /\ PHASE_INCREMENT' = get_phase(freq)
  /\ pc' = "gain"
  /\ UNCHANGED <<out, freq, gain, freq_step, CIC_GAIN, typed, txfifo, rxfifo, console>>

Amplify ==
  /\ pc = "gain"
  /\ CIC_GAIN' = Nibble(gain)
  /\ pc' = "getchar"
  /\ UNCHANGED <<out, freq, gain, freq_step, PHASE_INCREMENT, typed, txfifo, rxfifo, console>>

NewFreq(key) == IF key = "+" THEN freq + freq_step * KHZ
                ELSE IF key = "-" THEN freq - freq_step * KHZ ELSE freq
NewGain(key) == IF key # "g" THEN gain ELSE IF gain = GAIN_MAX THEN 0 ELSE gain + 1
NewStep(key) == IF key \in StepKeys THEN Value(key) ELSE freq_step

GetKey_quiet ==   \* mutant: goes straight for the next key
  /\ pc = "getchar"
  /\ \E key \in Keys :
       /\ alt_getchar(key)
       /\ freq' = NewFreq(key) /\ gain' = NewGain(key) /\ freq_step' = NewStep(key)
  /\ UNCHANGED <<pc, out, PHASE_INCREMENT, CIC_GAIN, typed, txfifo, console>>

GetKey ==
  /\ pc = "getchar"
  /\ \E key \in Keys :
       /\ alt_getchar(key)
       /\ freq' = NewFreq(key) /\ gain' = NewGain(key) /\ freq_step' = NewStep(key)
  /\ pc' = "report"
  /\ UNCHANGED <<out, PHASE_INCREMENT, CIC_GAIN, typed, txfifo, console>>

\* The host: the console keeps what was shown since the last report began.
Latest(text) == IF Last(text) = "PLL" THEN <<"PLL">> ELSE text

SdrHostTake == HostTake(Latest(Arriving)) /\ UNCHANGED <<sdrVars, rxfifo>>

SdrHostType ==
  /\ typed < TYPED /\ typed' = typed + 1
  /\ \E key \in Keys : rxfifo' = Append(rxfifo, key)
  /\ UNCHANGED <<pc, out, freq, gain, freq_step, PHASE_INCREMENT, CIC_GAIN, txfifo, console>>

SdrStep == StartReport \/ PrintNext \/ Tune \/ Amplify \/ GetKey

-----------------------------------------------------------------------------
(* Reading the report back: the digits after a label, grouped in threes.   *)
Labels == {"PLL", "FREQ", "STEP", "GAIN", "\n"}
Field(text, label) ==
  LET from == (CHOOSE i \in DOMAIN text : text[i] = label) + 1
      to   == CHOOSE i \in from .. Len(text) :
                text[i] \in Labels /\ \A k \in from .. i - 1 : text[k] \notin Labels
  IN  SubSeq(text, from, to - 1)

Grouped(field) ==
  \A i \in DOMAIN field : (field[i] = ",") <=> (i > 1 /\ (Len(field) - i) % 4 = 3)

Reading(field) ==
  FoldLeft(LAMBDA n, c : IF c = "," THEN n ELSE 10 * n + Value(c), 0, field)

Shows(text, label, n) ==
  LET field == Field(text, label)
  IN  IF n < 0 THEN field = <<"-">>   \* the digits of a negative number are missing
      ELSE field # << >> /\ Grouped(field) /\ Reading(field) = n

\* While main() waits for a key, the registers hold the settings, and what is
\* on the console or on its way there can be read back as the settings: a
\* screen that says one frequency while the mixer runs at another would need
\* a report and a register write that straddle a key.
Settled(text) ==
  /\ Shows(text, "PLL", PLL_FREQ) /\ Shows(text, "FREQ", freq)
  /\ Shows(text, "STEP", freq_step * KHZ) /\ Shows(text, "GAIN", gain)
  /\ PHASE_INCREMENT = get_phase(freq) /\ CIC_GAIN = gain

SdrInv ==
  /\ pc \in {"report", "print", "gain", "getchar"}
  /\ Len(txfifo) <= DEPTH /\ gain \in 0 .. GAIN_MAX
  /\ pc = "getchar" =>
       LET sent == console \o txfifo
           last == CHOOSE i \in DOMAIN sent :
                     sent[i] = "PLL" /\ \A k \in i + 1 .. Len(sent) : sent[k] # "PLL"
       IN  Settled(SubSeq(sent, last, Len(sent)))

===============================================================================
