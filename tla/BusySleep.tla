------------------------------ MODULE BusySleep ------------------------------
(***************************************************************************)
(* usleep() without a timer (alt_usleep.c, alt_busy_sleep.c): a loop that  *)
(* takes a known number of cycles, turned often enough.  What counts is    *)
(* how often: the number of times the two instructions are executed.       *)
(***************************************************************************)
EXTENDS Integers

CONSTANTS INT_MAX,    \* 2^31 - 1
          PER_US,     \* ALT_CPU_FREQ / (cycles_per_loop * 1000000); 13 here
          RELOADS,    \* the compiler loads INT_MAX again for every big loop: it is
                      \* not told that the loop has counted the register down
          Sleeps      \* what usleep() is called with

ASSUME SleepAssumption ==
  /\ PER_US \in 1 .. INT_MAX /\ INT_MAX \in Nat
  /\ RELOADS \in BOOLEAN /\ Sleeps \subseteq 0 .. 2 * INT_MAX + 1

BigLoop       == INT_MAX \div PER_US   \* microseconds in a big loop, as they are counted
big_loops(us) == us \div BigLoop

\* Down to zero: by way of every other number when it starts there.
UntilZero(n)     == IF n = 0 THEN 2 * (INT_MAX + 1) ELSE n
WhilePositive(n) == IF n = 0 THEN 1 ELSE n

Rest_whole(us) == us   \* mutant: the big loops are not taken off
Rest(us)       == us - big_loops(us) * BigLoop

alt_busy_sleep(us) ==
  LET big == big_loops(us)
  IN  IF big = 0 THEN WhilePositive(us * PER_US)
      ELSE UntilZero(INT_MAX)
           + (big - 1) * UntilZero(IF RELOADS THEN INT_MAX ELSE 0)
           + UntilZero((Rest(us) * PER_US) % (2 * (INT_MAX + 1)))

VARIABLES asked,   \* the last sleep
          turns    \* how often its loops went round

sleepVars == <<asked, turns>>

SleepInit == asked = 0 /\ turns = 0

ALT_USLEEP == \E us \in Sleeps : asked' = us /\ turns' = alt_busy_sleep(us)

-----------------------------------------------------------------------------
\* A sleep that is not a whole number of big loops is as long as it was asked
\* to be, on either side of the length that takes two loops, and longer by at
\* most a microsecond for every big loop.
SleepsAsAsked ==
  asked % BigLoop # 0 => turns \in asked * PER_US .. (asked + big_loops(asked)) * PER_US

===============================================================================
