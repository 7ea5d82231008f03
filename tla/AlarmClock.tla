----------------------------- MODULE AlarmClock -----------------------------
(***************************************************************************)
(* The system clock of the HAL: the tick interrupt and its list of alarms  *)
(* (HAL/src/alt_tick.c, alt_alarm_start.c, HAL/inc/sys/alt_llist.h), and   *)
(* the time of day that is computed from the tick counter (alt_gettod.c,   *)
(* alt_settod.c, alt_times.c).                                             *)
(*                                                                         *)
(* alt_tick() runs in the interrupt and walks the list one alarm at a      *)
(* time; each callback may start or stop alarms, so every visit is a step. *)
(* The program's calls disable interrupts while they touch the list: each  *)
(* is one step, between two ticks.  Counters are words of WORD values.     *)
(***************************************************************************)
EXTENDS Integers, FiniteSets

CONSTANTS WORD,      \* 2^32: the values of an alt_u32
          ALT_US,    \* microseconds in a second
          RATE,      \* the tick rate the clock driver announces
          Alarms,    \* the alarm structures of the program
          HEAD,      \* the list head alt_alarm_list
          NULL,      \* the links of a structure never registered
          Delays,    \* the ticks passed to alt_alarm_start
          Periods,   \* what callbacks return, other than zero
          Seconds, MicroSeconds, Zones,   \* what is passed to settimeofday
          StopsNext  \* whether a callback may stop the alarm after its own

ASSUME WordAssumption == WORD \in Nat /\ WORD > 2
ASSUME RateAssumption == ALT_US \in Nat /\ RATE \in 1 .. ALT_US
ASSUME TimesAssumption == Seconds \subseteq Nat /\ MicroSeconds \subseteq Nat
ASSUME PeriodAssumption ==
  /\ Delays \subseteq 0 .. WORD - 2      \* at WORD - 1 the sum comes round to now
  /\ Periods \subseteq 1 .. WORD - 1
ASSUME NodesAssumption ==
  HEAD \notin Alarms /\ NULL \notin Alarms \cup {HEAD} /\ IsFiniteSet(Alarms)

VARIABLES tick_rate,   \* _alt_tick_rate: 0 until the driver announces it
          nticks,      \* _alt_nticks
          links,       \* the next and previous pointers of HEAD and the alarms
          time,        \* alt_alarm_s.time
          rollover,    \* alt_alarm_s.rollover
          ticking,     \* alt_tick() is running
          alarm,       \* its cursor
          resettime,   \* alt_resettime and alt_timezone
          errno,
          due          \* history: ticks until the alarm is to go off

list  == <<links, time, rollover>>
vars  == <<tick_rate, nticks, list, ticking, alarm, resettime, errno, due>>

Nodes == Alarms \cup {HEAD}

Init ==
  /\ tick_rate = 0
  /\ nticks = 0
  /\ links = LET pointers == [x \in Nodes |-> IF x = HEAD THEN HEAD ELSE NULL]
             IN  [next |-> pointers, previous |-> pointers]
  /\ time = [a \in Alarms |-> 0]
  /\ rollover = [a \in Alarms |-> FALSE]
  /\ ticking = FALSE
  /\ alarm = HEAD
  /\ resettime = [sec |-> 0, usec |-> 0, tz |-> 0]
  /\ errno = "none"
  /\ due = [a \in Alarms |-> 0]

-----------------------------------------------------------------------------
(* The doubly linked list.                                                 *)
alt_llist_insert(l, e) ==
  LET first == l.next[HEAD]
  IN  [next     |-> [l.next EXCEPT ![e] = first, ![HEAD] = e],
       previous |-> [l.previous EXCEPT ![e] = HEAD, ![first] = e]]

\* e ends pointing to itself, so that removing it again is harmless.
alt_llist_remove(l, e) ==
  LET n == l.next[e]
      p == l.previous[e]
  IN  [next     |-> [l.next EXCEPT ![p] = n, ![e] = e],
       previous |-> [l.previous EXCEPT ![n] = p, ![e] = e]]

Registered == {a \in Alarms : links.next[a] \notin {a, NULL}}

-----------------------------------------------------------------------------
(* What the program and the callbacks may do to the list, as functions on  *)
(* a record of what they change.                                           *)
Clock == [links |-> links, time |-> time, rollover |-> rollover, due |-> due]

Commit(c) ==
  /\ links' = c.links
  /\ time' = c.time
  /\ rollover' = c.rollover
  /\ due' = c.due

alt_alarm_start_early(c, a, n) ==   \* mutant: forgets the roll-over
  [links    |-> alt_llist_insert(c.links, a),
   time     |-> [c.time EXCEPT ![a] = (n + nticks + 1) % WORD],
   rollover |-> [c.rollover EXCEPT ![a] = FALSE],
   due      |-> [c.due EXCEPT ![a] = n + 1]]

alt_alarm_start(c, a, n) ==
  LET t == (n + nticks + 1) % WORD
  IN  [links    |-> alt_llist_insert(c.links, a),
       time     |-> [c.time EXCEPT ![a] = t],
       rollover |-> [c.rollover EXCEPT ![a] = t < nticks],
       due      |-> [c.due EXCEPT ![a] = n + 1]]

alt_alarm_stop(c, a) == [c EXCEPT !.links = alt_llist_remove(@, a), !.due[a] = 0]

\* alt_tick() on return of the callback of a.
Again(c, a, next_callback) ==
  IF next_callback = 0 THEN alt_alarm_stop(c, a)
  ELSE LET t == (c.time[a] + next_callback) % WORD
       IN  [c EXCEPT !.time[a] = t,
                     !.rollover[a] = @ \/ t < nticks,
                     !.due[a] = next_callback]

\* What the callback of a may do: nothing, stop itself or another alarm, or
\* start one that is not registered.
Callback(c, a) ==
  {c} \cup {alt_alarm_stop(c, b) : b \in {b \in Registered : b = links.next[a] => StopsNext}}
      \cup {alt_alarm_start(c, b, n) : b \in Alarms \ Registered, n \in Delays}

-----------------------------------------------------------------------------
(* The interrupt.                                                          *)
TickBegin ==
  /\ tick_rate # 0
  /\ ~ ticking
  /\ ticking' = TRUE
  /\ nticks' = (nticks + 1) % WORD
  /\ alarm' = links.next[HEAD]
  /\ due' = [a \in Alarms |-> IF a \in Registered THEN due[a] - 1 ELSE due[a]]
  /\ UNCHANGED <<tick_rate, list, resettime, errno>>

Held(a)    == rollover[a] /\ nticks # 0
Expired(a) == time[a] <= nticks /\ ~ Held(a)

TickWait ==   \* an alarm that has not expired
  /\ ticking /\ alarm # HEAD
  /\ ~ Expired(alarm)
  /\ rollover' = [rollover EXCEPT ![alarm] = Held(alarm)]
  /\ alarm' = links.next[alarm]
  /\ UNCHANGED <<tick_rate, nticks, links, time, ticking, resettime, errno, due>>

TickFire_reread ==   \* mutant: takes the next alarm after the callback
  /\ ticking /\ alarm # HEAD
  /\ Expired(alarm)
  /\ \E c \in Callback([Clock EXCEPT !.rollover[alarm] = FALSE], alarm),
        next_callback \in {0} \cup Periods :
       /\ Commit(Again(c, alarm, next_callback))
       /\ alarm' = links'.next[alarm]
  /\ UNCHANGED <<tick_rate, nticks, ticking, resettime, errno>>

TickFire ==   \* one that has: the next is taken before the callback runs
  /\ ticking /\ alarm # HEAD
  /\ Expired(alarm)
  /\ \E c \in Callback([Clock EXCEPT !.rollover[alarm] = FALSE], alarm),
        next_callback \in {0} \cup Periods : Commit(Again(c, alarm, next_callback))
  /\ alarm' = links.next[alarm]
  /\ UNCHANGED <<tick_rate, nticks, ticking, resettime, errno>>

TickEnd ==
  /\ ticking /\ alarm = HEAD
  /\ ticking' = FALSE
  /\ UNCHANGED <<tick_rate, nticks, list, alarm, resettime, errno, due>>

-----------------------------------------------------------------------------
(* The program, between two interrupts.                                    *)
alt_sysclk_init ==
  /\ tick_rate = 0
  /\ tick_rate' = RATE
  /\ UNCHANGED <<nticks, list, ticking, alarm, resettime, errno, due>>

Start(a) ==   \* without a clock it returns -ENOTSUP
  /\ ~ ticking
  /\ tick_rate # 0
  /\ a \notin Registered
  /\ \E n \in Delays : Commit(alt_alarm_start(Clock, a, n))
  /\ UNCHANGED <<tick_rate, nticks, ticking, alarm, resettime, errno>>

Stop(a) ==   \* also of an alarm that has stopped by itself
  /\ ~ ticking
  /\ links.next[a] # NULL
  /\ Commit(alt_alarm_stop(Clock, a))
  /\ UNCHANGED <<tick_rate, nticks, ticking, alarm, resettime, errno>>

UsPerTick == ALT_US \div tick_rate

ALT_SETTIMEOFDAY_early(t) ==   \* mutant: keeps the fraction of the second
  /\ ~ ticking
  /\ IF tick_rate = 0
       THEN errno' = "ENOSYS" /\ UNCHANGED resettime
       ELSE /\ resettime' = [sec |-> t.sec - (nticks \div tick_rate), usec |-> t.usec, tz |-> t.tz]
            /\ UNCHANGED errno
  /\ UNCHANGED <<tick_rate, nticks, list, ticking, alarm, due>>

\* The product of settimeofday is a word, that of gettimeofday twice as wide.
ALT_SETTIMEOFDAY(t) ==
  /\ ~ ticking
  /\ IF tick_rate = 0
       THEN errno' = "ENOSYS" /\ UNCHANGED resettime
       ELSE /\ resettime' = [sec  |-> t.sec - (nticks \div tick_rate),
                             usec |-> t.usec - (((nticks * UsPerTick) % WORD) % ALT_US),
                             tz   |-> t.tz]
            /\ UNCHANGED errno
  /\ UNCHANGED <<tick_rate, nticks, list, ticking, alarm, due>>

\* In microseconds, after the two loops that bring tv_usec into range; a time
\* before zero is read as zero.
ALT_GETTIMEOFDAY ==
  LET usec  == resettime.usec + ((nticks * UsPerTick) % ALT_US)
      total == (resettime.sec + (nticks \div tick_rate)) * ALT_US + usec
  IN  IF usec < 0 /\ total < 0 THEN 0 ELSE total

ALT_TIMES ==
  /\ ~ ticking
  /\ errno' = IF tick_rate = 0 THEN "ENOSYS" ELSE errno
  /\ UNCHANGED <<tick_rate, nticks, list, ticking, alarm, resettime, due>>

Tick    == TickBegin \/ TickWait \/ TickFire \/ TickEnd
Times == [sec : Seconds, usec : MicroSeconds, tz : Zones]

Program == \/ alt_sysclk_init \/ ALT_TIMES
           \/ \E a \in Alarms : Start(a) \/ Stop(a)
           \/ \E t \in Times : ALT_SETTIMEOFDAY(t)

Next == Tick \/ Program

Spec     == Init /\ [][Next]_vars
FairSpec == Spec /\ WF_vars(Tick)   \* the timer runs and its interrupt is served

-----------------------------------------------------------------------------
TypeOK ==
  /\ tick_rate \in {0, RATE}
  /\ nticks \in 0 .. WORD - 1
  /\ links \in [next : [Nodes -> Nodes \cup {NULL}], previous : [Nodes -> Nodes \cup {NULL}]]
  /\ time \in [Alarms -> 0 .. WORD - 1]
  /\ rollover \in [Alarms -> BOOLEAN]
  /\ ticking \in BOOLEAN
  /\ alarm \in Nodes
  /\ resettime.sec \in Int /\ resettime.usec \in Int
  /\ due \in [Alarms -> 0 .. WORD - 1]

\* The node n links after the head.
After[n \in 0 .. Cardinality(Alarms) + 1] == IF n = 0 THEN HEAD ELSE links.next[After[n - 1]]

\* The list is one ring through the head and the registered alarms.
ListInv ==
  /\ {After[n] : n \in 0 .. Cardinality(Registered)} = Registered \cup {HEAD}
  /\ After[Cardinality(Registered) + 1] = HEAD
  /\ \A x \in Registered \cup {HEAD} : links.previous[links.next[x]] = x

(* Between two ticks every registered alarm is still to come, at the tick  *)
(* its time names in a counter that wraps, and its roll-over flag says     *)
(* whether that tick is on the other side of the wrap: none has gone off   *)
(* early, none has been missed, whatever the callbacks did to the list     *)
(* the interrupt was walking.                                              *)
AlarmInv ==
  /\ TypeOK
  /\ ListInv
  /\ ~ ticking => \A a \in Registered :
       /\ due[a] > 0
       /\ time[a] = (nticks + due[a]) % WORD
       /\ rollover[a] = (nticks + due[a] >= WORD)

(* The interrupt returns, whatever alarms its callbacks start and stop.    *)
TickReturns == ticking ~> ~ ticking

\* The counter has not come so far that the product of settimeofday wraps.
Fits == nticks * UsPerTick < WORD

\* Since the time was set the counter has not wrapped.
NotLost == resettime.sec * ALT_US + resettime.usec + nticks * UsPerTick >= 0

(* "An immediate call to gettimeofday() would return the value specified"  *)
(* (alt_settod.c), as long as the product fits a word, and from then on    *)
(* the time of day advances by one period with each tick, until the        *)
(* counter wraps.                                                          *)
TimeOfDay ==
  [][tick_rate # 0 =>
       /\ \A t \in Times :
            ALT_SETTIMEOFDAY(t) /\ Fits => ALT_GETTIMEOFDAY' = t.sec * ALT_US + t.usec
       /\ nticks' = nticks + 1 /\ NotLost => ALT_GETTIMEOFDAY' = ALT_GETTIMEOFDAY + UsPerTick]_vars
=============================================================================
