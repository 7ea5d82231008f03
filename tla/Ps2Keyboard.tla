---------------------------- MODULE Ps2Keyboard -----------------------------
(***************************************************************************)
(* The bus side of the PS/2 keyboard (ip/ps2_keyboard/ps2_keyboard.sv) and *)
(* the program that polls it (wait_ps2_key in software/sdr/sdr.c).  A step *)
(* is one edge of the system clock.  The frame receiver is reduced to what *)
(* it shows: data_valid, high for one clock, with a scan code.             *)
(*                                                                         *)
(* A write takes one clock.  A read takes two: in the first the slave      *)
(* registers the addressed word and asserts waitrequest, in the second the *)
(* master takes it.  Nothing in the repository writes the two interrupt    *)
(* registers; here some other access may, while nobody waits for a key.    *)
(***************************************************************************)
EXTENDS Integers

CONSTANT Code

ASSUME CodeAssumption == Code # {}

VARIABLES ps2_data_valid, ps2_data,            \* from ps2_receive
          data_reg, event_flag, irq_flag, irq, read_latency, s_readdata,
          s_address, s_read, s_write, s_writedata,   \* the bus
          pc, key,    \* wait_ps2_key: where it is, what it returned last
          fresh       \* history: codes taken since the last write to Data

slaveRegs == <<data_reg, event_flag, irq_flag, irq, read_latency, s_readdata>>
bus  == <<s_address, s_read, s_write, s_writedata>>
kbdVars == <<ps2_data_valid, ps2_data, slaveRegs, bus, pc, key, fresh>>

Logic   == {0, 1}
Event == 0   \* the addresses of the slave
Ack   == 1
Data  == 2

Word == Code \cup (Logic \X Logic)   \* a code, or <<event_flag, irq_flag>>

-----------------------------------------------------------------------------
\* ps2_receive: S4 raises data_valid, the next clock lowers it.
Receiver ==
  /\ ps2_data_valid' \in IF ps2_data_valid = 1 THEN {0} ELSE Logic
  /\ ps2_data' \in IF ps2_data_valid' = 1 THEN Code ELSE {ps2_data}

Writes(a) == s_write = 1 /\ s_address = a

Latency == read_latency' = IF read_latency = 1 THEN 0 ELSE s_read

EventFlagSticky ==   \* mutant: the write does not clear the flag
  event_flag' = IF ps2_data_valid = 1 THEN 1 ELSE event_flag

EventFlag ==   \* the write to Data is the later assignment
  event_flag' = IF Writes(Data) THEN 0 ELSE IF ps2_data_valid = 1 THEN 1 ELSE event_flag

Interrupt ==
  /\ irq_flag' = IF Writes(Event) THEN s_writedata ELSE irq_flag
  /\ irq' = IF Writes(Ack) \/ ps2_data_valid = 0 THEN 0 ELSE irq_flag

ReadData ==
  s_readdata' = CASE s_address = Event -> <<event_flag, irq_flag>>
                  [] s_address = Data  -> data_reg
                  [] OTHER             -> s_readdata

Slave ==
  /\ Latency
  /\ data_reg' = IF ps2_data_valid = 1 THEN ps2_data ELSE data_reg
  /\ EventFlag
  /\ Interrupt
  /\ ReadData

WaitEveryRead == s_read = 1   \* mutant: the latency does not end the wait

Wait == s_read = 1 /\ read_latency = 0   \* s_waitrequest

-----------------------------------------------------------------------------
(***************************************************************************)
(* The master.  Between two accesses the bus is idle for any time, and its *)
(* address and data then mean nothing.                                     *)
(***************************************************************************)
BusIdle ==
  /\ s_read' = 0 /\ s_write' = 0
  /\ s_address' \in {Event, Ack, Data}
  /\ UNCHANGED s_writedata

BusRead(a) == s_read' = 1 /\ s_write' = 0 /\ s_address' = a /\ UNCHANGED s_writedata
BusWrite(a) == s_read' = 0 /\ s_write' = 1 /\ s_address' = a /\ s_writedata' \in Logic

Idle == s_read = 0 /\ s_write = 0

Rest ==   \* other work, or a read the slave makes wait
  /\ \/ Idle /\ BusIdle
     \/ Wait /\ UNCHANGED bus
  /\ UNCHANGED <<pc, key>>

OtherAccess ==
  /\ pc = "away" /\ Idle
  /\ BusWrite(Event) \/ BusWrite(Ack)
  /\ UNCHANGED <<pc, key>>

OtherDone ==
  /\ pc = "away" /\ s_write = 1
  /\ BusIdle
  /\ UNCHANGED <<pc, key>>

Call ==   \* IOWR(base, 2, 0)
  /\ pc = "away" /\ Idle
  /\ BusWrite(Data)
  /\ pc' = "clear"
  /\ UNCHANGED key

Cleared ==
  /\ pc = "clear"
  /\ BusIdle
  /\ pc' = "poll"
  /\ UNCHANGED key

Poll ==   \* IORD(base, 0)
  /\ pc = "poll" /\ Idle
  /\ BusRead(Event)
  /\ UNCHANGED <<pc, key>>

Polled ==
  /\ pc = "poll" /\ s_read = 1 /\ ~ Wait
  /\ BusIdle
  /\ pc' = IF s_readdata[1] = 1 THEN "get" ELSE "poll"
  /\ UNCHANGED key

Get ==   \* IORD(base, 2)
  /\ pc = "get" /\ Idle
  /\ BusRead(Data)
  /\ UNCHANGED <<pc, key>>

Return ==
  /\ pc = "get" /\ s_read = 1 /\ ~ Wait
  /\ BusIdle
  /\ key' = s_readdata
  /\ pc' = "away"

WaitPs2Key == Cleared \/ Poll \/ Polled \/ Get \/ Return
Master == Rest \/ OtherAccess \/ OtherDone \/ Call \/ WaitPs2Key

-----------------------------------------------------------------------------
KbdInit ==
  /\ ps2_data_valid = 0 /\ ps2_data \in Code
  /\ data_reg \in Code /\ event_flag = 0
  /\ irq_flag = 0 /\ irq \in Logic
  /\ read_latency = 0 /\ s_readdata \in Code
  /\ s_address = Event /\ s_read = 0 /\ s_write = 0 /\ s_writedata = 0
  /\ pc = "away" /\ key \in Code
  /\ fresh = {}

Fresh ==
  fresh' = IF Writes(Data) THEN {}
           ELSE IF ps2_data_valid = 1 THEN fresh \cup {ps2_data} ELSE fresh

Clock == Receiver /\ Slave /\ Fresh

KbdNext == Clock /\ Master
KbdSpec == KbdInit /\ [][KbdNext]_kbdVars

-----------------------------------------------------------------------------
(* The registers keep their types.                                         *)
KbdTypeOK ==
  /\ ps2_data_valid \in Logic /\ ps2_data \in Code
  /\ data_reg \in Code /\ event_flag \in Logic
  /\ irq_flag \in Logic /\ irq \in Logic
  /\ read_latency \in Logic /\ s_readdata \in Word
  /\ s_address \in {Event, Ack, Data} /\ s_read \in Logic /\ s_write \in Logic
  /\ s_writedata \in Logic
  /\ pc \in {"away", "clear", "poll", "get"} /\ key \in Code
  /\ fresh \subseteq Code

BusInv ==   \* where the program is and what is on the bus
  /\ read_latency = 1 => s_read = 1
  /\ pc = "away"  => s_read = 0
  /\ pc = "clear" => s_read = 0 /\ s_write = 1 /\ s_address = Data
  /\ pc = "poll"  => s_write = 0 /\ (s_read = 1 => s_address = Event)
  /\ pc = "get"   => s_write = 0 /\ (s_read = 1 => s_address = Data) /\ event_flag = 1

(* What the program is given in the second clock of a read is the word of  *)
(* the register it addressed, and the event bit never promises a code that *)
(* came before the clearing write.                                         *)
ReadInv ==
  /\ BusInv
  /\ event_flag = 1 <=> fresh # {}
  /\ event_flag = 1 => data_reg \in fresh
  /\ read_latency = 1 /\ pc = "poll" => s_readdata \in (0 .. event_flag) \X Logic
  /\ read_latency = 1 /\ pc = "get"  => s_readdata \in fresh

(* wait_ps2_key returns a key that was pressed after it was called.        *)
ReturnsFreshKey == [][Return => key' \in fresh]_kbdVars

(* And it does return once a key has been pressed, unless the key came in  *)
(* the very clock of the clearing write, which loses it.                   *)
WaitReturns == (pc = "poll" /\ fresh # {}) ~> pc = "away"
=============================================================================
