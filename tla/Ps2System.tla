----------------------------- MODULE Ps2System ------------------------------
(***************************************************************************)
(* From a key to the program: the keyboard's frames (Ps2Link), the slave   *)
(* that takes their scan codes and wait_ps2_key, which polls it            *)
(* (Ps2Keyboard).  All are clocked by the system clock; ps2_data_valid and *)
(* ps2_data are the wires between the receiver and the slave.              *)
(***************************************************************************)
EXTENDS Ps2Link, Ps2Keyboard

ASSUME ScanCodesAreCodes == Code = ScanCode

systemVars == <<linkVars, kbdVars>>

Taken(bits) == [k \in 0 .. DATA_BITS - 1 |-> bits[k + 1]]

Wires ==
  /\ ps2_data_valid' = data_valid'
  /\ ps2_data' = IF data_valid' = 1 THEN Taken(data_out') ELSE ps2_data

\* What the registers that are not reset hold is the same as data_out.
SystemInit ==
  /\ LinkInit
  /\ ps2_data_valid = 0
  /\ ps2_data = Taken(data_out)
  /\ data_reg = Taken(data_out) /\ s_readdata = Taken(data_out) /\ key = Taken(data_out)
  /\ event_flag = 0 /\ irq_flag = 0 /\ irq = 0 /\ read_latency = 0
  /\ s_address = Event /\ s_read = 0 /\ s_write = 0 /\ s_writedata = 0
  /\ pc = "away" /\ fresh = {}

\* The program is alone on the bus, which keeps its address while it is idle.
ProgramAlone ==
  /\ Rest \/ Call \/ WaitPs2Key
  /\ s_read' = 0 /\ s_write' = 0 => UNCHANGED <<s_address, s_writedata>>

SystemNext == LinkNext /\ Wires /\ Slave /\ Fresh /\ ProgramAlone
SystemSpec == SystemInit /\ [][SystemNext]_systemVars

\* The clock runs, the keyboard finishes a frame it has started, and the
\* program goes on while it waits for a key.
SystemFairSpec ==
  /\ SystemSpec
  /\ WF_systemVars(SystemNext)
  /\ WF_systemVars(SystemNext /\ KbFinish)
  /\ WF_systemVars(SystemNext /\ WaitPs2Key)

-----------------------------------------------------------------------------
(* A scan code is on its way from its start bit until data_reg has it.     *)
InFlight ==
  \/ kbBit < LastBit \/ kbPhase # "high"
  \/ fsm # "S1"
  \/ data_valid = 1

Channel == INSTANCE ByteChannel
             WITH Value <- ScanCode, full <- InFlight, slot <- kbByte, out <- data_reg

(* Every scan code sent is taken once, unchanged and in time, before the   *)
(* next begins.                                                            *)
DeliversEventually == Channel!ChSpec
=============================================================================
