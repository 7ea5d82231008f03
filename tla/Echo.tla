-------------------------------- MODULE Echo --------------------------------
(***************************************************************************)
(* The serial echo test (top.v in the root of the repository): a byte from *)
(* the receiver is written to a FIFO and starts a delay; at the end of the *)
(* delay the FIFO is read and the transmitter is asked to send.  A step is *)
(* one edge of osc_clk.                                                    *)
(*                                                                         *)
(* The receiver and the FIFO's vendor core are external.  The receiver may *)
(* show a byte at any clock, for one clock.  A full FIFO takes no byte, an *)
(* empty one leaves its output alone.                                      *)
(***************************************************************************)
EXTENDS UartTxFrames, Sequences

CONSTANTS DELAY,      \* 266000000, two seconds
          CAPACITY    \* of the FIFO

\* The delay is longer than a frame: the transmitter has always finished.
ASSUME DelayAssumption == DELAY \in Nat /\ DELAY >= (DATA_BITS + 2) * CLKS_PER_BIT
\* One place would be empty after a clock in which it, full, gives its byte
\* and refuses another.
ASSUME CapacityAssumption == CAPACITY \in Nat /\ CAPACITY >= 2

VARIABLES o_Rx_DV, o_Rx_Byte,
          fifo,     \* its output register Q is i_Tx_Byte
          StartTXCount, DelayCounter
          \* TXDelayed, the read and the request, is i_Tx_DV

echoRegs == <<fifo, StartTXCount, DelayCounter>>
echoVars == <<frameVars, o_Rx_DV, o_Rx_Byte, echoRegs>>

TXDelayed == i_Tx_DV

\* Registers without an initial value come up at 0 on this device; the first
\* clock edge has driven the line high.
EchoInit ==
  /\ FrameInit /\ i_Tx_DV = 0
  /\ o_Rx_DV = 0 /\ o_Rx_Byte \in Sendable
  /\ fifo = << >>
  /\ StartTXCount = 0 /\ DelayCounter = 0

-----------------------------------------------------------------------------
Receiver ==
  /\ o_Rx_DV' \in IF o_Rx_DV = 1 THEN {0} ELSE Bit
  /\ o_Rx_Byte' \in Sendable

Reads  == TXDelayed = 1 /\ fifo # << >>
Writes == o_Rx_DV = 1 /\ Len(fifo) < CAPACITY

Fifo ==
  /\ i_Tx_Byte' = IF Reads THEN Head(fifo) ELSE i_Tx_Byte
  /\ fifo' = (IF Reads THEN Tail(fifo) ELSE fifo)
             \o (IF Writes THEN <<o_Rx_Byte>> ELSE << >>)

ExpiredKeepsCount ==   \* mutant: does not restart the delay
  /\ DelayCounter = DELAY
  /\ i_Tx_DV' = 1
  /\ StartTXCount' = 0
  /\ UNCHANGED DelayCounter

Expired ==   \* the last assignment to StartTXCount wins over a new byte's
  /\ DelayCounter = DELAY
  /\ DelayCounter' = 0
  /\ i_Tx_DV' = 1
  /\ StartTXCount' = 0

CountingOnce ==   \* mutant: a byte only starts the delay if none is running
  /\ DelayCounter # DELAY
  /\ DelayCounter' = DelayCounter + StartTXCount
  /\ i_Tx_DV' = 0
  /\ StartTXCount' = IF o_Rx_DV = 1 THEN 1 - StartTXCount ELSE StartTXCount

Counting ==
  /\ DelayCounter # DELAY
  /\ DelayCounter' = DelayCounter + StartTXCount
  /\ i_Tx_DV' = 0
  /\ StartTXCount' = IF o_Rx_DV = 1 THEN 1 ELSE StartTXCount

EchoNext == Receiver /\ Fifo /\ (Expired \/ Counting) /\ TxClock /\ WireByte

EchoSpec == EchoInit /\ [][EchoNext]_echoVars
EchoFairSpec == EchoSpec /\ WF_<<txRegs, i_Tx_DV, echoRegs>>(EchoNext)   \* the clock runs

-----------------------------------------------------------------------------
(* A read finds a byte and the transmitter in idle: a request is never     *)
(* made for nothing nor overheard.  A delay that runs has a byte to send.  *)
EchoInv ==
  /\ TXDelayed = 1 => r_SM_Main = "IDLE" /\ fifo # << >>
  /\ StartTXCount = 1 => fifo # << >>
  /\ DelayCounter > 0 => StartTXCount = 1
  /\ DelayCounter \in 0 .. DELAY

Queue == INSTANCE EchoQueue
           WITH Value <- Byte, queue <- <<i_Tx_Byte>> \o fifo, sent <- r_Tx_Data

(* What is sent are the bytes received, each once and in order, but one    *)
(* behind: the transmitter takes the FIFO's output in the clock in which   *)
(* the FIFO is told to read.                                               *)
EchoesInOrder == Queue!QueueSpec

(* A byte is followed by a transmission, unless it comes in the clock in   *)
(* which a delay ends: its start is then cleared by the later assignment,  *)
(* and it waits for the next byte.                                         *)
EchoFollows == o_Rx_DV = 1 /\ DelayCounter # DELAY ~> TXDelayed = 1
=============================================================================
