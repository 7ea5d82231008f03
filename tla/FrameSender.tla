----------------------------- MODULE FrameSender ----------------------------
(***************************************************************************)
(* A serial line as its receiver sees it: idle high, and frames of a start *)
(* bit, DATA_BITS data bits, least significant first, and a stop bit.      *)
(* Cells last BIT_MIN to BIT_MAX ticks each, the stop bit and the idle     *)
(* time after it at least BIT_MIN.  UartLink drives the receiver with it;  *)
(* UartTxFrames shows that the repository's transmitter is one.            *)
(***************************************************************************)
EXTENDS Integers

CONSTANTS DATA_BITS,
          BIT_MIN, BIT_MAX,  \* shortest and longest cell on the wire, in ticks
          Sendable           \* the bytes that are sent

VARIABLES line,
          txCell,   \* 0 the start bit, 1 .. DATA_BITS the data, STOP stop and idle
          txAge,    \* ticks the cell has been on the line (up to BIT_MIN-1 in STOP)
          txByte    \* the byte of the last frame

txVars     == <<txCell, txAge, txByte>>
senderVars == <<line, txVars>>

STOP == DATA_BITS + 1

Level(cell, byte) ==
  CASE cell = 0    -> 0
    [] cell = STOP -> 1
    [] OTHER       -> byte[cell - 1]

SenderInit ==
  /\ line = 1
  /\ txCell = STOP
  /\ txAge = BIT_MIN - 1
  /\ txByte \in Sendable

KeepCell ==
  /\ txCell # STOP => txAge + 1 < BIT_MAX
  /\ txAge' = IF txCell = STOP /\ txAge + 1 >= BIT_MIN THEN txAge ELSE txAge + 1
  /\ UNCHANGED <<txCell, txByte, line>>

NextCell ==
  /\ txCell # STOP
  /\ txAge + 1 >= BIT_MIN
  /\ txCell' = txCell + 1
  /\ txAge' = 0
  /\ line' = Level(txCell + 1, txByte)
  /\ UNCHANGED txByte

StartFrame ==
  /\ txCell = STOP
  /\ txAge + 1 >= BIT_MIN
  /\ txCell' = 0
  /\ txAge' = 0
  /\ line' = 0
  /\ txByte' \in Sendable

TxStep     == KeepCell \/ NextCell \/ StartFrame
SenderSpec == SenderInit /\ [][TxStep]_senderVars
=============================================================================
