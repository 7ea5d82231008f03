------------------------------ MODULE SmallJtag ------------------------------
(***************************************************************************)
(* The JTAG UART as the program of this repository uses it: the driver     *)
(* built with ALTERA_AVALON_JTAG_UART_SMALL, which polls the two FIFOs of  *)
(* the device and knows no interrupt and no timeout, and the console of    *)
(* the host at the other end.  One element of a FIFO is one token, a       *)
(* character or a piece of fixed text.                                     *)
(***************************************************************************)
EXTENDS Integers, SequencesExt

CONSTANT DEPTH   \* of the transmit FIFO: 64 characters in the hardware
ASSUME DepthAssumption == DEPTH \in Nat \ {0}

VARIABLES txfifo, rxfifo,
          console   \* what the host has shown

jtagVars == <<txfifo, rxfifo, console>>

WSPACE == DEPTH - Len(txfifo)

\* A write to the DATA register of a full FIFO is lost.
WriteData(c) == txfifo' = IF WSPACE > 0 THEN Append(txfifo, c) ELSE txfifo

\* The small write routine: for every character it reads CONTROL until WSPACE
\* is not zero.  With direct drivers the calls of the HAL come down to it.
altera_avalon_jtag_uart_write(c) == WSPACE > 0 /\ WriteData(c)
ALT_DRIVER_WRITE(c) == altera_avalon_jtag_uart_write(c)
alt_putchar(c)      == ALT_DRIVER_WRITE(c)
alt_putstr(str)     == <<str>>   \* what it has to write: fixed texts count as one

\* The small read routine for one character: it reads DATA, which takes the
\* character away, until RVALID is set.
altera_avalon_jtag_uart_read(c) ==
  rxfifo # << >> /\ c = Head(rxfifo) /\ rxfifo' = Tail(rxfifo)
ALT_DRIVER_READ(c) == altera_avalon_jtag_uart_read(c)
alt_getchar(c)     == ALT_DRIVER_READ(c)

\* alt_printf knows %x, %s, %c and %%: what it puts out.
Nibbles == <<"0", "1", "2", "3", "4", "5", "6", "7", "8", "9", "a", "b", "c", "d", "e", "f">>
PlaceValues == <<1, 16, 256, 4096, 65536, 1048576, 16777216, 268435456>>
Hex(v) ==
  LET nibble(shift) == (v \div PlaceValues[shift + 1]) % 16
      top == CHOOSE k \in 0 .. 7 : nibble(k) # 0 /\ \A j \in k + 1 .. 7 : nibble(j) = 0
  IN  IF v = 0 THEN <<"0">> ELSE [i \in 1 .. top + 1 |-> Nibbles[nibble(top + 1 - i) + 1]]

PrintfChar(s, c) ==
  IF ~ s.escape
    THEN IF c = "%" THEN [s EXCEPT !.escape = TRUE] ELSE [s EXCEPT !.out = Append(@, c)]
  ELSE LET t == [s EXCEPT !.escape = FALSE]
       IN  CASE c = "%" -> [t EXCEPT !.out = Append(@, c)]
             [] c = "c" -> [t EXCEPT !.out = Append(@, Head(s.args)), !.args = Tail(@)]
             [] c = "x" -> [t EXCEPT !.out = @ \o Hex(Head(s.args)), !.args = Tail(@)]
             [] c = "s" -> [t EXCEPT !.out = @ \o Head(s.args), !.args = Tail(@)]
             [] OTHER   -> t

alt_printf(fmt, args) ==
  FoldLeft(PrintfChar, [escape |-> FALSE, out |-> << >>, args |-> args], fmt).out

\* The next token reaches the host, which shows what it then has of the text.
Arriving == Append(console, Head(txfifo))
HostTake(shown) ==
  /\ txfifo # << >>
  /\ console' = shown
  /\ txfifo' = Tail(txfifo)

JtagInit == txfifo = << >> /\ rxfifo = << >> /\ console = << >>

===============================================================================
