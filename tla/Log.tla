--------------------------------- MODULE Log ---------------------------------
(***************************************************************************)
(* The debug log of the HAL (ALT_LOG_ENABLE): alt_log_printf.c and the     *)
(* macros of sys/alt_log_printf.h, over the FIFO of the JTAG UART.  The    *)
(* thread logs boot messages and the echo of write(); interrupts log the   *)
(* heartbeat of the timer, the periodic report of the UART and its         *)
(* interrupts.  Nothing keeps an interrupt out of a message: both sides    *)
(* poll WSPACE and then write.                                             *)
(*                                                                         *)
(* alt_log_private_printf is a fold over the format, which is a sequence   *)
(* of characters; what it puts out is printed character by character.      *)
(***************************************************************************)
EXTENDS SmallJtag

CONSTANTS WORD,         \* 2^32, the span of an unsigned long
          ECHO_LEN,     \* ALT_LOG_WRITE_ECHO_LEN, 15
          INTERVAL,     \* ALT_LOG_SYS_CLK_INTERVAL, in ticks
          TICKS,        \* ALT_LOG_JTAG_UART_TICKS
          FLAGS,        \* ALT_LOG_FLAGS: -1 .. 3
          Formats,      \* the formats the thread logs, each with its argument
          Renderings,   \* more formats, to compare with what they stand for
          Writes,       \* the texts it writes to stdout
          IRQS          \* bound: how many interrupts come

ASSUME LogAssumption ==
  /\ WORD \in Nat /\ WORD > 2 /\ WORD % 2 = 0
  /\ ECHO_LEN \in Nat \ {0} /\ INTERVAL \in Nat \ {0} /\ TICKS \in Nat \ {0}
  /\ FLAGS \in -1 .. 3
  /\ (WORD - 1) \div 16 < 268435456   \* eight hexadecimal digits
  /\ Formats \cup Renderings \subseteq
       [zero : BOOLEAN, width : 0 .. 9, letter : {"d", "i", "u", "o", "x", "X"},
        arg : 0 .. WORD - 1]
  /\ Writes \subseteq Seq(STRING)

\* The groups of flags that ALT_LOG_FLAGS turns on.
alt_log_boot_on_flag            == FLAGS # -1
alt_log_sys_clk_on_flag         == FLAGS \in 1 .. 3
alt_log_write_on_flag           == FLAGS \in 2 .. 3
alt_log_jtag_uart_alarm_on_flag == FLAGS \in 2 .. 3
alt_log_jtag_uart_isr_on_flag   == FLAGS = 3

-----------------------------------------------------------------------------
(* Printing a number.                                                      *)
Repeat(c, n) == [i \in 1 .. (IF n > 0 THEN n ELSE 0) |-> c]   \* alt_log_repchar

DigitChar(d, upper) ==
  (IF upper THEN <<"0","1","2","3","4","5","6","7","8","9","A","B","C","D","E","F">>
            ELSE <<"0","1","2","3","4","5","6","7","8","9","a","b","c","d","e","f">>)[d + 1]

Digits(v, b) ==   \* at least one, and no zero in front
  LET d[n \in Nat] == IF n < b THEN <<n>> ELSE Append(d[n \div b], n % b)
  IN  d[v]

IntegerPrint_wide(s, arg) ==   \* mutant: the sign does not count in the width
  LET neg == s.signed /\ arg >= WORD \div 2
      v   == IF neg THEN WORD - arg ELSE arg
      num == [i \in DOMAIN Digits(v, s.base) |-> DigitChar(Digits(v, s.base)[i], s.upper)]
      pad == s.before - Len(num)
  IN  IF s.zero THEN (IF neg THEN <<"-">> ELSE << >>) \o Repeat("0", pad) \o num
      ELSE Repeat(" ", pad) \o (IF neg THEN <<"-">> ELSE << >>) \o num

IntegerPrint(s, arg) ==
  LET neg == s.signed /\ arg >= WORD \div 2
      v   == IF neg THEN WORD - arg ELSE arg
      num == [i \in DOMAIN Digits(v, s.base) |-> DigitChar(Digits(v, s.base)[i], s.upper)]
      pad == s.before - Len(num) - (IF neg THEN 1 ELSE 0)
  IN  IF s.zero THEN (IF neg THEN <<"-">> ELSE << >>) \o Repeat("0", pad) \o num
      ELSE Repeat(" ", pad) \o (IF neg THEN <<"-">> ELSE << >>) \o num

(* The format machine: s.st is its state, s.out what it has put out.       *)
Fresh == [st |-> "chars", zero |-> FALSE, before |-> -1, after |-> -1,
          base |-> 10, signed |-> TRUE, upper |-> FALSE, out |-> << >>]

Decimal(c) == c \in {DigitChar(d, FALSE) : d \in 0 .. 9}
DigitOf(c) == CHOOSE d \in 0 .. 9 : DigitChar(d, FALSE) = c

Letter(s, c, arg) ==   \* the letter that determines the type ends the format
  LET Number(base, signed, upper) ==
        IntegerPrint([s EXCEPT !.base = base, !.signed = signed, !.upper = upper], arg)
  IN  CASE c \in {"d", "i"} -> Number(10, TRUE, FALSE)
        [] c = "u" -> Number(10, FALSE, FALSE)
        [] c = "o" -> Number(8, FALSE, FALSE)
        [] c = "x" -> Number(16, FALSE, FALSE)
        [] c = "X" -> Number(16, FALSE, TRUE)
        [] c = "c" -> Repeat(" ", s.before - 1) \o <<arg>>
        [] c = "s" -> Repeat(" ", s.before - Len(arg)) \o arg
        [] OTHER   -> << >>

OtherFmtChar(s, c, arg) ==
  IF c = "." THEN [s EXCEPT !.after = 0]
  ELSE IF Decimal(c) THEN
    IF s.after < 0
      THEN [s EXCEPT !.before = (IF @ < 0 THEN 0 ELSE 10 * @) + DigitOf(c)]
      ELSE [s EXCEPT !.after = 10 * @ + DigitOf(c)]
  ELSE IF c = "l" THEN s   \* long and int have the same size
  ELSE [s EXCEPT !.st = "chars", !.out = @ \o Letter(s, c, arg)]

FmtChar(s, c, arg) ==
  CASE s.st = "chars" -> IF c = "%" THEN [Fresh EXCEPT !.st = "first", !.out = s.out]
                         ELSE [s EXCEPT !.out = Append(@, c)]
    [] s.st = "first" -> IF c = "0" THEN [s EXCEPT !.zero = TRUE, !.st = "other"]
                         ELSE IF c = "%" THEN [s EXCEPT !.out = Append(@, c), !.st = "chars"]
                         ELSE OtherFmtChar([s EXCEPT !.st = "other"], c, arg)
    [] s.st = "other" -> OtherFmtChar(s, c, arg)

alt_log_private_printf(fmt, arg) ==
  FoldLeft(LAMBDA s, c : FmtChar(s, c, arg), Fresh, fmt).out

-----------------------------------------------------------------------------
(* The log of a program.  Every character on the port carries its origin:  *)
(* 0 for the thread, or the number of the interrupt.                   *)
VARIABLES message,   \* what the thread still has to print
          ready,     \* it has seen room in the FIFO and not used it yet
          isr,       \* what the interrupt that runs has to print, or NoIsr
          irqs,      \* how many interrupts have come
          sys_clk_count, in_sec,   \* of the heartbeat
          report,    \* ticks to the next report of the UART, or 0: no alarm
          due,       \* the alarm of the report comes next in this interrupt
          job,       \* history: the call the thread is at, or has finished
          said,      \* history: all it has had to print for it
          lost,      \* history: how many of its characters a full FIFO dropped
          isaid      \* history: what each interrupt had to print

logVars == <<message, ready, isr, irqs, sys_clk_count, in_sec, report, due, job, said, lost, isaid>>

NoIsr == <<"none">>
NoJob == [call |-> "none"]

\* The text of a format: zero, width and letter, as in "%08x".
Fmt(m) == <<"%">> \o (IF m.zero THEN <<"0">> ELSE << >>)
                 \o (IF m.width = 0 THEN << >> ELSE <<DigitChar(m.width, FALSE)>>)
                 \o <<m.letter>>

\* The control register is printed as it is at the call.
print_control_reg(header) ==
  alt_log_private_printf(<<header, "%", "d", "\n">>, WSPACE % WORD)

Startup == IF FLAGS \in 1 .. 3 THEN print_control_reg("JTAG Startup Info:") ELSE << >>

LogInit ==
  /\ message = Startup /\ said = Startup /\ job = NoJob   \* ALT_LOG_JTAG_UART_ALARM_REGISTER
  /\ report = IF alt_log_jtag_uart_alarm_on_flag THEN TICKS + 1 ELSE 0
  /\ ready = FALSE /\ due = FALSE /\ isr = NoIsr /\ irqs = 0
  /\ sys_clk_count = 0 /\ in_sec = 0
  /\ lost = 0 /\ isaid = << >>

Idle == isr = NoIsr /\ message = << >>

Boot(m) ==   \* ALT_LOG_PRINT_BOOT
  /\ job' = [call |-> "boot", m |-> m]
  /\ message' = IF alt_log_boot_on_flag THEN alt_log_private_printf(Fmt(m), m.arg) ELSE << >>

\* The text goes through a buffer: its first characters, less the end, and
\* no Ctrl-D.
Echo(text) ==
  LET length == IF ECHO_LEN > Len(text) THEN Len(text) ELSE ECHO_LEN
      buf    == [i \in 1 .. length + 1 |->
                   IF i = length THEN "\n" ELSE IF i = length + 1 THEN "\r"
                   ELSE IF text[i] = "^D" THEN "D" ELSE text[i]]
  IN  IF length < 2 THEN << >> ELSE alt_log_private_printf(<<"Write Echo: ", "%", "s">>, buf)

Write(text) ==   \* alt_log_write
  /\ job' = [call |-> "echo", text |-> text]
  /\ message' = IF alt_log_write_on_flag THEN Echo(text) ELSE << >>

LogCall ==
  /\ Idle /\ job = NoJob
  /\ \/ \E m \in Formats : Boot(m)
     \/ \E text \in Writes : Write(text)
  /\ said' = said \o message'
  /\ UNCHANGED <<ready, isr, irqs, sys_clk_count, in_sec, report, due, lost, isaid,
                 txfifo, rxfifo, console>>

\* alt_log_txchar of the thread, in its two steps.
Ready == isr = NoIsr /\ message # << >> /\ ~ ready

TxPoll_rvalid ==   \* mutant: waits for a character to read
  /\ Ready /\ rxfifo # << >>
  /\ ready' = TRUE
  /\ UNCHANGED <<message, isr, irqs, sys_clk_count, in_sec, report, due, job, said, lost, isaid,
                 txfifo, rxfifo, console>>

TxPoll ==
  /\ Ready /\ WSPACE > 0
  /\ ready' = TRUE
  /\ UNCHANGED <<message, isr, irqs, sys_clk_count, in_sec, report, due, job, said, lost, isaid,
                 txfifo, rxfifo, console>>

TxWrite ==
  /\ isr = NoIsr /\ ready
  /\ WriteData(<<0, Head(message)>>)
  /\ lost' = IF WSPACE > 0 THEN lost ELSE lost + 1
  /\ message' = Tail(message) /\ ready' = FALSE
  /\ UNCHANGED <<isr, irqs, sys_clk_count, in_sec, report, due, job, said, isaid, rxfifo, console>>

(* The interrupts.                                                         *)
LogIsr(text) ==
  /\ isr = NoIsr /\ irqs < IRQS
  /\ irqs' = irqs + 1 /\ isr' = text /\ isaid' = Append(isaid, text)
  /\ UNCHANGED <<message, ready, job, said, lost, txfifo, rxfifo, console>>

\* The timer's: the heartbeat, then the alarms.
Heartbeat == alt_log_sys_clk_on_flag /\ sys_clk_count + 1 > INTERVAL
ReportDue == report = 1

IsrTick ==
  /\ LogIsr(IF Heartbeat
              THEN alt_log_private_printf(<<"System Clock On ", "%", "u", "\n">>, in_sec)
              ELSE << >>)
  /\ sys_clk_count' = IF Heartbeat THEN 0
                      ELSE IF alt_log_sys_clk_on_flag THEN sys_clk_count + 1 ELSE 0
  /\ in_sec' = IF Heartbeat THEN in_sec + 1 ELSE in_sec
  /\ report' = IF ReportDue THEN TICKS ELSE IF report > 0 THEN report - 1 ELSE 0
  /\ due' = ReportDue

\* altera_avalon_jtag_uart_report_log, the callback of the alarm.
IsrReport ==
  /\ isr = << >> /\ due
  /\ isr' = print_control_reg("JTAG Alarm:")
  /\ due' = FALSE
  /\ isaid' = [isaid EXCEPT ![irqs] = @ \o isr']
  /\ UNCHANGED <<message, ready, irqs, sys_clk_count, in_sec, report, job, said, lost,
                 txfifo, rxfifo, console>>

\* The JTAG UART's.
IsrUart ==
  /\ LogIsr(IF alt_log_jtag_uart_isr_on_flag THEN print_control_reg("JTAG IRQ:") ELSE << >>)
  /\ UNCHANGED <<sys_clk_count, in_sec, report, due>>

\* Nothing comes between its look at WSPACE and its write but the host.
IsrTx ==
  /\ isr # NoIsr /\ isr # << >>
  /\ WSPACE > 0 /\ WriteData(<<irqs, Head(isr)>>)
  /\ isr' = Tail(isr)
  /\ UNCHANGED <<message, ready, irqs, sys_clk_count, in_sec, report, due, job, said, lost, isaid,
                 rxfifo, console>>

IsrReturn ==
  /\ isr = << >> /\ ~ due
  /\ isr' = NoIsr
  /\ UNCHANGED <<message, ready, irqs, sys_clk_count, in_sec, report, due, job, said, lost, isaid,
                 txfifo, rxfifo, console>>

LogStep == LogCall \/ TxPoll \/ TxWrite \/ IsrReport \/ IsrTx \/ IsrReturn
LogIrq  == IsrTick \/ IsrUart
LogHostTake == HostTake(Arriving) /\ UNCHANGED <<logVars, rxfifo>>

-----------------------------------------------------------------------------
(* What the log promises.                                                  *)
Arrived == console \o txfifo
OwnOf(text, origin) ==   \* what of a text one side has written
  FoldLeft(LAMBDA own, x : IF x[1] = origin THEN Append(own, x[2]) ELSE own, << >>, text)
From(origin) == OwnOf(Arrived, origin)

\* What a format says, read back from what was printed for it: blanks up to
\* the width, then a sign and digits, or a sign and zeros and digits.
Base(letter)   == CASE letter \in {"x", "X"} -> 16 [] letter = "o" -> 8 [] OTHER -> 10
Meaning(m)     == IF m.letter \in {"d", "i"} /\ m.arg >= WORD \div 2 THEN m.arg - WORD ELSE m.arg
ValueOf(ds, m) ==
  LET d(c) == CHOOSE k \in 0 .. 15 : DigitChar(k, m.letter = "X") = c
  IN  FoldLeft(LAMBDA n, c : Base(m.letter) * n + d(c), 0, ds)

Renders(m, text) ==
  LET blanks == SelectLastInSeq(text, LAMBDA c : c = " ")
      body   == SubSeq(text, blanks + 1, Len(text))
      minus  == body # << >> /\ body[1] = "-"
      digits == IF minus THEN Tail(body) ELSE body
  IN  /\ digits # << >>
      /\ Meaning(m) = IF minus THEN - ValueOf(digits, m) ELSE ValueOf(digits, m)
      /\ Len(text) >= m.width
      /\ blanks > 0 => ~ m.zero /\ Len(text) = m.width
      /\ digits[1] = "0" => Len(digits) = 1 \/ (m.zero /\ Len(text) = m.width)

FormatsRender == \A m \in Renderings : Renders(m, alt_log_private_printf(Fmt(m), m.arg))

\* The two minimal printfs of the HAL write a number in hexadecimal alike.
PrintfsAgree ==
  \A m \in Renderings :
    alt_printf(<<"%", "x">>, <<m.arg>>) = alt_log_private_printf(<<"%", "x">>, m.arg)

\* What the interrupt that runs has still to print, and whether all that an
\* origin has printed is in one piece.
Running(n) == IF n = irqs /\ isr # NoIsr THEN isr ELSE << >>
InOnePiece(text, n) ==
  \A i, j \in DOMAIN text :
    text[i][1] = n /\ text[j][1] = n => \A k \in i .. j : text[k][1] = n

\* What an interrupt logs arrives whole and in one piece, whatever the thread
\* was doing; the thread, which looks at the FIFO and writes to it in two
\* steps, loses at most one character for every interrupt, and none without
\* one; the characters that arrive keep their order, and no Ctrl-D reaches the
\* terminal.
LogKeeps ==
  /\ lost <= irqs
  /\ lost = 0 => From(0) \o message = said
  /\ Len(From(0)) + lost + Len(message) = Len(said)
  /\ \A n \in 1 .. irqs :
       From(n) \o Running(n) = isaid[n] /\ InOnePiece(Arrived, n)
  /\ \A i \in DOMAIN Arrived : Arrived[i][2] # "^D"

\* And every format the log takes comes out as the number it stands for.
LogInv == FormatsRender /\ LogKeeps

===============================================================================
