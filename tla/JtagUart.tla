------------------------------ MODULE JtagUart ------------------------------
(***************************************************************************)
(* The interrupt-driven driver of the JTAG UART (drivers/src,              *)
(* altera_avalon_jtag_uart_*.c): two ring buffers shared by the calls of   *)
(* one thread and the interrupt routine, the device with its two FIFOs,    *)
(* an alarm that counts the seconds without the host, and the host.        *)
(*                                                                         *)
(* The thread stops at every access to what the interrupt routine writes;  *)
(* the interrupt routine, during which the thread stands still, stops at   *)
(* every access to the device.  The host acts at any time.  Bytes are      *)
(* numbers that count modulo SERIAL in each direction, so that a byte      *)
(* lost, doubled, overtaken or overwritten shows.                          *)
(*                                                                         *)
(* host_inactive and timeout are not volatile, and the BSP is compiled     *)
(* with -Os: the compiler may read them once, before a loop that waits.    *)
(* HOISTED says whether the build does.  Such a build takes fewer steps,   *)
(* so the safety properties of the other hold for it too.                  *)
(***************************************************************************)
EXTENDS Integers, Sequences

CONSTANTS BUF_LEN,    \* of a ring; 2048 in the code, one place stays empty
          DEPTH,      \* of the device's FIFOs
          SERIAL,     \* more than all the places a byte may wait in
          MAX_LEN,    \* bytes of a call
          INT_MAX,
          DEFAULT_TIMEOUT,   \* 10 seconds
          HOISTED,    \* whether a waiting loop reads host_inactive only once
          Programs,   \* sets of calls: what a program may use
          Timeouts    \* what ioctl() is asked for

ASSUME SizeAssumption ==
  /\ BUF_LEN \in Nat /\ BUF_LEN >= 2
  /\ DEPTH \in Nat \ {0}
  /\ SERIAL \in Nat /\ SERIAL > BUF_LEN + DEPTH
  /\ MAX_LEN \in Nat \ {0}
  /\ INT_MAX \in Nat /\ DEFAULT_TIMEOUT \in 2 .. INT_MAX - 2
  /\ HOISTED \in BOOLEAN

VARIABLES rx_buf, rx_in, rx_out, tx_buf, tx_in, tx_out,
          irq_enable, host_inactive, timeout,
          alarm,              \* whether the alarm runs
          \* the device: enabled interrupts, FIFOs, the activity bit
           rx_fifo, tx_fifo, ac,
          \* the processor and the interrupt routine with its locals
          irq_on, isr, avail, space,
          \* the thread: where it is, in which call, and the call's locals
          pc, call, nonblock, left, n, seen, moved,
          calls,              \* the calls the program makes; never changes
          \* history: the next byte the host sends, read() returns, write()
          \* takes and the host gets; whether each was the one due
          sent, got, put, shown, inOrder

ringVars   == <<rx_buf, rx_in, rx_out, tx_buf, tx_in, tx_out>>
hostVars   == <<sent, shown>>
deviceVars == <<rx_fifo, tx_fifo, ac>>
alarmVars  == <<host_inactive, timeout, alarm>>
isrVars    == <<isr, avail, space>>
callVars   == <<call, nonblock, left, n, seen, moved>>
threadVars == <<pc, callVars>>
serials    == <<sent, got, put, shown, inOrder>>
vars == <<ringVars, irq_enable, alarmVars, deviceVars, irq_on, isrVars, threadVars, calls,
          serials>>

Place     == 0 .. BUF_LEN - 1
Wrap(i)   == i % BUF_LEN
Serial(k) == k % SERIAL

Init ==
  /\ rx_buf = [i \in Place |-> 0] /\ rx_in = 0 /\ rx_out = 0
  /\ tx_buf = [i \in Place |-> 0] /\ tx_in = 0 /\ tx_out = 0
  /\ irq_enable = {}
  /\ host_inactive = 0 /\ timeout = DEFAULT_TIMEOUT /\ alarm = FALSE
  /\ rx_fifo = << >> /\ tx_fifo = << >> /\ ac = FALSE
  /\ irq_on = FALSE
  /\ isr = "off" /\ avail = FALSE /\ space = 0
  /\ pc = "init" /\ call = "none" /\ nonblock = FALSE
  /\ left = 0 /\ n = 0 /\ seen = 0 /\ moved = FALSE
  /\ calls \in Programs
  /\ sent = 0 /\ got = 0 /\ put = 0 /\ shown = 0 /\ inOrder = TRUE

-----------------------------------------------------------------------------
(* The device and the host.                                                *)
RI == "RE" \in irq_enable /\ rx_fifo # << >>
WI == "WE" \in irq_enable /\ Len(tx_fifo) < DEPTH

HostSend ==
  /\ Len(rx_fifo) < DEPTH
  /\ rx_fifo' = Append(rx_fifo, sent)
  /\ sent' = Serial(sent + 1)
  /\ ac' = TRUE
  /\ UNCHANGED <<ringVars, irq_enable, alarmVars, tx_fifo, irq_on, isrVars,
                 threadVars, calls, got, put, shown, inOrder>>

HostTake ==
  /\ tx_fifo # << >>
  /\ tx_fifo' = Tail(tx_fifo)
  /\ inOrder' = (inOrder /\ Head(tx_fifo) = shown)
  /\ shown' = Serial(shown + 1)
  /\ ac' = TRUE
  /\ UNCHANGED <<ringVars, irq_enable, alarmVars, rx_fifo, irq_on, isrVars,
                 threadVars, calls, sent, got, put>>

HostPoll ==
  /\ ac' = TRUE
  /\ UNCHANGED <<ringVars, irq_enable, alarmVars, rx_fifo, tx_fifo, irq_on, isrVars,
                 threadVars, calls, serials>>

Host == HostSend \/ HostTake \/ HostPoll

-----------------------------------------------------------------------------
(* The interrupt routine.                                                  *)
IsrUnchanged == UNCHANGED <<alarmVars, irq_on, threadVars, calls, sent, got, put, shown, inOrder>>

(* One look at the control register: on entry, and again after each pass;  *)
(* nothing more to do ends it.                                             *)
IsrControl ==
  /\ isr = "control" \/ (isr = "off" /\ irq_on /\ (RI \/ WI))
  /\ isr' = IF RI THEN "rx" ELSE IF WI THEN "tx" ELSE "off"
  /\ avail' = RI
  /\ space' = IF WI THEN DEPTH - Len(tx_fifo) ELSE 0
  /\ IsrUnchanged /\ UNCHANGED <<ringVars, irq_enable, deviceVars>>

RxFull == Wrap(rx_in + 1) = rx_out

IsrReceive ==
  /\ isr = "rx"
  /\ ~ RxFull
  /\ rx_fifo # << >>
  /\ rx_buf' = [rx_buf EXCEPT ![rx_in] = Head(rx_fifo)]
  /\ rx_in' = Wrap(rx_in + 1)
  /\ rx_fifo' = Tail(rx_fifo)
  /\ avail' = (Len(rx_fifo) > 1)
  /\ IsrUnchanged
  /\ UNCHANGED <<rx_out, tx_buf, tx_in, tx_out, irq_enable,  tx_fifo, ac, isr, space>>

AfterRx == IF space > 0 THEN "tx" ELSE "control"

IsrReceiveEmpty ==   \* the byte read is not valid
  /\ isr = "rx"
  /\ ~ RxFull
  /\ rx_fifo = << >>
  /\ isr' = AfterRx
  /\ avail' = FALSE
  /\ IsrUnchanged /\ UNCHANGED <<ringVars, irq_enable, deviceVars, space>>

IsrReceiveFull ==   \* what is left must wait until read() makes room
  /\ isr = "rx"
  /\ RxFull
  /\ irq_enable' = IF avail THEN irq_enable \ {"RE"} ELSE irq_enable
  /\ isr' = AfterRx
  /\ avail' = FALSE
  /\ IsrUnchanged /\ UNCHANGED <<ringVars, rx_fifo, tx_fifo, ac, space>>

IsrTransmit ==
  /\ isr = "tx"
  /\ space > 0
  /\ tx_out # tx_in
  /\ tx_fifo' = Append(tx_fifo, tx_buf[tx_out])
  /\ tx_out' = Wrap(tx_out + 1)
  /\ space' = space - 1
  /\ IsrUnchanged
  /\ UNCHANGED <<rx_buf, rx_in, rx_out, tx_buf, tx_in, irq_enable,  rx_fifo, ac, isr, avail>>

IsrTransmitDoneAlways ==   \* mutant: turns transmission off with bytes left
  /\ isr = "tx"
  /\ space = 0 \/ tx_out = tx_in
  /\ irq_enable' = irq_enable \ {"WE"}
  /\ isr' = "control"
  /\ space' = 0
  /\ IsrUnchanged /\ UNCHANGED <<ringVars, rx_fifo, tx_fifo, ac, avail>>

IsrTransmitDone ==   \* with space left there is nothing more to send
  /\ isr = "tx"
  /\ space = 0 \/ tx_out = tx_in
  /\ irq_enable' = IF space > 0 THEN irq_enable \ {"WE"} ELSE irq_enable
  /\ isr' = "control"
  /\ space' = 0
  /\ IsrUnchanged /\ UNCHANGED <<ringVars, rx_fifo, tx_fifo, ac, avail>>

Isr == IsrControl \/ IsrReceive \/ IsrReceiveEmpty \/ IsrReceiveFull
         \/ IsrTransmit \/ IsrTransmitDone

(* Once a second.  Writing the activity bit clears it.                     *)
Timeout ==
  /\ alarm /\ irq_on /\ isr = "off"
  /\ IF ac
       THEN /\ ac' = FALSE
            /\ host_inactive' = 0
       ELSE /\ host_inactive' = IF host_inactive < INT_MAX - 2 THEN host_inactive + 1
                                                               ELSE host_inactive
            /\ UNCHANGED ac
  /\ UNCHANGED <<ringVars, irq_enable, timeout, alarm, rx_fifo, tx_fifo, irq_on, isrVars,
                 threadVars, calls, serials>>

-----------------------------------------------------------------------------
(* The thread.                                                             *)
At(here) == isr = "off" /\ pc = here

ThreadUnchanged == UNCHANGED <<rx_fifo, tx_fifo, ac, isrVars, calls, sent, shown>>

(* altera_avalon_jtag_uart_init: enable the device, register the handler,  *)
(* start the alarm, which fails in a system without a timer.               *)
InitDevice ==
  /\ At("init")
  /\ irq_enable' = {"RE"}
  /\ pc' = "register"
  /\ ThreadUnchanged /\ UNCHANGED <<ringVars, alarmVars, irq_on, callVars, got, put, inOrder>>

InitRegister ==
  /\ At("register")
  /\ irq_on' = TRUE
  /\ pc' = "alarm"
  /\ ThreadUnchanged
  /\ UNCHANGED <<ringVars, irq_enable, alarmVars, callVars, got, put, inOrder>>

InitAlarm ==
  /\ At("alarm")
  /\ host_inactive' = 0
  /\ \/ alarm' = TRUE /\ UNCHANGED timeout
     \/ alarm' = FALSE /\ timeout' = INT_MAX
  /\ pc' = "idle"
  /\ ThreadUnchanged
  /\ UNCHANGED <<ringVars, irq_enable,  irq_on, callVars, got, put, inOrder>>

Quiet == UNCHANGED <<irq_enable, alarmVars,  irq_on>>   \* of most steps of a call

HostLost == host_inactive >= timeout

\* A build that reads host_inactive once does so here.
Waiting == IF HOISTED /\ HostLost THEN "giveup" ELSE "wait"

Start(op, first) ==
  /\ At("idle")
  /\ op \in calls
  /\ call' = op
  /\ pc' = first
  /\ nonblock' \in BOOLEAN
  /\ left' \in IF op = "close" THEN {0} ELSE 1 .. MAX_LEN
  /\ ThreadUnchanged /\ Quiet
  /\ UNCHANGED <<ringVars, n, seen, moved, got, put, inOrder>>

Return ==
  /\ pc' = "idle" /\ call' = "none" /\ nonblock' = FALSE
  /\ left' = 0 /\ n' = 0 /\ seen' = 0 /\ moved' = FALSE

(* Both calls copy as much as they can in one piece, and go round again.   *)
Least(a, b) == IF a < b THEN a ELSE b

RxReady == IF rx_in >= rx_out THEN rx_in - rx_out ELSE BUF_LEN - rx_out

TxRoomAll ==   \* mutant: forgets the place that stays empty
  IF tx_in < tx_out THEN tx_out - 1 - tx_in ELSE BUF_LEN - tx_in

TxRoom ==
  IF tx_in < tx_out THEN tx_out - 1 - tx_in
  ELSE IF tx_out > 0 THEN BUF_LEN - tx_in
  ELSE BUF_LEN - 1 - tx_in

ReadCopy ==
  /\ At("read")
  /\ left > 0 /\ RxReady > 0
  /\ n' = Least(RxReady, left)
  /\ inOrder' = (inOrder /\ \A i \in 0 .. n' - 1 : rx_buf[rx_out + i] = Serial(got + i))
  /\ got' = Serial(got + n')
  /\ left' = left - n'
  /\ moved' = TRUE
  /\ pc' = "consume"
  /\ ThreadUnchanged /\ Quiet
  /\ UNCHANGED <<ringVars, call, nonblock, seen, put>>

ReadConsume ==
  /\ At("consume")
  /\ rx_out' = Wrap(rx_out + n)
  /\ n' = 0
  /\ pc' = "read"
  /\ ThreadUnchanged /\ Quiet
  /\ UNCHANGED <<rx_buf, rx_in, tx_buf, tx_in, tx_out, call, nonblock, left, seen, moved,
                 got, put, inOrder>>

ReadDone ==   \* some data is enough
  /\ At("read")
  /\ moved /\ (left = 0 \/ RxReady = 0)
  /\ pc' = "enable"
  /\ ThreadUnchanged /\ Quiet /\ UNCHANGED <<ringVars, callVars, got, put, inOrder>>

ReadNothing ==
  /\ At("read")
  /\ ~ moved /\ RxReady = 0
  /\ IF nonblock THEN Return
       ELSE pc' = Waiting /\ seen' = rx_in /\ UNCHANGED <<call, nonblock, left, n, moved>>
  /\ ThreadUnchanged /\ Quiet /\ UNCHANGED <<ringVars, got, put, inOrder>>

WriteCopy ==
  /\ At("write")
  /\ left > 0 /\ TxRoom > 0
  /\ n' = Least(TxRoom, left)
  /\ tx_buf' = [i \in Place |-> IF i \in tx_in .. tx_in + n' - 1 THEN Serial(put + i - tx_in)
                                                                 ELSE tx_buf[i]]
  /\ put' = Serial(put + n')
  /\ left' = left - n'
  /\ moved' = TRUE
  /\ pc' = "produce"
  /\ ThreadUnchanged /\ Quiet
  /\ UNCHANGED <<rx_buf, rx_in, rx_out, tx_in, tx_out, call, nonblock, seen, got, inOrder>>

WriteProduce ==
  /\ At("produce")
  /\ tx_in' = Wrap(tx_in + n)
  /\ n' = 0
  /\ pc' = "write"
  /\ ThreadUnchanged /\ Quiet
  /\ UNCHANGED <<rx_buf, rx_in, rx_out, tx_buf, tx_out, call, nonblock, left, seen, moved,
                 got, put, inOrder>>

WriteKick ==   \* out keeps the value with which the room was computed
  /\ At("write")
  /\ left = 0 \/ TxRoom = 0
  /\ seen' = IF left > 0 THEN tx_out ELSE 0
  /\ pc' = "enable"
  /\ ThreadUnchanged /\ Quiet
  /\ UNCHANGED <<ringVars, call, nonblock, left, n, moved, got, put, inOrder>>

\* irq_enable |= ..., with interrupts disabled.
Enable ==
  /\ At("enable")
  /\ irq_enable' = irq_enable \cup IF call = "read" THEN {"RE"} ELSE {"WE"}
  /\ IF call = "write" /\ left > 0 /\ ~ nonblock
       THEN pc' = Waiting /\ UNCHANGED callVars
       ELSE Return
  /\ ThreadUnchanged /\ UNCHANGED <<ringVars, alarmVars, irq_on, got, put, inOrder>>

(* Waiting for the interrupt routine to move the other end of the ring, or *)
(* for the alarm to find that the host is lost.                            *)
OtherEnd == IF call = "read" THEN rx_in ELSE tx_out

WaitOver ==
  /\ At("wait") \/ At("giveup")
  /\ seen # OtherEnd
  /\ pc' = call
  /\ ThreadUnchanged /\ Quiet /\ UNCHANGED <<ringVars, callVars, got, put, inOrder>>

WaitLost ==   \* what the call has moved before, if anything, is its result
  /\ At("giveup") \/ (At("wait") /\ HostLost /\ ~ HOISTED)
  /\ seen = OtherEnd
  /\ Return
  /\ ThreadUnchanged /\ Quiet /\ UNCHANGED <<ringVars, got, put, inOrder>>

Close ==
  /\ At("close")
  /\ IF tx_out = tx_in \/ HostLost \/ nonblock THEN Return
       ELSE pc' = "drain" /\ UNCHANGED callVars
  /\ ThreadUnchanged /\ Quiet /\ UNCHANGED <<ringVars, got, put, inOrder>>

CloseDrainedOnly ==   \* mutant: does not look at the host
  /\ At("drain")
  /\ tx_out = tx_in
  /\ Return
  /\ ThreadUnchanged /\ Quiet /\ UNCHANGED <<ringVars, got, put, inOrder>>

CloseDrained ==
  /\ At("drain")
  /\ tx_out = tx_in \/ (HostLost /\ ~ HOISTED)
  /\ Return
  /\ ThreadUnchanged /\ Quiet /\ UNCHANGED <<ringVars, got, put, inOrder>>

(* TIOCSTIMEOUT; an invalid time means for ever.                           *)
SetTimeout ==
  /\ At("idle")
  /\ timeout # INT_MAX
  /\ \E t \in Timeouts : timeout' = IF t >= 2 /\ t < INT_MAX THEN t ELSE INT_MAX - 1
  /\ ThreadUnchanged
  /\ UNCHANGED <<ringVars, irq_enable, host_inactive, alarm,  irq_on, threadVars,
                 got, put, inOrder>>

Proceed ==
  \/ InitDevice \/ InitRegister \/ InitAlarm
  \/ ReadCopy \/ ReadConsume \/ ReadDone \/ ReadNothing
  \/ WriteCopy \/ WriteProduce \/ WriteKick
  \/ Enable \/ WaitOver \/ WaitLost \/ Close \/ CloseDrained

Call == Start("read", "read") \/ Start("write", "write") \/ Start("close", "close")
          \/ SetTimeout

Next == Host \/ Isr \/ Timeout \/ Proceed \/ Call

Spec == Init /\ [][Next]_vars

\* The processor runs, and the host is slower than the interrupt routine: it
\* does not keep the thread from its work, nor the alarm.  None is assumed of
\* the host.
FairSpec == Spec /\ WF_vars(Isr) /\ SF_vars(Proceed) /\ SF_vars(Timeout)

-----------------------------------------------------------------------------
Held(from, to) == Wrap(to - from)   \* bytes in a ring

TypeOK ==
  /\ rx_buf \in [Place -> 0 .. SERIAL - 1] /\ tx_buf \in [Place -> 0 .. SERIAL - 1]
  /\ {rx_in, rx_out, tx_in, tx_out} \subseteq Place
  /\ irq_enable \subseteq {"RE", "WE"}
  /\ host_inactive \in 0 .. INT_MAX - 2
  /\ Len(rx_fifo) <= DEPTH /\ Len(tx_fifo) <= DEPTH
  /\ space \in 0 .. DEPTH
  /\ left \in 0 .. MAX_LEN /\ n \in 0 .. MAX_LEN

(* Both streams are whole: the bytes on their way are, place for place,    *)
(* the ones sent and not yet received, and none that arrived was out of    *)
(* order.  While a call has copied bytes and not yet moved its end of the  *)
(* ring, those bytes count as delivered by read(), not yet put by write(). *)
StreamInv ==
  /\ TypeOK
  /\ inOrder
  /\ LET first  == Wrap(rx_out + IF pc = "consume" THEN n ELSE 0)
         ring   == Held(first, rx_in)
     IN  /\ \A i \in 0 .. ring - 1 : rx_buf[Wrap(first + i)] = Serial(got + i)
         /\ \A i \in DOMAIN rx_fifo : rx_fifo[i] = Serial(got + ring + i - 1)
         /\ sent = Serial(got + ring + Len(rx_fifo))
  /\ LET ring   == Held(tx_out, tx_in)
         coming == IF pc = "produce" THEN n ELSE 0
     IN  /\ \A i \in DOMAIN tx_fifo : tx_fifo[i] = Serial(shown + i - 1)
         /\ \A i \in 0 .. ring - 1 :
              tx_buf[Wrap(tx_out + i)] = Serial(shown + Len(tx_fifo) + i)
         /\ put = Serial(shown + Len(tx_fifo) + ring + coming)

(* An interrupt that is off is never missed: with reception off there are  *)
(* bytes in the ring, so that the read() they wait for turns it on again,  *)
(* or that read() is under way; with transmission off nothing is left in   *)
(* the ring unless write() is about to turn it on.                         *)
NeverStalls ==
  pc \notin {"init"} =>
    /\ "RE" \notin irq_enable => rx_in # rx_out \/ (call = "read" /\ moved)
    /\ "WE" \notin irq_enable =>
         tx_in = tx_out \/ (call = "write" /\ pc \in {"write", "produce", "enable"})

(* A call comes to an end: any call if the host has left, the time until   *)
(* that is noticed is finite and the build reads host_inactive again while *)
(* it waits; write() and close() if the host takes what there is.          *)
HostLeft   == <>[][~ Host]_vars /\ <>[](alarm /\ timeout <= INT_MAX - 2) /\ ~ HOISTED
HostServes == WF_vars(HostTake)

CallsReturn ==
  /\ HostLeft   => (call # "none" ~> call = "none")
  /\ HostServes => (call \in {"write", "close"} ~> call = "none")
=============================================================================
