--------------------------- MODULE JtagUart_proofs ---------------------------
(***************************************************************************)
(* The two streams of the interrupt-driven driver, for rings and FIFOs of  *)
(* any size.                                                               *)
(***************************************************************************)
EXTENDS JtagUart, SequenceTheorems, TLAPS

-----------------------------------------------------------------------------
(* Indices wrap once at most; serial numbers add up.                       *)
Numbers == 0 .. SERIAL - 1

LEMMA Wraps ==
  ASSUME NEW k \in 0 .. 2 * BUF_LEN - 1
  PROVE  Wrap(k) = (IF k < BUF_LEN THEN k ELSE k - BUF_LEN) /\ Wrap(k) \in Place
  BY SizeAssumption DEF Wrap, Place

LEMMA HeldIs ==
  ASSUME NEW from \in Place, NEW to \in Place
  PROVE  /\ Held(from, to) = (IF to >= from THEN to - from ELSE to - from + BUF_LEN)
         /\ Held(from, to) \in 0 .. BUF_LEN - 1
  BY SizeAssumption DEF Held, Wrap, Place

\* Either end of what is held moves by j.
LEMMA HeldTo ==
  ASSUME NEW from \in Place, NEW to \in Place, NEW j \in Nat,
         Held(from, to) + j <= BUF_LEN - 1
  PROVE  Held(from, Wrap(to + j)) = Held(from, to) + j /\ Wrap(to + j) \in Place
<1> DEFINE h == Held(from, to)
           t == Wrap(to + j)
           g == Held(from, t)
<1>1. /\ h \in 0 .. BUF_LEN - 1 /\ from \in 0 .. BUF_LEN - 1 /\ to \in 0 .. BUF_LEN - 1
      /\ h = (IF to >= from THEN to - from ELSE to - from + BUF_LEN) /\ BUF_LEN \in Nat
      /\ h + j <= BUF_LEN - 1
  BY HeldIs, SizeAssumption DEF Place
<1>2. to + j \in 0 .. 2 * BUF_LEN - 1
  <2> HIDE DEF h
  <2> QED
    BY <1>1
<1>3. t = (IF to + j < BUF_LEN THEN to + j ELSE to + j - BUF_LEN) /\ t \in Place
  BY <1>1, <1>2, Wraps
<1>4. g = (IF t >= from THEN t - from ELSE t - from + BUF_LEN)
  BY <1>3, HeldIs
<1>5. g = h + j
  <2> HIDE DEF h, g, t
  <2> QED
    BY <1>1, <1>3, <1>4
<1> QED
  BY <1>3, <1>5

LEMMA HeldFrom ==
  ASSUME NEW from \in Place, NEW to \in Place, NEW j \in 0 .. Held(from, to)
  PROVE  Held(Wrap(from + j), to) = Held(from, to) - j /\ Wrap(from + j) \in Place
<1> DEFINE h == Held(from, to)
           f == Wrap(from + j)
           g == Held(f, to)
<1>1. /\ h \in 0 .. BUF_LEN - 1 /\ from \in 0 .. BUF_LEN - 1 /\ to \in 0 .. BUF_LEN - 1
      /\ h = (IF to >= from THEN to - from ELSE to - from + BUF_LEN) /\ BUF_LEN \in Nat
      /\ j \in 0 .. h
  BY HeldIs, SizeAssumption DEF Place
<1>2. from + j \in 0 .. 2 * BUF_LEN - 1
  <2> HIDE DEF h
  <2> QED
    BY <1>1
<1>3. f = (IF from + j < BUF_LEN THEN from + j ELSE from + j - BUF_LEN) /\ f \in Place
  BY <1>1, <1>2, Wraps
<1>4. g = (IF to >= f THEN to - f ELSE to - f + BUF_LEN)
  BY <1>3, HeldIs
<1>5. g = h - j
  <2> HIDE DEF h, g, f
  <2> QED
    BY <1>1, <1>3, <1>4
<1> QED
  BY <1>3, <1>5

\* A ring whose next place is not taken has room.
LEMMA HeldRoom ==
  ASSUME NEW from \in Place, NEW to \in Place, Wrap(to + 1) # from
  PROVE  Held(from, to) + 1 <= BUF_LEN - 1
<1> DEFINE h == Held(from, to)
           t == Wrap(to + 1)
<1>1. /\ h \in 0 .. BUF_LEN - 1 /\ from \in 0 .. BUF_LEN - 1 /\ to \in 0 .. BUF_LEN - 1
      /\ h = (IF to >= from THEN to - from ELSE to - from + BUF_LEN) /\ BUF_LEN \in Nat
      /\ BUF_LEN >= 2
  BY HeldIs, SizeAssumption DEF Place
<1>2. t = (IF to + 1 < BUF_LEN THEN to + 1 ELSE to + 1 - BUF_LEN)
  BY <1>1, Wraps
<1>3. t # from
  OBVIOUS
<1> HIDE DEF h, t
<1>4. h + 1 <= BUF_LEN - 1
  BY <1>1, <1>2, <1>3
<1> QED
  BY <1>4 DEF h

LEMMA Division ==
  ASSUME NEW a \in Nat, NEW b \in Nat \ {0}
  PROVE  /\ a \div b \in Nat /\ a % b \in 0 .. b - 1
         /\ a = b * (a \div b) + (a % b)
OBVIOUS

LEMMA Below ==
  ASSUME NEW b \in Nat \ {0}, NEW p \in Int, NEW q \in Int, b * p < b * q + b
  PROVE  p <= q
<1> SUFFICES ASSUME p >= q + 1 PROVE FALSE
  OBVIOUS
<1>1. p - q - 1 \in Nat /\ b \in Nat
  OBVIOUS
<1>2. b * (p - q - 1) >= 0
  BY <1>1
<1>3. b * (p - q - 1) = b * p - b * q - b
  BY <1>1
<1> QED
  BY <1>2, <1>3

LEMMA Remainder ==
  ASSUME NEW b \in Nat \ {0}, NEW q \in Nat, NEW r \in 0 .. b - 1
  PROVE  (b * q + r) % b = r
<1> DEFINE a == b * q + r
           p == a \div b
           m == a % b
<1>1. b \in Nat /\ b * q \in Nat /\ a \in Nat
  OBVIOUS
<1>2. p \in Nat /\ m \in 0 .. b - 1 /\ a = b * p + m
  BY <1>1, Division
<1>3. b * p \in Int /\ b * q \in Int /\ b * p + m = b * q + r
  BY <1>1, <1>2
<1> HIDE DEF a, p, m
<1>4. p <= q
  BY <1>2, <1>3, Below
<1>5. q <= p
  BY <1>2, <1>3, Below
<1>6. m = r
  BY <1>2, <1>3, <1>4, <1>5
<1> QED
  BY <1>6 DEF a, m

LEMMA SerialSum ==
  ASSUME NEW a \in Nat, NEW b \in Nat
  PROVE  Serial(Serial(a) + b) = Serial(a + b) /\ Serial(a) \in Numbers
<1> DEFINE s == SERIAL
<1>1. s \in Nat \ {0}
  BY SizeAssumption
<1> HIDE DEF s
<1>2. PICK q \in Nat, r \in 0 .. s - 1 : a = s * q + r /\ r = a % s
  BY <1>1, Division
<1>3. PICK p \in Nat, t \in 0 .. s - 1 : r + b = s * p + t /\ t = (r + b) % s
  <2>1. r + b \in Nat
    BY <1>1
  <2> QED
    BY <1>1, <2>1, Division
<1>4. a + b = s * (q + p) + t /\ q + p \in Nat
  <2> DEFINE x == s * q
             y == s * p
             z == s * (q + p)
  <2>1. x \in Nat /\ y \in Nat /\ z = x + y
    BY <1>1
  <2>2. a = x + r /\ r + b = y + t /\ r \in Nat /\ t \in Nat
    BY <1>1, <1>2, <1>3
  <2> HIDE DEF x, y, z
  <2>3. a + b = z + t
    BY <2>1, <2>2
  <2> QED
    BY <2>3 DEF z
<1>5. (s * (q + p) + t) % s = t
  BY <1>1, <1>4, Remainder
<1>6. Serial(a) = r /\ Serial(r + b) = t /\ Serial(a + b) = t
  BY <1>2, <1>3, <1>4, <1>5 DEF Serial, s
<1> QED
  BY <1>6, <1>1 DEF Numbers, s

LEMMA SerialOf ==
  ASSUME NEW a \in Numbers
  PROVE  a \in Nat /\ Serial(a) = a
  BY SizeAssumption DEF Serial, Numbers

-----------------------------------------------------------------------------
(* A stream as it stands.  The bytes a ring holds from a place on are      *)
(* those from a number on.                                                 *)
Holds(buf, first, k, m) == \A i \in 0 .. k - 1 : buf[Wrap(first + i)] = Serial(m + i)
Queues(fifo, m)         == \A i \in 1 .. Len(fifo) : fifo[i] = Serial(m + i - 1)

\* From the host by way of the FIFO and the ring; g is the next for read().
RxStream(buf, first, k, fifo, g, s) ==
  /\ Holds(buf, first, k, g)
  /\ Queues(fifo, g + k)
  /\ s = Serial(g + k + Len(fifo))

\* From write() by way of the ring and the FIFO; s is the next for the host.
TxStream(buf, first, k, fifo, s, p) ==
  /\ Queues(fifo, s)
  /\ Holds(buf, first, k, s + Len(fifo))
  /\ p = Serial(s + Len(fifo) + k)

RxBegin == Wrap(rx_out + IF pc = "consume" THEN n ELSE 0)
RxHeld  == Held(RxBegin, rx_in)
TxHeld  == Held(tx_out, tx_in) + IF pc = "produce" THEN n ELSE 0

RxPart ==
  /\ rx_buf \in [Place -> Numbers] /\ rx_in \in Place /\ rx_out \in Place
  /\ rx_fifo \in Seq(Numbers) /\ Len(rx_fifo) <= DEPTH
  /\ got \in Numbers /\ sent \in Numbers
  /\ pc = "consume" => n \in 1 .. RxReady
  /\ RxStream(rx_buf, RxBegin, RxHeld, rx_fifo, got, sent)

TxPart ==
  /\ tx_buf \in [Place -> Numbers] /\ tx_in \in Place /\ tx_out \in Place
  /\ tx_fifo \in Seq(Numbers) /\ space \in 0 .. DEPTH /\ space + Len(tx_fifo) <= DEPTH
  /\ put \in Numbers /\ shown \in Numbers
  /\ pc = "produce" => n \in 1 .. TxRoom
  /\ TxStream(tx_buf, tx_out, TxHeld, tx_fifo, shown, put)

ThreadValues ==
  /\ irq_enable \subseteq {"RE", "WE"}
  /\ host_inactive \in 0 .. INT_MAX - 2
  /\ left \in 0 .. MAX_LEN /\ n \in 0 .. MAX_LEN

ThreadPlace ==
  /\ pc \in {"init", "register", "alarm", "idle", "read", "consume", "write", "produce",
             "enable", "wait", "giveup", "close", "drain"}
  /\ isr \in {"off", "control", "rx", "tx"}
  /\ pc = "init" => ~ irq_on /\ isr = "off" /\ tx_in = tx_out

\* Which call the thread is in, by where it is.
ThreadCall ==
  /\ moved \in BOOLEAN
  /\ pc \in {"init", "register", "alarm", "idle"} => call = "none"
  /\ pc \in {"close", "drain"} => call = "close"
  /\ pc \in {"read", "consume"} => call = "read"
  /\ pc \in {"write", "produce"} => call = "write"
  /\ pc = "enable" => call \in {"read", "write"}
  /\ pc \in {"wait", "giveup"} => call = "write" \/ (call = "read" /\ ~ moved)
  /\ pc = "consume" => moved

ThreadPart == ThreadValues /\ ThreadPlace /\ ThreadCall

JtagIndInv == RxPart /\ TxPart /\ ThreadPart /\ NeverStalls /\ inOrder = TRUE

-----------------------------------------------------------------------------
(* The streams by themselves.                                              *)
LEMMA SerialNext ==
  ASSUME NEW g \in Nat, NEW k \in Nat
  PROVE  Serial(Serial(g + k) + 1) = Serial(g + k + 1)
<1>1. g + k \in Nat /\ 1 \in Nat /\ g + k + 1 = (g + k) + 1
  OBVIOUS
<1> QED
  BY <1>1, SerialSum

\* A byte more at the end of a FIFO, or one less at its front.
LEMMA QueuesAppend ==
  ASSUME NEW fifo \in Seq(Numbers), NEW m \in Nat, Queues(fifo, m)
  PROVE  /\ Queues(Append(fifo, Serial(m + Len(fifo))), m)
         /\ Append(fifo, Serial(m + Len(fifo))) \in Seq(Numbers)
         /\ Len(Append(fifo, Serial(m + Len(fifo)))) = Len(fifo) + 1
<1> DEFINE x == Serial(m + Len(fifo))
<1>1. m + Len(fifo) \in Nat
  OBVIOUS
<1>2. x \in Numbers
  BY <1>1, SerialSum
<1> HIDE DEF x
<1>3. /\ Append(fifo, x) \in Seq(Numbers) /\ Len(Append(fifo, x)) = Len(fifo) + 1
      /\ Append(fifo, x)[Len(fifo) + 1] = x
      /\ \A i \in 1 .. Len(fifo) : Append(fifo, x)[i] = fifo[i]
  BY <1>2, AppendProperties
<1>4. x = Serial(m + (Len(fifo) + 1) - 1)
  BY <1>1 DEF x
<1> DEFINE f == Append(fifo, x)
<1>5. Queues(f, m)
  <2> HIDE DEF f
  <2>1. Len(f) = Len(fifo) + 1 /\ f[Len(fifo) + 1] = x /\ \A i \in 1 .. Len(fifo) : f[i] = fifo[i]
    BY <1>3 DEF f
  <2>2. ASSUME NEW i \in 1 .. Len(f) PROVE f[i] = Serial(m + i - 1)
    <3>1. CASE i = Len(fifo) + 1
      BY <1>4, <2>1, <3>1
    <3>2. CASE i \in 1 .. Len(fifo)
      BY <2>1, <3>2 DEF Queues
    <3> QED
      BY <2>1, <3>1, <3>2
  <2> QED
    BY <2>2 DEF Queues
<1> QED
  BY <1>3, <1>5 DEF x

LEMMA QueuesTail ==
  ASSUME NEW fifo \in Seq(Numbers), NEW m \in Nat, Queues(fifo, m), fifo # << >>
  PROVE  /\ Head(fifo) = Serial(m) /\ Head(fifo) \in Numbers
         /\ Queues(Tail(fifo), m + 1)
         /\ Tail(fifo) \in Seq(Numbers) /\ Len(Tail(fifo)) = Len(fifo) - 1 /\ Len(fifo) >= 1
<1>1. /\ Tail(fifo) \in Seq(Numbers) /\ Len(Tail(fifo)) = Len(fifo) - 1 /\ Len(fifo) \in Nat \ {0}
      /\ \A i \in 1 .. Len(Tail(fifo)) : Tail(fifo)[i] = fifo[i + 1]
      /\ Head(fifo) = fifo[1] /\ Head(fifo) \in Numbers
  BY HeadTailProperties, EmptySeq, LenProperties
<1> DEFINE t == Tail(fifo)
<1> HIDE DEF t
<1>2. \A i \in 1 .. Len(t) : t[i] = Serial(m + 1 + i - 1)
  <2> SUFFICES ASSUME NEW i \in 1 .. Len(t) PROVE t[i] = Serial(m + 1 + i - 1)
    OBVIOUS
  <2>1. t[i] = fifo[i + 1] /\ i + 1 \in 1 .. Len(fifo)
    BY <1>1 DEF t
  <2>2. fifo[i + 1] = Serial(m + (i + 1) - 1) /\ m + (i + 1) - 1 = m + 1 + i - 1
    BY <2>1 DEF Queues
  <2> QED
    BY <2>1, <2>2
<1>3. fifo[1] = Serial(m)
  <2>1. 1 \in 1 .. Len(fifo) /\ m + 1 - 1 = m
    BY <1>1
  <2> QED
    BY <2>1 DEF Queues
<1> QED
  BY <1>1, <1>2, <1>3 DEF Queues, t

\* Numbers may be counted from the rest of a number.
LEMMA QueuesFrom ==
  ASSUME NEW fifo \in Seq(Numbers), NEW a \in Nat, NEW b \in Nat
  PROVE  Queues(fifo, Serial(a) + b) <=> Queues(fifo, a + b)
<1>1. ASSUME NEW i \in 1 .. Len(fifo)
      PROVE  Serial(Serial(a) + b + i - 1) = Serial(a + b + i - 1)
  <2>1. b + i - 1 \in Nat
    OBVIOUS
  <2>2. Serial(Serial(a) + (b + i - 1)) = Serial(a + (b + i - 1)) /\ Serial(a) \in Nat
    <3> DEFINE c == b + i - 1
    <3>1. c \in Nat
      BY <2>1
    <3> HIDE DEF c
    <3>2. Serial(Serial(a) + c) = Serial(a + c) /\ Serial(a) \in Numbers
      BY <3>1, SerialSum, Zenon
    <3>3. \A x \in Numbers : x \in Nat
      BY SizeAssumption DEF Numbers
    <3> QED
      BY <3>2, <3>3 DEF c
  <2>3. /\ Serial(a) + (b + i - 1) = Serial(a) + b + i - 1
        /\ a + (b + i - 1) = a + b + i - 1
    BY <2>2
  <2> QED
    BY <2>2, <2>3
<1> QED
  BY <1>1 DEF Queues

LEMMA HoldsFrom ==
  ASSUME NEW buf, NEW first \in Place, NEW k \in Nat, NEW a \in Nat, NEW b \in Nat
  PROVE  Holds(buf, first, k, Serial(a) + b) <=> Holds(buf, first, k, a + b)
<1>1. ASSUME NEW i \in 0 .. k - 1
      PROVE  Serial(Serial(a) + b + i) = Serial(a + b + i)
  <2>1. b + i \in Nat
    OBVIOUS
  <2>2. Serial(Serial(a) + (b + i)) = Serial(a + (b + i)) /\ Serial(a) \in Nat
    BY <2>1, SerialSum DEF Numbers
  <2>3. Serial(a) + (b + i) = Serial(a) + b + i /\ a + (b + i) = a + b + i
    BY <2>2
  <2> QED
    BY <2>2, <2>3
<1> QED
  BY <1>1 DEF Holds

\* A byte more at the end of what a ring holds, or some less at its front.
LEMMA HoldsMore ==
  ASSUME NEW buf \in [Place -> Numbers], NEW first \in Place, NEW k \in 0 .. BUF_LEN - 1,
         NEW m \in Nat, Holds(buf, first, k, m)
  PROVE  Holds([buf EXCEPT ![Wrap(first + k)] = Serial(m + k)], first, k + 1, m)
<1> DEFINE p == Wrap(first + k)
           new == [buf EXCEPT ![p] = Serial(m + k)]
<1>1. first \in 0 .. BUF_LEN - 1 /\ BUF_LEN \in Nat
  BY SizeAssumption DEF Place
<1>2. p \in Place
  BY <1>1, Wraps
<1>3. new[p] = Serial(m + k)
  BY <1>2
<1>4. ASSUME NEW i \in 0 .. k - 1 PROVE new[Wrap(first + i)] = Serial(m + i)
  <2>1. Wrap(first + i) \in Place /\ Wrap(first + i) # p
    BY <1>1, Wraps DEF Place
  <2> QED
    BY <2>1 DEF Holds
<1> HIDE DEF new, p
<1>5. ASSUME NEW i \in 0 .. k + 1 - 1 PROVE new[Wrap(first + i)] = Serial(m + i)
  <2>1. CASE i = k
    BY <1>3, <2>1 DEF p
  <2>2. CASE i # k
    BY <1>4, <2>2
  <2> QED
    BY <2>1, <2>2
<1> QED
  BY <1>5 DEF Holds, new, p

LEMMA HoldsLess ==
  ASSUME NEW buf, NEW first \in Place, NEW k \in 0 .. BUF_LEN - 1,
         NEW m \in Nat, NEW j \in 0 .. k, Holds(buf, first, k, m)
  PROVE  Holds(buf, Wrap(first + j), k - j, m + j)
<1>1. first \in 0 .. BUF_LEN - 1 /\ BUF_LEN \in Nat
  BY SizeAssumption DEF Place
<1>2. ASSUME NEW i \in 0 .. k - j - 1
      PROVE  buf[Wrap(Wrap(first + j) + i)] = Serial(m + j + i)
  <2>1. Wrap(Wrap(first + j) + i) = Wrap(first + (j + i))
    <3>1. Wrap(first + j) \in Place
      BY <1>1, Wraps
    <3> QED
      BY <1>1, <3>1, Wraps DEF Place
  <2>2. j + i \in 0 .. k - 1 /\ m + (j + i) = m + j + i
    OBVIOUS
  <2>3. buf[Wrap(first + (j + i))] = Serial(m + (j + i))
    BY <2>2 DEF Holds
  <2> QED
    BY <2>1, <2>2, <2>3
<1> QED
  BY <1>2 DEF Holds

LEMMA SerialFrom ==
  ASSUME NEW a \in Nat, NEW b \in Nat
  PROVE  Serial(Serial(a) + b) = Serial(a + b)
  BY SerialSum

LEMMA NumbersAre == \A x \in Numbers : x \in Nat /\ Serial(x) = x
  BY SerialOf

\* The host sends; the interrupt routine stores; read() takes j bytes.
LEMMA RxArrives ==
  ASSUME NEW buf, NEW first, NEW k \in Nat, NEW fifo \in Seq(Numbers), NEW g \in Numbers, NEW s,
         RxStream(buf, first, k, fifo, g, s)
  PROVE  /\ RxStream(buf, first, k, Append(fifo, s), g, Serial(s + 1))
         /\ Append(fifo, s) \in Seq(Numbers) /\ Len(Append(fifo, s)) = Len(fifo) + 1
<1>1. g \in Nat /\ Len(fifo) \in Nat /\ g + k \in Nat
  BY NumbersAre
<1>2. Queues(fifo, g + k) /\ s = Serial(g + k + Len(fifo)) /\ Holds(buf, first, k, g)
  BY DEF RxStream
<1>3. /\ Queues(Append(fifo, s), g + k) /\ Append(fifo, s) \in Seq(Numbers)
      /\ Len(Append(fifo, s)) = Len(fifo) + 1
  BY <1>1, <1>2, QueuesAppend
<1>4. Serial(s + 1) = Serial(g + k + (Len(fifo) + 1))
  <2>1. Serial(s + 1) = Serial(g + k + Len(fifo) + 1)
    BY <1>1, <1>2, SerialNext
  <2>2. g + k + Len(fifo) + 1 = g + k + (Len(fifo) + 1)
    BY <1>1
  <2> QED
    BY <2>1, <2>2
<1> QED
  BY <1>2, <1>3, <1>4 DEF RxStream

LEMMA RxStores ==
  ASSUME NEW buf \in [Place -> Numbers], NEW first \in Place, NEW k \in 0 .. BUF_LEN - 1,
         NEW fifo \in Seq(Numbers), NEW g \in Numbers, NEW s, fifo # << >>,
         RxStream(buf, first, k, fifo, g, s)
  PROVE  /\ RxStream([buf EXCEPT ![Wrap(first + k)] = Head(fifo)], first, k + 1, Tail(fifo), g, s)
         /\ Head(fifo) \in Numbers /\ Tail(fifo) \in Seq(Numbers) /\ Len(Tail(fifo)) = Len(fifo) - 1
<1>1. g \in Nat /\ k \in Nat /\ Len(fifo) \in Nat /\ g + k \in Nat
  BY NumbersAre
<1>2. Queues(fifo, g + k) /\ s = Serial(g + k + Len(fifo)) /\ Holds(buf, first, k, g)
  BY DEF RxStream
<1>3. /\ Head(fifo) = Serial(g + k) /\ Head(fifo) \in Numbers /\ Queues(Tail(fifo), g + k + 1)
      /\ Tail(fifo) \in Seq(Numbers) /\ Len(Tail(fifo)) = Len(fifo) - 1 /\ Len(fifo) >= 1
  BY <1>1, <1>2, QueuesTail
<1>4. Holds([buf EXCEPT ![Wrap(first + k)] = Head(fifo)], first, k + 1, g)
  BY <1>1, <1>2, <1>3, HoldsMore
<1>5. g + k + 1 = g + (k + 1) /\ g + k + Len(fifo) = g + (k + 1) + Len(Tail(fifo))
  BY <1>1, <1>3
<1> QED
  BY <1>2, <1>3, <1>4, <1>5 DEF RxStream

LEMMA RxTaken ==
  ASSUME NEW buf \in [Place -> Numbers], NEW first \in Place, NEW k \in 0 .. BUF_LEN - 1,
         NEW fifo \in Seq(Numbers), NEW g \in Numbers, NEW s, NEW j \in 0 .. k,
         RxStream(buf, first, k, fifo, g, s)
  PROVE  /\ RxStream(buf, Wrap(first + j), k - j, fifo, Serial(g + j), s)
         /\ Serial(g + j) \in Numbers
<1>1. g \in Nat /\ k \in Nat /\ j \in Nat /\ k - j \in Nat /\ Len(fifo) \in Nat /\ g + j \in Nat
  BY NumbersAre
<1>2. Queues(fifo, g + k) /\ s = Serial(g + k + Len(fifo)) /\ Holds(buf, first, k, g)
  BY DEF RxStream
<1>3. Wrap(first + j) \in Place
  BY Wraps, SizeAssumption DEF Place
<1>4. Serial(g + j) \in Numbers /\ Serial(g + j) \in Nat
  BY <1>1, SerialSum, NumbersAre
<1>5. Holds(buf, Wrap(first + j), k - j, Serial(g + j))
  <2>1. Holds(buf, Wrap(first + j), k - j, g + j)
    BY <1>1, <1>2, HoldsLess
  <2>2. g + j + 0 = g + j /\ Serial(g + j) + 0 = Serial(g + j) /\ 0 \in Nat
    BY <1>1, <1>4
  <2> QED
    BY <1>1, <1>3, <2>1, <2>2, HoldsFrom
<1>6. Queues(fifo, Serial(g + j) + (k - j))
  <2>1. g + j + (k - j) = g + k
    BY <1>1
  <2> QED
    BY <1>1, <1>2, <2>1, QueuesFrom
<1>7. s = Serial(Serial(g + j) + (k - j) + Len(fifo))
  <2>1. (k - j) + Len(fifo) \in Nat
    BY <1>1
  <2>2. Serial(Serial(g + j) + ((k - j) + Len(fifo))) = Serial((g + j) + ((k - j) + Len(fifo)))
    BY <1>1, <2>1, SerialFrom
  <2>3. /\ (g + j) + ((k - j) + Len(fifo)) = g + k + Len(fifo)
        /\ Serial(g + j) + ((k - j) + Len(fifo)) = Serial(g + j) + (k - j) + Len(fifo)
    BY <1>1, <1>4
  <2> QED
    BY <1>2, <2>2, <2>3
<1> QED
  BY <1>4, <1>5, <1>6, <1>7 DEF RxStream

\* The host takes; the interrupt routine sends; write() puts j bytes.
LEMMA TxTaken ==
  ASSUME NEW buf, NEW first \in Place, NEW k \in Nat, NEW fifo \in Seq(Numbers),
         NEW s \in Numbers, NEW p, fifo # << >>, TxStream(buf, first, k, fifo, s, p)
  PROVE  /\ Head(fifo) = s /\ Serial(s + 1) \in Numbers
         /\ TxStream(buf, first, k, Tail(fifo), Serial(s + 1), p)
         /\ Tail(fifo) \in Seq(Numbers) /\ Len(Tail(fifo)) = Len(fifo) - 1
<1>1. s \in Nat /\ s + 1 \in Nat /\ Serial(s) = s /\ Len(fifo) \in Nat
  BY NumbersAre
<1>2. Queues(fifo, s) /\ Holds(buf, first, k, s + Len(fifo)) /\ p = Serial(s + Len(fifo) + k)
  BY DEF TxStream
<1>3. /\ Head(fifo) = Serial(s) /\ Queues(Tail(fifo), s + 1)
      /\ Tail(fifo) \in Seq(Numbers) /\ Len(Tail(fifo)) = Len(fifo) - 1 /\ Len(fifo) >= 1
  BY <1>1, <1>2, QueuesTail
<1>4. Len(Tail(fifo)) \in Nat /\ s + 1 + Len(Tail(fifo)) = s + Len(fifo)
  BY <1>1, <1>3
<1>5. Serial(s + 1) \in Numbers /\ Serial(s + 1) \in Nat
  BY <1>1, SerialSum, NumbersAre
<1>6. Queues(Tail(fifo), Serial(s + 1))
  <2>1. s + 1 + 0 = s + 1 /\ Serial(s + 1) + 0 = Serial(s + 1) /\ 0 \in Nat
    BY <1>1, <1>5
  <2> QED
    BY <1>1, <1>3, <2>1, QueuesFrom
<1>7. Holds(buf, first, k, Serial(s + 1) + Len(Tail(fifo)))
  BY <1>1, <1>2, <1>4, HoldsFrom
<1>8. p = Serial(Serial(s + 1) + Len(Tail(fifo)) + k)
  <2>1. Len(Tail(fifo)) + k \in Nat
    BY <1>4
  <2>2. Serial(Serial(s + 1) + (Len(Tail(fifo)) + k)) = Serial(s + 1 + (Len(Tail(fifo)) + k))
    BY <1>1, <2>1, SerialFrom
  <2>3. /\ s + 1 + (Len(Tail(fifo)) + k) = s + Len(fifo) + k
        /\ Serial(s + 1) + (Len(Tail(fifo)) + k) = Serial(s + 1) + Len(Tail(fifo)) + k
    BY <1>1, <1>4, <1>5
  <2> QED
    BY <1>2, <2>2, <2>3
<1> QED
  BY <1>1, <1>3, <1>5, <1>6, <1>7, <1>8 DEF TxStream

LEMMA TxSent ==
  ASSUME NEW buf \in [Place -> Numbers], NEW first \in Place, NEW k \in 1 .. BUF_LEN - 1,
         NEW fifo \in Seq(Numbers), NEW s \in Numbers, NEW p, TxStream(buf, first, k, fifo, s, p)
  PROVE  /\ TxStream(buf, Wrap(first + 1), k - 1, Append(fifo, buf[first]), s, p)
         /\ Append(fifo, buf[first]) \in Seq(Numbers)
         /\ Len(Append(fifo, buf[first])) = Len(fifo) + 1
<1>1. s \in Nat /\ k \in Nat /\ Len(fifo) \in Nat /\ s + Len(fifo) \in Nat /\ k \in 0 .. BUF_LEN - 1
  BY NumbersAre
<1>2. Queues(fifo, s) /\ Holds(buf, first, k, s + Len(fifo)) /\ p = Serial(s + Len(fifo) + k)
  BY DEF TxStream
<1>3. buf[first] = Serial(s + Len(fifo))
  <2>1. Wrap(first + 0) = first /\ 0 \in 0 .. k - 1 /\ s + Len(fifo) + 0 = s + Len(fifo)
    BY <1>1, Wraps, SizeAssumption DEF Place
  <2> QED
    BY <1>2, <2>1 DEF Holds
<1>4. /\ Queues(Append(fifo, buf[first]), s) /\ Append(fifo, buf[first]) \in Seq(Numbers)
      /\ Len(Append(fifo, buf[first])) = Len(fifo) + 1
  BY <1>1, <1>2, <1>3, QueuesAppend
<1>5. Holds(buf, Wrap(first + 1), k - 1, s + Len(fifo) + 1)
  <2>1. 1 \in 0 .. k
    OBVIOUS
  <2> QED
    BY <1>1, <1>2, <2>1, HoldsLess
<1>6. /\ s + Len(fifo) + 1 = s + (Len(fifo) + 1)
      /\ s + Len(fifo) + k = s + (Len(fifo) + 1) + (k - 1)
  BY <1>1
<1> QED
  BY <1>2, <1>4, <1>5, <1>6 DEF TxStream

LEMMA TxPuts ==
  ASSUME NEW buf, NEW new, NEW first \in Place, NEW k \in Nat, NEW j \in Nat,
         NEW fifo \in Seq(Numbers), NEW s \in Numbers, NEW p, TxStream(buf, first, k, fifo, s, p),
         \A i \in 0 .. k - 1 : new[Wrap(first + i)] = buf[Wrap(first + i)],
         \A i \in 0 .. j - 1 : new[Wrap(first + (k + i))] = Serial(p + i)
  PROVE  TxStream(new, first, k + j, fifo, s, Serial(p + j)) /\ Serial(p + j) \in Numbers
<1>1. s \in Nat /\ Len(fifo) \in Nat
  BY NumbersAre
<1>2. Queues(fifo, s) /\ Holds(buf, first, k, s + Len(fifo)) /\ p = Serial(s + Len(fifo) + k)
  BY DEF TxStream
<1>3. ASSUME NEW i \in Nat PROVE Serial(p + i) = Serial(s + Len(fifo) + (k + i))
  <2>1. s + Len(fifo) + k \in Nat /\ s + Len(fifo) + k + i = s + Len(fifo) + (k + i)
    BY <1>1
  <2> QED
    BY <1>2, <2>1, SerialFrom
<1>4. ASSUME NEW i \in 0 .. k + j - 1
      PROVE  new[Wrap(first + i)] = Serial(s + Len(fifo) + i)
  <2>1. CASE i \in 0 .. k - 1
    BY <1>2, <2>1 DEF Holds
  <2>2. CASE i \notin 0 .. k - 1
    <3>1. PICK h \in 0 .. j - 1 : i = k + h
      <4>1. i - k \in 0 .. j - 1 /\ i = k + (i - k)
        BY <2>2
      <4> QED
        BY <4>1
    <3>2. Serial(p + h) = Serial(s + Len(fifo) + (k + h))
      BY <1>3
    <3> QED
      BY <3>1, <3>2
  <2> QED
    BY <2>1, <2>2
<1>5. Serial(p + j) = Serial(s + Len(fifo) + (k + j))
  BY <1>3
<1>6. Serial(s + Len(fifo) + (k + j)) \in Numbers
  <2>1. s + Len(fifo) + (k + j) \in Nat
    BY <1>1
  <2> QED
    BY <2>1, SerialSum
<1> QED
  BY <1>2, <1>4, <1>5, <1>6 DEF TxStream, Holds

-----------------------------------------------------------------------------
(* The rings: what is ready and what is free, in one piece, is no more     *)
(* than there is; a call that has copied may still move its end.           *)
LEMMA RxFacts ==
  ASSUME RxPart, NEW k, k = IF pc = "consume" THEN n ELSE 0
  PROVE  /\ rx_in \in Place /\ rx_out \in Place /\ Held(rx_out, rx_in) \in 0 .. BUF_LEN - 1
         /\ RxReady \in 0 .. Held(rx_out, rx_in) /\ rx_out + RxReady <= BUF_LEN
         /\ RxReady = 0 => rx_in = rx_out
         /\ k \in 0 .. RxReady
         /\ RxBegin = Wrap(rx_out + k) /\ RxBegin \in Place
         /\ RxHeld = Held(rx_out, rx_in) - k /\ RxHeld \in 0 .. BUF_LEN - 1
         /\ Wrap(RxBegin + RxHeld) = rx_in
<1>1. rx_in \in Place /\ rx_out \in Place /\ BUF_LEN \in Nat
  BY SizeAssumption DEF RxPart
<1>2. /\ Held(rx_out, rx_in) \in 0 .. BUF_LEN - 1
      /\ Held(rx_out, rx_in) = IF rx_in >= rx_out THEN rx_in - rx_out ELSE rx_in - rx_out + BUF_LEN
  BY <1>1, HeldIs
<1>3. /\ RxReady \in 0 .. Held(rx_out, rx_in) /\ rx_out + RxReady <= BUF_LEN
      /\ RxReady = 0 => rx_in = rx_out
  BY <1>1, <1>2 DEF RxReady, Place
<1>4. k \in 0 .. RxReady
  BY <1>1, <1>3 DEF RxPart
<1>5. RxBegin = Wrap(rx_out + k)
  BY DEF RxBegin
<1>6. rx_out + k \in 0 .. BUF_LEN /\ RxBegin = IF rx_out + k < BUF_LEN THEN rx_out + k ELSE 0
  <2>1. rx_out + k \in 0 .. BUF_LEN
    BY <1>1, <1>3, <1>4 DEF Place
  <2> QED
    BY <1>1, <1>5, <2>1, Wraps, SizeAssumption
<1>7. RxBegin \in Place
  BY <1>1, <1>6, SizeAssumption DEF Place
<1>8. RxHeld = (IF rx_in >= RxBegin THEN rx_in - RxBegin ELSE rx_in - RxBegin + BUF_LEN)
      /\ RxHeld \in 0 .. BUF_LEN - 1
  BY <1>1, <1>7, HeldIs DEF RxHeld
<1>9. RxHeld = Held(rx_out, rx_in) - k
  BY <1>1, <1>2, <1>3, <1>4, <1>6, <1>8 DEF RxReady, Place
<1>10. Wrap(RxBegin + RxHeld) = rx_in
  <2>1. RxBegin + RxHeld \in 0 .. 2 * BUF_LEN - 1
    BY <1>1, <1>7, <1>8 DEF Place
  <2> QED
    BY <1>1, <1>7, <1>8, <2>1, Wraps DEF Place
<1> QED
  BY <1>1, <1>2, <1>3, <1>4, <1>5, <1>7, <1>8, <1>9, <1>10

LEMMA TxFacts ==
  ASSUME TxPart, NEW k, k = IF pc = "produce" THEN n ELSE 0
  PROVE  /\ tx_in \in Place /\ tx_out \in Place /\ Held(tx_out, tx_in) \in 0 .. BUF_LEN - 1
         /\ TxRoom \in Nat /\ TxRoom + Held(tx_out, tx_in) <= BUF_LEN - 1
         /\ tx_in + TxRoom <= BUF_LEN
         /\ Held(tx_out, tx_in) = 0 => tx_in = tx_out
         /\ k \in 0 .. TxRoom
         /\ TxHeld = Held(tx_out, tx_in) + k /\ TxHeld \in 0 .. BUF_LEN - 1
         /\ Wrap(tx_out + Held(tx_out, tx_in)) = tx_in
<1>1. tx_in \in Place /\ tx_out \in Place /\ BUF_LEN \in Nat
  BY SizeAssumption DEF TxPart
<1>2. /\ Held(tx_out, tx_in) \in 0 .. BUF_LEN - 1
      /\ Held(tx_out, tx_in) = IF tx_in >= tx_out THEN tx_in - tx_out ELSE tx_in - tx_out + BUF_LEN
  BY <1>1, HeldIs
<1>3. /\ TxRoom \in Nat /\ TxRoom + Held(tx_out, tx_in) <= BUF_LEN - 1
      /\ tx_in + TxRoom <= BUF_LEN
  BY <1>1, <1>2 DEF TxRoom, Place
<1>4. k \in 0 .. TxRoom
  BY <1>1, <1>3 DEF TxPart
<1>5. TxHeld = Held(tx_out, tx_in) + k /\ TxHeld \in 0 .. BUF_LEN - 1
  BY <1>1, <1>2, <1>3, <1>4 DEF TxHeld
<1>6. Wrap(tx_out + Held(tx_out, tx_in)) = tx_in
  <2>1. tx_out + Held(tx_out, tx_in) \in 0 .. 2 * BUF_LEN - 1
    BY <1>1, <1>2 DEF Place
  <2> QED
    BY <1>1, <1>2, <2>1, Wraps DEF Place
<1>7. Held(tx_out, tx_in) = 0 => tx_in = tx_out
  BY <1>1, <1>2 DEF Place
<1> QED
  BY <1>1, <1>2, <1>3, <1>4, <1>5, <1>6, <1>7

\* A step that leaves a stream alone.
LEMMA RxSame ==
  ASSUME RxPart, UNCHANGED <<rx_buf, rx_in, rx_out, rx_fifo, got, sent>>,
         (pc # "consume" /\ pc' # "consume") \/ UNCHANGED <<pc, n>>
  PROVE  RxPart'
<1>1. RxBegin' = RxBegin
  BY DEF RxBegin
<1>2. RxHeld' = RxHeld /\ RxReady' = RxReady
  BY <1>1 DEF RxHeld, RxReady
<1> QED
  BY <1>1, <1>2 DEF RxPart

LEMMA TxSame ==
  ASSUME TxPart, UNCHANGED <<tx_buf, tx_in, tx_out, tx_fifo, put, shown>>,
         (pc # "produce" /\ pc' # "produce") \/ UNCHANGED <<pc, n>>,
         space' \in 0 .. DEPTH /\ space' + Len(tx_fifo) <= DEPTH
  PROVE  TxPart'
<1>1. TxHeld' = TxHeld /\ TxRoom' = TxRoom
  BY DEF TxHeld, TxRoom
<1> QED
  BY <1>1 DEF TxPart

-----------------------------------------------------------------------------
(* The steps that move a byte.                                             *)
LEMMA HostSends ==
  ASSUME RxPart, HostSend
  PROVE  RxPart'
<1>1. /\ rx_fifo' = Append(rx_fifo, sent) /\ sent' = Serial(sent + 1) /\ Len(rx_fifo) < DEPTH
      /\ UNCHANGED <<rx_buf, rx_in, rx_out, got, pc, n>>
  BY DEF HostSend, ringVars, threadVars, callVars
<1>2. RxBegin' = RxBegin /\ RxHeld' = RxHeld /\ RxReady' = RxReady
  BY <1>1 DEF RxBegin, RxHeld, RxReady
<1>3. RxBegin \in Place /\ RxHeld \in Nat
  BY RxFacts
<1>4. /\ RxStream(rx_buf, RxBegin, RxHeld, rx_fifo', got, sent')
      /\ rx_fifo' \in Seq(Numbers) /\ Len(rx_fifo') = Len(rx_fifo) + 1
  BY <1>1, <1>3, RxArrives DEF RxPart
<1>5. sent' \in Numbers
  <2>1. sent + 1 \in Nat
    BY NumbersAre DEF RxPart
  <2> QED
    BY <1>1, <2>1, SerialSum
<1>6. Len(rx_fifo) \in Nat /\ DEPTH \in Nat
  BY SizeAssumption DEF RxPart
<1> QED
  BY <1>1, <1>2, <1>4, <1>5, <1>6 DEF RxPart

LEMMA IsrReceives ==
  ASSUME RxPart, IsrReceive
  PROVE  RxPart'
<1>1. /\ rx_buf' = [rx_buf EXCEPT ![rx_in] = Head(rx_fifo)] /\ rx_in' = Wrap(rx_in + 1)
      /\ rx_fifo' = Tail(rx_fifo) /\ rx_fifo # << >> /\ Wrap(rx_in + 1) # rx_out
      /\ UNCHANGED <<rx_out, got, sent, pc, n>>
  BY DEF IsrReceive, IsrUnchanged, RxFull, threadVars, callVars
<1>2. PICK k : k = IF pc = "consume" THEN n ELSE 0
  OBVIOUS
<1>3. /\ rx_in \in Place /\ rx_out \in Place
      /\ k \in 0 .. RxReady /\ RxBegin \in Place
      /\ RxHeld = Held(rx_out, rx_in) - k /\ RxHeld \in 0 .. BUF_LEN - 1
      /\ Wrap(RxBegin + RxHeld) = rx_in /\ rx_out + RxReady <= BUF_LEN
  BY <1>2, RxFacts
<1>4. RxBegin' = RxBegin
  BY <1>1 DEF RxBegin
<1>5. Held(rx_out, rx_in) + 1 <= BUF_LEN - 1
  BY <1>1, <1>3, HeldRoom
<1>6. RxHeld + 1 <= BUF_LEN - 1 /\ Held(rx_out, rx_in) \in Nat
  BY <1>3, <1>5, HeldIs, SizeAssumption
<1>7. rx_in' \in Place
  BY <1>1, <1>3, <1>5, HeldTo
<1>8. RxHeld' = RxHeld + 1
  <2>1. Held(RxBegin, Wrap(rx_in + 1)) = Held(RxBegin, rx_in) + 1
    BY <1>3, <1>6, HeldTo DEF RxHeld
  <2> QED
    BY <1>1, <1>4, <2>1 DEF RxHeld
<1>9. /\ RxStream(rx_buf', RxBegin, RxHeld + 1, rx_fifo', got, sent)
      /\ Head(rx_fifo) \in Numbers /\ rx_fifo' \in Seq(Numbers) /\ Len(rx_fifo') = Len(rx_fifo) - 1
  BY <1>1, <1>3, RxStores DEF RxPart
<1>10. rx_buf' \in [Place -> Numbers]
  BY <1>1, <1>9 DEF RxPart
<1>11. pc' = "consume" => n' \in 1 .. RxReady'
  <2>1. /\ rx_in \in 0 .. BUF_LEN - 1 /\ rx_out \in 0 .. BUF_LEN - 1 /\ BUF_LEN \in Nat
        /\ rx_in' = (IF rx_in + 1 < BUF_LEN THEN rx_in + 1 ELSE rx_in + 1 - BUF_LEN)
    BY <1>1, <1>3, Wraps, SizeAssumption DEF Place
  <2>2. RxReady' = IF rx_in' >= rx_out THEN rx_in' - rx_out ELSE BUF_LEN - rx_out
    BY <1>1 DEF RxReady
  <2>3. (RxReady' \in Nat /\ RxReady' >= RxReady) \/ rx_in' = rx_out
    BY <2>1, <2>2 DEF RxReady
  <2>4. pc = "consume" => n \in 1 .. RxReady
    BY DEF RxPart
  <2>5. RxReady \in Nat
    BY <2>1 DEF RxReady
  <2> QED
    BY <1>1, <2>3, <2>4, <2>5
<1>12. Len(rx_fifo') <= DEPTH
  <2>1. Len(rx_fifo) \in Nat /\ Len(rx_fifo) <= DEPTH /\ DEPTH \in Nat
    BY SizeAssumption DEF RxPart
  <2> QED
    BY <1>9, <2>1
<1> QED
  BY <1>1, <1>3, <1>4, <1>7, <1>8, <1>9, <1>10, <1>11, <1>12 DEF RxPart

LEMMA ReadCopies ==
  ASSUME RxPart, inOrder = TRUE, left \in 0 .. MAX_LEN, ReadCopy
  PROVE  RxPart' /\ inOrder' = TRUE
<1>1. /\ left > 0 /\ RxReady > 0 /\ n' = Least(RxReady, left)
      /\ inOrder' = (inOrder /\ \A i \in 0 .. n' - 1 : rx_buf[rx_out + i] = Serial(got + i))
      /\ got' = Serial(got + n') /\ pc = "read" /\ pc' = "consume"
      /\ UNCHANGED <<rx_buf, rx_in, rx_out, rx_fifo, sent>>
  BY DEF ReadCopy, At, ThreadUnchanged, ringVars
<1>2. /\ rx_in \in Place /\ rx_out \in Place /\ Held(rx_out, rx_in) \in 0 .. BUF_LEN - 1
      /\ RxReady \in 0 .. Held(rx_out, rx_in) /\ rx_out + RxReady <= BUF_LEN
      /\ RxBegin = Wrap(rx_out + 0) /\ RxHeld = Held(rx_out, rx_in) - 0
  BY <1>1, RxFacts
<1>3. n' \in 1 .. RxReady /\ RxReady' = RxReady
  BY <1>1, <1>2 DEF Least, RxReady
<1>4. Wrap(rx_out + 0) = rx_out /\ Held(rx_out, rx_in) - 0 = Held(rx_out, rx_in)
  BY <1>2, Wraps, SizeAssumption DEF Place
<1>5. RxStream(rx_buf, rx_out, Held(rx_out, rx_in), rx_fifo, got, sent)
  BY <1>2, <1>4 DEF RxPart
<1>6. /\ RxStream(rx_buf, Wrap(rx_out + n'), Held(rx_out, rx_in) - n', rx_fifo, got', sent)
      /\ got' \in Numbers
  <2>1. n' \in 0 .. Held(rx_out, rx_in)
    BY <1>2, <1>3
  <2> QED
    BY <1>1, <1>2, <1>5, <2>1, RxTaken DEF RxPart
<1>7. \A i \in 0 .. n' - 1 : rx_buf[rx_out + i] = Serial(got + i)
  <2> SUFFICES ASSUME NEW i \in 0 .. n' - 1 PROVE rx_buf[rx_out + i] = Serial(got + i)
    OBVIOUS
  <2>1. /\ rx_out + i \in 0 .. BUF_LEN - 1 /\ i \in 0 .. Held(rx_out, rx_in) - 1
        /\ BUF_LEN \in Nat
    <3>1. rx_out \in 0 .. BUF_LEN - 1 /\ BUF_LEN \in Nat
      BY <1>2, SizeAssumption DEF Place
    <3>2. PICK h \in Nat : h = Held(rx_out, rx_in)
      BY <1>2
    <3>3. RxReady \in 0 .. h /\ rx_out + RxReady <= BUF_LEN /\ n' \in 1 .. RxReady
      BY <1>2, <1>3, <3>2
    <3>4. PICK r \in Nat, m \in Nat : r = RxReady /\ m = n'
      BY <3>3
    <3>5. r \in 0 .. h /\ rx_out + r <= BUF_LEN /\ m \in 1 .. r /\ i \in 0 .. m - 1
      BY <3>3, <3>4
    <3>6. rx_out + i \in 0 .. BUF_LEN - 1 /\ i \in 0 .. h - 1
      BY <3>1, <3>5
    <3> QED
      BY <3>1, <3>2, <3>6
  <2>2. Wrap(rx_out + i) = rx_out + i
    BY <2>1, Wraps
  <2> QED
    BY <1>5, <2>1, <2>2 DEF RxStream, Holds
<1>8. RxBegin' = Wrap(rx_out + n')
  BY <1>1 DEF RxBegin
<1>9. RxHeld' = Held(rx_out, rx_in) - n'
  <2>1. n' \in 0 .. Held(rx_out, rx_in)
    BY <1>2, <1>3
  <2>2. Held(Wrap(rx_out + n'), rx_in) = Held(rx_out, rx_in) - n'
    BY <1>2, <2>1, HeldFrom
  <2> QED
    BY <1>1, <1>8, <2>2 DEF RxHeld
<1>10. RxPart'
  BY <1>1, <1>3, <1>6, <1>8, <1>9 DEF RxPart
<1> QED
  BY <1>1, <1>7, <1>10

LEMMA ReadConsumes ==
  ASSUME RxPart, ReadConsume
  PROVE  RxPart'
<1>1. /\ rx_out' = Wrap(rx_out + n) /\ pc = "consume" /\ pc' = "read"
      /\ UNCHANGED <<rx_buf, rx_in, rx_fifo, got, sent>>
  BY DEF ReadConsume, At, ThreadUnchanged
<1>2. RxBegin = Wrap(rx_out + n) /\ RxBegin \in Place
  BY <1>1, RxFacts
<1>3. RxBegin' = RxBegin
  <2>1. RxBegin' = Wrap(rx_out' + 0)
    BY <1>1 DEF RxBegin
  <2> QED
    BY <1>1, <1>2, <2>1, Wraps, SizeAssumption DEF Place
<1>4. RxHeld' = RxHeld
  BY <1>1, <1>3 DEF RxHeld
<1> QED
  BY <1>1, <1>2, <1>3, <1>4 DEF RxPart
LEMMA HostTakes ==
  ASSUME TxPart, inOrder = TRUE, HostTake
  PROVE  TxPart' /\ inOrder' = TRUE
<1>1. /\ tx_fifo' = Tail(tx_fifo) /\ shown' = Serial(shown + 1) /\ tx_fifo # << >>
      /\ inOrder' = (inOrder /\ Head(tx_fifo) = shown)
      /\ UNCHANGED <<tx_buf, tx_in, tx_out, put, pc, n, space>>
  BY DEF HostTake, ringVars, threadVars, callVars, isrVars
<1>2. TxHeld' = TxHeld /\ TxRoom' = TxRoom
  BY <1>1 DEF TxHeld, TxRoom
<1>3. tx_out \in Place /\ TxHeld \in Nat
  BY TxFacts
<1>4. /\ Head(tx_fifo) = shown /\ shown' \in Numbers
      /\ TxStream(tx_buf, tx_out, TxHeld, tx_fifo', shown', put)
      /\ tx_fifo' \in Seq(Numbers) /\ Len(tx_fifo') = Len(tx_fifo) - 1
  BY <1>1, <1>3, TxTaken DEF TxPart
<1>5. space + Len(tx_fifo') <= DEPTH
  <2>1. space \in Nat /\ Len(tx_fifo) \in Nat /\ space + Len(tx_fifo) <= DEPTH /\ DEPTH \in Nat
    BY SizeAssumption DEF TxPart
  <2> QED
    BY <1>4, <2>1
<1>6. TxPart'
  BY <1>1, <1>2, <1>4, <1>5 DEF TxPart
<1> QED
  BY <1>1, <1>4, <1>6

LEMMA IsrTransmits ==
  ASSUME TxPart, IsrTransmit
  PROVE  TxPart'
<1>1. /\ tx_fifo' = Append(tx_fifo, tx_buf[tx_out]) /\ tx_out' = Wrap(tx_out + 1)
      /\ space' = space - 1 /\ space > 0 /\ tx_out # tx_in
      /\ UNCHANGED <<tx_buf, tx_in, put, shown, pc, n>>
  BY DEF IsrTransmit, IsrUnchanged, threadVars, callVars
<1>2. PICK k : k = IF pc = "produce" THEN n ELSE 0
  OBVIOUS
<1>3. /\ tx_in \in Place /\ tx_out \in Place /\ Held(tx_out, tx_in) \in 0 .. BUF_LEN - 1
      /\ Held(tx_out, tx_in) = 0 => tx_in = tx_out
      /\ k \in 0 .. TxRoom /\ TxRoom \in Nat
      /\ TxHeld = Held(tx_out, tx_in) + k /\ TxHeld \in 0 .. BUF_LEN - 1
  BY <1>2, TxFacts
<1>4. 1 \in 0 .. Held(tx_out, tx_in) /\ TxHeld \in 1 .. BUF_LEN - 1
  BY <1>1, <1>3
<1>5. Held(tx_out', tx_in) = Held(tx_out, tx_in) - 1 /\ tx_out' \in Place
  BY <1>1, <1>3, <1>4, HeldFrom
<1>6. TxHeld' = TxHeld - 1
  BY <1>1, <1>2, <1>3, <1>5 DEF TxHeld
<1>7. /\ TxStream(tx_buf, tx_out', TxHeld - 1, tx_fifo', shown, put)
      /\ tx_fifo' \in Seq(Numbers) /\ Len(tx_fifo') = Len(tx_fifo) + 1
  BY <1>1, <1>3, <1>4, TxSent DEF TxPart
<1>8. space' \in 0 .. DEPTH /\ space' + Len(tx_fifo') <= DEPTH
  <2>1. space \in 0 .. DEPTH /\ Len(tx_fifo) \in Nat /\ space + Len(tx_fifo) <= DEPTH /\ DEPTH \in Nat
    BY SizeAssumption DEF TxPart
  <2> QED
    BY <1>1, <1>7, <2>1
<1>9. pc' = "produce" => n' \in 1 .. TxRoom'
  <2>1. /\ tx_in \in 0 .. BUF_LEN - 1 /\ tx_out \in 0 .. BUF_LEN - 1 /\ BUF_LEN \in Nat
        /\ tx_out' = (IF tx_out + 1 < BUF_LEN THEN tx_out + 1 ELSE tx_out + 1 - BUF_LEN)
    BY <1>1, <1>3, Wraps, SizeAssumption DEF Place
  <2>2. TxRoom' = IF tx_in < tx_out' THEN tx_out' - 1 - tx_in
                  ELSE IF tx_out' > 0 THEN BUF_LEN - tx_in
                  ELSE BUF_LEN - 1 - tx_in
    BY <1>1 DEF TxRoom
  <2>3. TxRoom' \in Nat /\ TxRoom' >= TxRoom
    BY <1>1, <2>1, <2>2 DEF TxRoom
  <2>4. pc = "produce" => n \in 1 .. TxRoom
    BY DEF TxPart
  <2> QED
    BY <1>1, <1>3, <2>3, <2>4
<1> QED
  BY <1>1, <1>3, <1>5, <1>6, <1>7, <1>8, <1>9 DEF TxPart

LEMMA WriteCopies ==
  ASSUME TxPart, left \in 0 .. MAX_LEN, WriteCopy
  PROVE  TxPart' /\ left' \in 0 .. MAX_LEN /\ n' \in 0 .. MAX_LEN
<1>1. /\ left > 0 /\ TxRoom > 0 /\ n' = Least(TxRoom, left) /\ left' = left - n'
      /\ tx_buf' = [i \in Place |-> IF i \in tx_in .. tx_in + n' - 1 THEN Serial(put + i - tx_in)
                                                                     ELSE tx_buf[i]]
      /\ put' = Serial(put + n') /\ pc = "write" /\ pc' = "produce"
      /\ UNCHANGED <<tx_in, tx_out, tx_fifo, shown, space>>
  BY DEF WriteCopy, At, ThreadUnchanged, isrVars
<1>2. /\ tx_in \in Place /\ tx_out \in Place /\ Held(tx_out, tx_in) \in 0 .. BUF_LEN - 1
      /\ TxRoom \in Nat /\ TxRoom + Held(tx_out, tx_in) <= BUF_LEN - 1
      /\ tx_in + TxRoom <= BUF_LEN /\ TxHeld = Held(tx_out, tx_in) + 0
      /\ Wrap(tx_out + Held(tx_out, tx_in)) = tx_in
  BY <1>1, TxFacts
<1>3. n' \in 1 .. TxRoom /\ TxRoom' = TxRoom /\ n' \in 0 .. MAX_LEN /\ left' \in 0 .. MAX_LEN
  BY <1>1, <1>2, SizeAssumption DEF Least, TxRoom
<1>4. PICK h \in Nat, r \in Nat, m \in Nat, a \in Nat, b \in Nat :
        h = Held(tx_out, tx_in) /\ r = TxRoom /\ m = n' /\ a = tx_in /\ b = tx_out
  BY <1>2, <1>3, SizeAssumption DEF Place
<1>5. /\ BUF_LEN \in Nat /\ m \in 1 .. r /\ r + h <= BUF_LEN - 1 /\ a + r <= BUF_LEN
      /\ a \in 0 .. BUF_LEN - 1 /\ b \in 0 .. BUF_LEN - 1
  BY <1>2, <1>3, <1>4, SizeAssumption DEF Place
<1>6. a = IF b + h < BUF_LEN THEN b + h ELSE b + h - BUF_LEN
  <2>1. b + h \in 0 .. 2 * BUF_LEN - 1
    BY <1>5
  <2>2. Wrap(b + h) = a
    BY <1>2, <1>4
  <2> QED
    BY <1>5, <2>1, <2>2, Wraps
<1>7. ASSUME NEW i \in 0 .. m - 1
      PROVE  tx_buf'[Wrap(b + (h + i))] = Serial(put + i)
  <2>1. i \in Nat /\ h + i <= BUF_LEN - 1 /\ a + i \in 0 .. BUF_LEN - 1 /\ a + i \in a .. a + m - 1
    BY <1>5
  <2>2. b + (h + i) \in 0 .. 2 * BUF_LEN - 1
    BY <1>5, <2>1
  <2>3. Wrap(b + (h + i)) = (IF b + (h + i) < BUF_LEN THEN b + (h + i) ELSE b + (h + i) - BUF_LEN)
    BY <1>5, <2>1, <2>2, Wraps
  <2>4. Wrap(b + (h + i)) = a + i
    BY <1>5, <1>6, <2>1, <2>3
  <2>5. put \in Nat
    BY NumbersAre DEF TxPart
  <2>6. put + (a + i) - a = put + i
    BY <2>1, <2>5
  <2>7. tx_buf'[a + i] = Serial(put + (a + i) - a)
    BY <1>1, <1>4, <2>1 DEF Place
  <2> QED
    BY <2>4, <2>6, <2>7
<1>8. ASSUME NEW i \in 0 .. h - 1
      PROVE  tx_buf'[Wrap(b + i)] = tx_buf[Wrap(b + i)]
  <2>1. b + i \in 0 .. 2 * BUF_LEN - 1
    BY <1>5
  <2>2. /\ Wrap(b + i) = (IF b + i < BUF_LEN THEN b + i ELSE b + i - BUF_LEN)
        /\ Wrap(b + i) \in Place
    BY <1>5, <2>1, Wraps
  <2>3. Wrap(b + i) \notin a .. a + m - 1
    BY <1>5, <1>6, <2>2
  <2> QED
    BY <1>1, <1>4, <2>2, <2>3
<1>9. TxStream(tx_buf', tx_out, h + m, tx_fifo, shown, Serial(put + m)) /\ Serial(put + m) \in Numbers
  <2>1. TxStream(tx_buf, b, h, tx_fifo, shown, put)
    BY <1>2, <1>4 DEF TxPart
  <2>2. tx_fifo \in Seq(Numbers) /\ shown \in Numbers /\ b \in Place
    BY <1>4 DEF TxPart
  <2>3. TxStream(tx_buf', b, h + m, tx_fifo, shown, Serial(put + m)) /\ Serial(put + m) \in Numbers
    BY <1>7, <1>8, <2>1, <2>2, TxPuts
  <2> QED
    BY <1>4, <2>3
<1>10. TxHeld' = h + m
  BY <1>1, <1>4 DEF TxHeld, Held
<1>11. tx_buf' \in [Place -> Numbers]
  <2>1. ASSUME NEW i \in Place, i \in a .. a + m - 1
        PROVE  Serial(put + i - a) \in Numbers
    <3>1. put \in Nat
      BY NumbersAre DEF TxPart
    <3>2. i \in Nat /\ i - a \in Nat
      BY <1>5, <2>1 DEF Place
    <3>3. put + i - a \in Nat
      BY <3>1, <3>2
    <3> QED
      BY <3>3, SerialSum
  <2>2. tx_buf \in [Place -> Numbers]
    BY DEF TxPart
  <2> QED
    BY <1>1, <1>4, <2>1, <2>2
<1>12. TxPart'
  BY <1>1, <1>3, <1>4, <1>9, <1>10, <1>11 DEF TxPart
<1> QED
  BY <1>3, <1>12

LEMMA WriteProduces ==
  ASSUME TxPart, WriteProduce
  PROVE  TxPart'
<1>1. /\ tx_in' = Wrap(tx_in + n) /\ pc = "produce" /\ pc' = "write"
      /\ UNCHANGED <<tx_buf, tx_out, tx_fifo, put, shown, space>>
  BY DEF WriteProduce, At, ThreadUnchanged, isrVars
<1>2. /\ tx_in \in Place /\ tx_out \in Place /\ TxHeld \in 0 .. BUF_LEN - 1
      /\ n \in 0 .. TxRoom /\ TxRoom \in Nat /\ TxHeld = Held(tx_out, tx_in) + n
  BY <1>1, TxFacts
<1>3. Held(tx_out, tx_in') = TxHeld /\ tx_in' \in Place
  <2>1. n \in Nat /\ Held(tx_out, tx_in) + n <= BUF_LEN - 1
    BY <1>2, SizeAssumption
  <2> QED
    BY <1>1, <1>2, <2>1, HeldTo
<1>4. TxHeld' = TxHeld
  <2>1. TxHeld' = Held(tx_out, tx_in') + 0
    BY <1>1 DEF TxHeld, Held
  <2> QED
    BY <1>2, <1>3, <2>1
<1> QED
  BY <1>1, <1>2, <1>3, <1>4 DEF TxPart
-----------------------------------------------------------------------------
(* What the thread and the interrupt routine do leaves the invariant.      *)
LEMMA JtagStart == ASSUME Init PROVE JtagIndInv
<1>1. /\ 0 \in Numbers /\ 0 \in Place /\ DEPTH \in Nat /\ MAX_LEN \in Nat /\ INT_MAX - 2 \in Nat
      /\ Held(0, 0) = 0 /\ Wrap(0) = 0 /\ Serial(0) = 0
  BY SizeAssumption DEF Numbers, Place, Held, Wrap, Serial
<1>2. /\ << >> \in Seq(Numbers) /\ Len(<< >>) = 0
  BY EmptySeq
<1>3. /\ [i \in Place |-> 0] \in [Place -> Numbers]
  BY <1>1
<1>4. RxBegin = 0 /\ RxHeld = 0
  BY <1>1 DEF Init, RxBegin, RxHeld
<1>5. TxHeld = 0
  BY <1>1 DEF Init, TxHeld
<1>6. RxPart
  BY <1>1, <1>2, <1>3, <1>4 DEF Init, RxPart, RxStream, Holds, Queues
<1>7. TxPart
  BY <1>1, <1>2, <1>3, <1>5 DEF Init, TxPart, TxStream, Holds, Queues
<1>8. ThreadPart
  BY <1>1 DEF Init, ThreadPart, ThreadValues, ThreadPlace, ThreadCall
<1>9. NeverStalls /\ inOrder = TRUE
  BY DEF Init, NeverStalls
<1> QED
  BY <1>6, <1>7, <1>8, <1>9 DEF JtagIndInv

LEMMA RxStep ==
  ASSUME RxPart, ThreadPart, inOrder = TRUE, [Next]_vars
  PROVE  RxPart'
<1> USE DEF ringVars, hostVars, deviceVars, alarmVars, isrVars, callVars, threadVars, serials
<1>1. CASE HostSend
  BY <1>1, HostSends
<1>2. CASE IsrReceive
  BY <1>2, IsrReceives
<1>3. CASE ReadCopy
  BY <1>3, ReadCopies DEF ThreadPart, ThreadValues
<1>4. CASE ReadConsume
  BY <1>4, ReadConsumes
<1>5. CASE HostTake \/ HostPoll \/ Timeout
  BY <1>5, RxSame DEF HostTake, HostPoll, Timeout
<1>6. CASE IsrControl \/ IsrReceiveEmpty \/ IsrReceiveFull \/ IsrTransmit \/ IsrTransmitDone
  BY <1>6, RxSame
  DEF IsrControl, IsrReceiveEmpty, IsrReceiveFull, IsrTransmit, IsrTransmitDone, IsrUnchanged
<1>7. CASE InitDevice \/ InitRegister \/ InitAlarm
  BY <1>7, RxSame DEF InitDevice, InitRegister, InitAlarm, At, ThreadUnchanged
<1>8. CASE ReadDone \/ ReadNothing
  BY <1>8, RxSame DEF ReadDone, ReadNothing, Return, Waiting, At, ThreadUnchanged
<1>9. CASE WriteCopy \/ WriteProduce \/ WriteKick
  BY <1>9, RxSame DEF WriteCopy, WriteProduce, WriteKick, At, ThreadUnchanged
<1>10. CASE Enable
  BY <1>10, RxSame DEF Enable, Return, Waiting, At, ThreadUnchanged
<1>11. CASE WaitOver
  <2>1. pc # "consume" /\ pc' # "consume"
    BY <1>11 DEF WaitOver, At, ThreadPart, ThreadCall
  <2> QED
    BY <1>11, <2>1, RxSame DEF WaitOver, ThreadUnchanged
<1>12. CASE WaitLost \/ Close \/ CloseDrained
  BY <1>12, RxSame DEF WaitLost, Close, CloseDrained, Return, At, ThreadUnchanged
<1>13. CASE Call
  BY <1>13, RxSame DEF Call, Start, SetTimeout, At, ThreadUnchanged
<1>14. CASE UNCHANGED vars
  BY <1>14, RxSame DEF vars
<1> QED
  BY <1>1, <1>2, <1>3, <1>4, <1>5, <1>6, <1>7, <1>8, <1>9, <1>10, <1>11, <1>12, <1>13, <1>14
  DEF Next, Host, Isr, Proceed

LEMMA TxStep ==
  ASSUME TxPart, ThreadPart, inOrder = TRUE, [Next]_vars
  PROVE  TxPart'
<1> USE DEF ringVars, hostVars, deviceVars, alarmVars, isrVars, callVars, threadVars, serials
<1>0. space \in 0 .. DEPTH /\ space + Len(tx_fifo) <= DEPTH /\ Len(tx_fifo) \in 0 .. DEPTH
      /\ DEPTH \in Nat
  <2>1. Len(tx_fifo) \in Nat
    BY DEF TxPart
  <2> QED
    BY <2>1, SizeAssumption DEF TxPart
<1>1. CASE HostTake
  BY <1>1, HostTakes
<1>2. CASE IsrTransmit
  BY <1>2, IsrTransmits
<1>3. CASE WriteCopy
  BY <1>3, WriteCopies DEF ThreadPart, ThreadValues
<1>4. CASE WriteProduce
  BY <1>4, WriteProduces
<1>5. CASE HostSend \/ HostPoll \/ Timeout
  BY <1>0, <1>5, TxSame DEF HostSend, HostPoll, Timeout
<1>6. CASE IsrControl
  <2>1. space' \in 0 .. DEPTH /\ space' + Len(tx_fifo) <= DEPTH
    BY <1>0, <1>6 DEF IsrControl, WI
  <2> QED
    BY <1>6, <2>1, TxSame DEF IsrControl, IsrUnchanged
<1>7. CASE IsrReceive \/ IsrReceiveEmpty \/ IsrReceiveFull
  BY <1>0, <1>7, TxSame DEF IsrReceive, IsrReceiveEmpty, IsrReceiveFull, IsrUnchanged
<1>8. CASE IsrTransmitDone
  BY <1>0, <1>8, TxSame DEF IsrTransmitDone, IsrUnchanged
<1>9. CASE InitDevice \/ InitRegister \/ InitAlarm
  BY <1>0, <1>9, TxSame DEF InitDevice, InitRegister, InitAlarm, At, ThreadUnchanged
<1>10. CASE ReadCopy \/ ReadConsume \/ ReadDone \/ ReadNothing
  BY <1>0, <1>10, TxSame
  DEF ReadCopy, ReadConsume, ReadDone, ReadNothing, Return, Waiting, At, ThreadUnchanged
<1>11. CASE WriteKick \/ Enable
  BY <1>0, <1>11, TxSame DEF WriteKick, Enable, Return, Waiting, At, ThreadUnchanged
<1>12. CASE WaitOver
  <2>1. pc # "produce" /\ pc' # "produce"
    BY <1>12 DEF WaitOver, At, ThreadPart, ThreadCall
  <2> QED
    BY <1>0, <1>12, <2>1, TxSame DEF WaitOver, ThreadUnchanged
<1>13. CASE WaitLost \/ Close \/ CloseDrained
  BY <1>0, <1>13, TxSame DEF WaitLost, Close, CloseDrained, Return, At, ThreadUnchanged
<1>14. CASE Call
  BY <1>0, <1>14, TxSame DEF Call, Start, SetTimeout, At, ThreadUnchanged
<1>15. CASE UNCHANGED vars
  BY <1>0, <1>15, TxSame DEF vars
<1> QED
  BY <1>1, <1>2, <1>3, <1>4, <1>5, <1>6, <1>7, <1>8, <1>9, <1>10, <1>11, <1>12, <1>13, <1>14, <1>15
  DEF Next, Host, Isr, Proceed
\* A step of the host, of the alarm or of the interrupt routine.
LEMMA ThreadWaits ==
  ASSUME ThreadPart, UNCHANGED <<irq_on, threadVars>>, irq_enable' \subseteq irq_enable,
         host_inactive' \in 0 .. INT_MAX - 2, isr' \in {"off", "control", "rx", "tx"},
         pc = "init" => isr' = "off" /\ tx_in' = tx_out'
  PROVE  ThreadPart'
<1> USE DEF threadVars, callVars
<1>1. ThreadValues'
  BY DEF ThreadPart, ThreadValues
<1>2. ThreadPlace'
  BY DEF ThreadPart, ThreadPlace
<1>3. ThreadCall'
  BY DEF ThreadPart, ThreadCall
<1> QED
  BY <1>1, <1>2, <1>3 DEF ThreadPart

LEMMA ThreadStep ==
  ASSUME RxPart, TxPart, ThreadPart, [Next]_vars
  PROVE  ThreadPart'
<1> USE DEF ringVars, hostVars, deviceVars, alarmVars, isrVars, callVars, threadVars, serials, At
<1>0. /\ MAX_LEN \in Nat /\ MAX_LEN >= 1 /\ INT_MAX \in Nat /\ INT_MAX - 2 \in Nat
      /\ ThreadValues /\ ThreadPlace /\ ThreadCall
  BY SizeAssumption DEF ThreadPart
<1>values. /\ ThreadValues /\ 0 \in 0 .. MAX_LEN /\ 0 \in 0 .. INT_MAX - 2
      /\ \A k \in 1 .. MAX_LEN : k \in 0 .. MAX_LEN
  BY <1>0
<1>1. CASE Host
  BY <1>0, <1>1, ThreadWaits DEF Host, HostSend, HostTake, HostPoll, ThreadValues, ThreadPlace
<1>2. CASE IsrControl
  BY <1>0, <1>2, ThreadWaits DEF IsrControl, IsrUnchanged, ThreadValues, ThreadPlace
<1>3. CASE IsrReceive \/ IsrReceiveEmpty \/ IsrReceiveFull
  BY <1>0, <1>3, ThreadWaits
  DEF IsrReceive, IsrReceiveEmpty, IsrReceiveFull, AfterRx, IsrUnchanged, ThreadValues, ThreadPlace
<1>4. CASE IsrTransmit \/ IsrTransmitDone
  BY <1>0, <1>4, ThreadWaits DEF IsrTransmit, IsrTransmitDone, IsrUnchanged, ThreadValues, ThreadPlace
<1>5. CASE Timeout
  <2>1. host_inactive' \in 0 .. INT_MAX - 2
    BY <1>0, <1>5 DEF Timeout, ThreadValues
  <2> QED
    BY <1>0, <1>5, <2>1, ThreadWaits DEF Timeout, ThreadPlace
<1>6. CASE Proceed
  <2>1. ThreadPlace'
    BY <1>0, <1>6
    DEF Proceed, InitDevice, InitRegister, InitAlarm, ReadCopy, ReadConsume, ReadDone, ReadNothing,
        WriteCopy, WriteProduce, WriteKick, Enable, WaitOver, WaitLost, Close, CloseDrained,
        Return, Waiting, ThreadUnchanged, ThreadPlace, ThreadCall
  <2>2. ThreadValues'
    <3>1. CASE ReadCopy
      <4>1. RxReady \in Nat
        BY <3>1, RxFacts DEF ReadCopy
      <4>2. n' \in 0 .. MAX_LEN /\ left' \in 0 .. MAX_LEN
        BY <1>0, <3>1, <4>1 DEF ReadCopy, Least, ThreadValues
      <4> QED
        BY <1>0, <3>1, <4>2 DEF ReadCopy, Quiet, ThreadValues
    <3>2. CASE WriteCopy
      <4>1. n' \in 0 .. MAX_LEN /\ left' \in 0 .. MAX_LEN
        BY <1>0, <3>2, WriteCopies DEF ThreadValues
      <4> QED
        BY <1>0, <3>2, <4>1 DEF WriteCopy, Quiet, ThreadValues
    <3>3. CASE InitDevice \/ InitRegister \/ InitAlarm \/ Enable
      BY <1>values, <3>3 DEF InitDevice, InitRegister, InitAlarm, Enable, Return, ThreadValues
    <3>4. CASE ReadConsume \/ ReadDone \/ ReadNothing
      BY <1>values, <3>4 DEF ReadConsume, ReadDone, ReadNothing, Return, Quiet, ThreadValues
    <3>5. CASE WriteProduce \/ WriteKick
      BY <1>values, <3>5 DEF WriteProduce, WriteKick, Quiet, ThreadValues
    <3>6. CASE WaitOver \/ WaitLost \/ Close \/ CloseDrained
      BY <1>values, <3>6 DEF WaitOver, WaitLost, Close, CloseDrained, Return, Quiet, ThreadValues
    <3> QED
      BY <1>6, <3>1, <3>2, <3>3, <3>4, <3>5, <3>6 DEF Proceed
  <2>3. ThreadCall'
    <3>1. CASE InitDevice \/ InitRegister \/ InitAlarm \/ Enable
      BY <1>0, <3>1 DEF InitDevice, InitRegister, InitAlarm, Enable, Return, Waiting, ThreadCall
    <3>2. CASE ReadCopy \/ ReadConsume \/ ReadDone \/ ReadNothing
      BY <1>0, <3>2 DEF ReadCopy, ReadConsume, ReadDone, ReadNothing, Return, Waiting, ThreadCall
    <3>3. CASE WriteCopy \/ WriteProduce \/ WriteKick
      BY <1>0, <3>3 DEF WriteCopy, WriteProduce, WriteKick, ThreadCall
    <3>4. CASE WaitOver \/ WaitLost \/ Close \/ CloseDrained
      BY <1>0, <3>4 DEF WaitOver, WaitLost, Close, CloseDrained, Return, ThreadCall
    <3> QED
      BY <1>6, <3>1, <3>2, <3>3, <3>4 DEF Proceed
  <2> QED
    BY <2>1, <2>2, <2>3 DEF ThreadPart
<1>7. CASE Call
  <2>1. ThreadPlace'
    BY <1>0, <1>7 DEF Call, Start, SetTimeout, ThreadUnchanged, ThreadPlace, ThreadCall
  <2>2. ThreadValues'
    BY <1>values, <1>7 DEF Call, Start, SetTimeout, Quiet, ThreadValues
  <2>3. ThreadCall'
    BY <1>0, <1>7 DEF Call, Start, SetTimeout, ThreadCall
  <2> QED
    BY <2>1, <2>2, <2>3 DEF ThreadPart
<1>8. CASE UNCHANGED vars
  BY <1>8 DEF vars, ThreadPart, ThreadValues, ThreadPlace, ThreadCall
<1> QED
  BY <1>1, <1>2, <1>3, <1>4, <1>5, <1>6, <1>7, <1>8 DEF Next, Isr

LEMMA StallStep ==
  ASSUME RxPart, TxPart, ThreadPart, NeverStalls, [Next]_vars
  PROVE  NeverStalls'
<1> USE DEF ringVars, hostVars, deviceVars, alarmVars, isrVars, callVars, threadVars, serials, At,
            NeverStalls
<1>1. CASE Host \/ Timeout
  BY <1>1 DEF Host, HostSend, HostTake, HostPoll, Timeout
<1>2. CASE IsrControl \/ IsrReceiveEmpty \/ IsrTransmit \/ IsrTransmitDone
  BY <1>2 DEF IsrControl, IsrReceiveEmpty, IsrTransmit, IsrTransmitDone, IsrUnchanged
<1>3. CASE IsrReceive
  BY <1>3 DEF IsrReceive, RxFull, IsrUnchanged
<1>4. CASE IsrReceiveFull
  <2>1. rx_in # rx_out
    <3>1. rx_in \in 0 .. BUF_LEN - 1 /\ Wrap(rx_in + 1) = rx_out
      BY <1>4 DEF IsrReceiveFull, RxFull, RxPart, Place
    <3>2. Wrap(rx_in + 1) = IF rx_in + 1 < BUF_LEN THEN rx_in + 1 ELSE rx_in + 1 - BUF_LEN
      BY <3>1, Wraps, SizeAssumption
    <3> QED
      BY <3>1, <3>2, SizeAssumption
  <2> QED
    BY <1>4, <2>1 DEF IsrReceiveFull, IsrUnchanged
<1>5. CASE InitDevice \/ InitRegister \/ InitAlarm
  BY <1>5 DEF InitDevice, InitRegister, InitAlarm, ThreadUnchanged, ThreadPart, ThreadPlace, ThreadCall
<1>6. CASE ReadCopy \/ ReadConsume \/ ReadDone
  BY <1>6 DEF ReadCopy, ReadConsume, ReadDone, Quiet, ThreadUnchanged, ThreadPart, ThreadCall
<1>7. CASE ReadNothing
  <2>1. rx_in = rx_out
    BY <1>7, RxFacts DEF ReadNothing
  <2> QED
    BY <1>7, <2>1 DEF ReadNothing, Return, Waiting, Quiet, ThreadUnchanged, ThreadPart, ThreadCall
<1>8. CASE WriteCopy \/ WriteProduce \/ WriteKick
  BY <1>8 DEF WriteCopy, WriteProduce, WriteKick, Quiet, ThreadUnchanged, ThreadPart, ThreadCall
<1>9. CASE Enable
  BY <1>9 DEF Enable, Return, Waiting, ThreadUnchanged, ThreadPart, ThreadCall
<1>10. CASE WaitOver \/ WaitLost
  BY <1>10 DEF WaitOver, WaitLost, Return, Quiet, ThreadUnchanged, ThreadPart, ThreadCall
<1>11. CASE Close \/ CloseDrained
  BY <1>11 DEF Close, CloseDrained, Return, Quiet, ThreadUnchanged, ThreadPart, ThreadCall
<1>12. CASE Call
  BY <1>12 DEF Call, Start, SetTimeout, Quiet, ThreadUnchanged, ThreadPart, ThreadCall
<1>13. CASE UNCHANGED vars
  BY <1>13 DEF vars
<1> QED
  BY <1>1, <1>2, <1>3, <1>4, <1>5, <1>6, <1>7, <1>8, <1>9, <1>10, <1>11, <1>12, <1>13
  DEF Next, Isr, Proceed

LEMMA OrderStep ==
  ASSUME RxPart, TxPart, ThreadPart, inOrder = TRUE, [Next]_vars
  PROVE  inOrder' = TRUE
<1>1. CASE HostTake
  BY <1>1, HostTakes
<1>2. CASE ReadCopy
  BY <1>2, ReadCopies DEF ThreadPart, ThreadValues
<1>3. CASE ~ HostTake /\ ~ ReadCopy
  BY <1>3
  DEF Next, Host, Isr, Proceed, Call, vars, serials,
      HostSend, HostPoll, Timeout, IsrControl, IsrReceive, IsrReceiveEmpty, IsrReceiveFull,
      IsrTransmit, IsrTransmitDone, IsrUnchanged, InitDevice, InitRegister, InitAlarm,
      ReadConsume, ReadDone, ReadNothing, WriteCopy, WriteProduce, WriteKick, Enable,
      WaitOver, WaitLost, Close, CloseDrained, Start, SetTimeout
<1> QED
  BY <1>1, <1>2, <1>3

LEMMA JtagStep ==
  ASSUME JtagIndInv, [Next]_vars
  PROVE  JtagIndInv'
<1>1. RxPart /\ TxPart /\ ThreadPart /\ NeverStalls /\ inOrder = TRUE
  BY DEF JtagIndInv
<1>2. RxPart' /\ TxPart'
  BY <1>1, RxStep, TxStep
<1>3. ThreadPart' /\ NeverStalls'
  BY <1>1, ThreadStep, StallStep
<1>4. inOrder' = TRUE
  BY <1>1, OrderStep
<1> QED
  BY <1>2, <1>3, <1>4 DEF JtagIndInv

LEMMA StreamFollows == ASSUME JtagIndInv PROVE StreamInv
<1>1. RxPart /\ TxPart /\ ThreadPart /\ inOrder = TRUE
  BY DEF JtagIndInv
<1>2. TypeOK
  <2>1. Len(tx_fifo) \in Nat /\ space \in 0 .. DEPTH /\ space + Len(tx_fifo) <= DEPTH /\ DEPTH \in Nat
    BY <1>1, SizeAssumption DEF TxPart
  <2>2. Len(tx_fifo) <= DEPTH
    BY <2>1
  <2> QED
    BY <1>1, <2>1, <2>2 DEF TypeOK, RxPart, TxPart, ThreadPart, ThreadValues, Numbers
<1>3. /\ \A i \in 0 .. RxHeld - 1 : rx_buf[Wrap(RxBegin + i)] = Serial(got + i)
      /\ \A i \in DOMAIN rx_fifo : rx_fifo[i] = Serial(got + RxHeld + i - 1)
      /\ sent = Serial(got + RxHeld + Len(rx_fifo))
  <2>1. DOMAIN rx_fifo = 1 .. Len(rx_fifo)
    BY <1>1, LenProperties DEF RxPart
  <2> QED
    BY <1>1, <2>1 DEF RxPart, RxStream, Holds, Queues
<1>4. PICK coming : coming = IF pc = "produce" THEN n ELSE 0
  OBVIOUS
<1>5. PICK ring : ring = Held(tx_out, tx_in)
  OBVIOUS
<1>6. /\ ring \in Nat /\ coming \in Nat /\ TxHeld = ring + coming
  <2>1. /\ Held(tx_out, tx_in) \in 0 .. BUF_LEN - 1 /\ TxRoom \in Nat /\ coming \in 0 .. TxRoom
        /\ TxHeld = Held(tx_out, tx_in) + coming
    BY <1>1, <1>4, TxFacts
  <2> QED
    BY <1>5, <2>1
<1>7. shown \in Nat /\ Len(tx_fifo) \in Nat /\ DOMAIN tx_fifo = 1 .. Len(tx_fifo)
  BY <1>1, LenProperties, NumbersAre DEF TxPart
<1>8. /\ \A i \in DOMAIN tx_fifo : tx_fifo[i] = Serial(shown + i - 1)
      /\ \A i \in 0 .. TxHeld - 1 : tx_buf[Wrap(tx_out + i)] = Serial(shown + Len(tx_fifo) + i)
      /\ put = Serial(shown + Len(tx_fifo) + TxHeld)
  BY <1>1, <1>7 DEF TxPart, TxStream, Holds, Queues
<1>9. /\ \A i \in 0 .. ring - 1 : tx_buf[Wrap(tx_out + i)] = Serial(shown + Len(tx_fifo) + i)
      /\ shown + Len(tx_fifo) + TxHeld = shown + Len(tx_fifo) + ring + coming
  BY <1>6, <1>7, <1>8
<1> QED
  BY <1>1, <1>2, <1>3, <1>4, <1>5, <1>8, <1>9 DEF StreamInv, RxHeld, RxBegin

\* The bytes on their way between the host and the calls are those sent and
\* not yet received, in order, for rings and FIFOs of any size: the interrupt
\* routine and the thread, which share each ring without a lock, never lose,
\* double, overtake or overwrite one.
THEOREM Streams == Spec => []StreamInv
<1>1. Init => JtagIndInv
  BY JtagStart
<1>2. JtagIndInv /\ [Next]_vars => JtagIndInv'
  BY JtagStep
<1>3. JtagIndInv => StreamInv
  BY StreamFollows
<1> QED
  BY <1>1, <1>2, <1>3, PTL DEF Spec

\* An interrupt that the routine has turned off is never missed: somebody has
\* yet to make room, or to write, who will turn it on again.
THEOREM NothingStalls == Spec => []NeverStalls
<1>1. Init => JtagIndInv
  BY JtagStart
<1>2. JtagIndInv /\ [Next]_vars => JtagIndInv'
  BY JtagStep
<1>3. JtagIndInv => NeverStalls
  BY DEF JtagIndInv
<1> QED
  BY <1>1, <1>2, <1>3, PTL DEF Spec
==============================================================================
