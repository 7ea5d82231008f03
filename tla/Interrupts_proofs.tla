-------------------------- MODULE Interrupts_proofs --------------------------
(***************************************************************************)
(* The safety of interrupts, for any number of inputs and any handlers,    *)
(* when a handler that interrupts another does not enable or disable       *)
(* interrupts.  A frame's remaining accesses say where its function is:    *)
(* the invariant gives, for each place of each function, the registers and *)
(* the tables that may be found there.                                     *)
(***************************************************************************)
EXTENDS Interrupts, SequenceTheorems, WellFoundedInduction, TLAPS

-----------------------------------------------------------------------------
(* Code, access by access: Then is one access and what follows it.         *)
Then(op, i, h, s) == Put(op, i, h) \o s

One(op, s)     == Then(op, 0, NULL, s)
Restores(s)    == One("restore", s)
Section(s)     == One("read_status", One("clear_pie", s))
Update(x, j, s) == Then(x, j, NULL, One("ienable", s))
Inner(x, j, z) == Section(Update(x, j, Restores(Restores(z))))
Turn(h)        == IF h = NULL THEN "deactivate" ELSE "activate"
Half(j, h, z)  == Then("context", j, h, Inner(Turn(h), j, z))
Register(j, h, z) == Then("handler", j, h, Half(j, h, z))

Starting == One("ienable_none", One("open", << >>))
Leave    == One("clear_pie", One("widen", One("ienable_masked", << >>)))
Nest(i)  == Then("narrow", i, NULL, One("ienable_masked", One("open", Then("ack", i, NULL, Leave))))

\* A critical section that goes on with z; with a handler to enable.
IsBody(b, z) ==
  \/ \E j \in Irq : handler[j] # NULL /\ b = Update("activate", j, Restores(z))
  \/ \E j \in Irq : b = Update("deactivate", j, Restores(z)) \/ b = Inner("deactivate", j, z)
  \/ \E j \in Irq, h \in Handlers \cup {NULL} : (h # NULL \/ z = << >>) /\ b = Register(j, h, z)

-----------------------------------------------------------------------------
(* The registers and the tables, when nobody is changing them; v is an     *)
(* interrupt that is being unregistered.                                   *)
None      == ALT_NIRQ
Regs      == ienable = alt_irq_active \cap alt_priority_mask
Paired(v) == \A i \in Irq \ {v} : handler[i] = context[i]
Given(v)  == \A i \in (alt_irq_active \cup ienable) \ {v} : handler[i] # NULL
Tabs      == Paired(None) /\ Given(None)

Ready(x, j) ==
  /\ Paired(None)
  /\ \/ x = "activate" /\ Given(None) /\ handler[j] # NULL
     \/ x = "deactivate" /\ Given(j)

\* The end of one section or of two, with the status they restore.
Closing(s, saved, z, p) ==
  \/ s = Restores(z) /\ saved = <<p>>
  \/ s = Restores(Restores(z)) /\ saved = <<p, FALSE>>

(* Where a frame is that goes on with z after its section and had          *)
(* interrupts enabled or not before it, as p says.                         *)
Opens(f, z, p) ==
  /\ pie = p /\ Regs /\ Tabs
  /\ \E b : /\ IsBody(b, z)
            /\ \/ f.todo = Section(b) /\ f.saved = << >>
               \/ f.todo = One("clear_pie", b) /\ f.saved = <<p>>
Registers(f, z, p) ==
  /\ ~ pie /\ Regs /\ Tabs
  /\ \E j \in Irq, h \in Handlers \cup {NULL} :
       (h # NULL \/ z = << >>) /\ f.todo = Register(j, h, z) /\ f.saved = <<p>>
Halfway(f, z, p) ==
  /\ ~ pie /\ Regs
  /\ \E j \in Irq, h \in Handlers \cup {NULL} :
       /\ f.todo = Half(j, h, z) /\ f.saved = <<p>>
       /\ handler[j] = h /\ Paired(j) /\ Given(j)
Nests(f, z, p) ==
  /\ ~ pie /\ Regs
  /\ \E x \in {"activate", "deactivate"}, j \in Irq :
       /\ Ready(x, j)
       /\ \/ f.todo = Inner(x, j, z) /\ f.saved = <<p>>
          \/ f.todo = One("clear_pie", Update(x, j, Restores(Restores(z)))) /\ f.saved = <<p, FALSE>>
Updates(f, z, p) ==
  /\ ~ pie /\ Regs
  /\ \E x \in {"activate", "deactivate"}, j \in Irq : \E s :
       Ready(x, j) /\ f.todo = Update(x, j, s) /\ Closing(s, f.saved, z, p)
Writes(f, z, p) ==
  /\ ~ pie /\ Paired(None)
  /\ \E s : \E v \in Irq \cup {None} :
       Given(v) /\ v \notin alt_irq_active /\ f.todo = One("ienable", s) /\ Closing(s, f.saved, z, p)
Closes(f, z, p) ==
  ~ pie /\ Regs /\ Tabs /\ Closing(f.todo, f.saved, z, p)

InCode(f, z, p) ==
  \/ Opens(f, z, p) \/ Registers(f, z, p) \/ Halfway(f, z, p) \/ Nests(f, z, p)
  \/ Updates(f, z, p) \/ Writes(f, z, p) \/ Closes(f, z, p)

-----------------------------------------------------------------------------
(* The stack.  Interrupts come only between accesses outside of sections:  *)
(* the frames below the top are the program and handlers that have made    *)
(* themselves interruptible, each with a mask below that of the one below. *)
Plain(f) ==
  /\ f.saved = << >>
  /\ \/ f.todo = << >>
     \/ \E h \in Handlers \cup {NULL} : f.todo = Then("exception_register", 0, h, << >>)
     \/ f.todo = One("fault", << >>) /\ exceptionHandler # NULL

MaskOf(m) == IF m = 1 THEN Irq ELSE 0 .. stack[m].irq - 1

Suspended(m) ==
  LET f == stack[m]
  IN  IF m = 1
        THEN \/ Plain(f)
             \/ \E b : /\ IsBody(b, << >>)
                       /\ \/ f.todo = Section(b) /\ f.saved = << >>
                          \/ f.todo = One("clear_pie", b) /\ f.saved = <<TRUE>>
        ELSE /\ f.at = "isr" /\ f.irq \in Irq /\ f.saved = << >> /\ f.mask = MaskOf(m - 1)
             /\ f.todo \in {Then("ack", f.irq, NULL, Leave), Leave}

InProgram(f) ==
  /\ alt_priority_mask = Irq
  /\ \/ pie /\ Regs /\ Tabs /\ Plain(f)
     \/ InCode(f, << >>, TRUE)
     \/ /\ ~ pie /\ alt_irq_active = {} /\ Paired(None) /\ f.saved = << >>
        /\ \/ f.todo = Starting
           \/ f.todo = One("open", << >>) /\ ienable = {}

Entering(f, below) ==
  /\ ~ pie /\ Regs /\ Tabs /\ alt_priority_mask = below /\ f.saved = << >>
  /\ \/ negated
     \/ pending # {}
     \/ f.at = "entry" /\ Len(stack) = 2 /\ stack[1].todo = One("fault", << >>)

\* below is the mask of the frames below; the handler narrows it and restores it.
InNest(f, below) ==
  LET i == f.irq
  IN  /\ Tabs /\ f.saved = << >> /\ f.mask = below
      /\ \/ /\ ~ pie /\ alt_priority_mask = 0 .. i - 1
            /\ f.todo = One("ienable_masked", One("open", Then("ack", i, NULL, Leave)))
         \/ /\ ~ pie /\ alt_priority_mask = 0 .. i - 1 /\ Regs
            /\ f.todo = One("open", Then("ack", i, NULL, Leave))
         \/ /\ pie /\ alt_priority_mask = 0 .. i - 1 /\ Regs
            /\ f.todo \in {Then("ack", i, NULL, Leave), Leave}
         \/ /\ ~ pie /\ alt_priority_mask = 0 .. i - 1
            /\ f.todo = One("widen", One("ienable_masked", << >>))
         \/ /\ ~ pie /\ alt_priority_mask = below /\ f.todo = One("ienable_masked", << >>)

InHandler(f, below) ==
  /\ f.irq \in Irq
  /\ \/ /\ ~ pie /\ Regs /\ Tabs /\ alt_priority_mask = below /\ f.saved = << >>
        /\ f.todo \in {<< >>, On("ack", f.irq), Nest(f.irq)}
     \/ InNest(f, below)
     \/ alt_priority_mask = Irq /\ below = Irq /\ InCode(f, On("ack", f.irq), FALSE)

Ops == {"read_status", "clear_pie", "restore", "activate", "deactivate", "ienable",
        "ienable_masked", "ienable_none", "handler", "context", "narrow", "widen", "open",
        "ack", "fault", "exception_register"}
Isrs == Handlers \cup {NULL}

Cells  == [op : Ops, id : Int, isr : Isrs]
Frames == [at : {"program", "entry", "handler", "isr"}, irq : Nat, todo : Seq(Cells),
           saved : Seq(BOOLEAN), mask : SUBSET Irq, estatus : BOOLEAN]

StackOK ==
  /\ stack \in Seq(Frames) /\ Len(stack) >= 1
  /\ stack[1].at = "program"
  /\ \A m \in 2 .. Len(stack) : stack[m].at # "program" /\ stack[m].estatus
  /\ \A m \in 1 .. Len(stack) - 1 : Suspended(m)
  /\ \A m, k \in 2 .. Len(stack) : m < k /\ stack[k].at = "isr" => stack[k].irq < stack[m].irq

AtTop(f, below) ==
  IF Len(stack) = 1 THEN InProgram(f)
  ELSE IF f.at = "isr" THEN InHandler(f, below) ELSE Entering(f, below)

IrqIndInv ==
  /\ TypeOK
  /\ hung => negated
  /\ StackOK
  /\ \A f, below : f = top /\ below = MaskOf(Len(stack) - 1) => AtTop(f, below)

-----------------------------------------------------------------------------
LEMMA PutCell ==
  ASSUME NEW op \in Ops, NEW i \in Int, NEW h \in Isrs
  PROVE  Put(op, i, h) \in Seq(Cells)
  BY DEF Put, Cells

LEMMA Cons ==
  ASSUME NEW op \in Ops, NEW i \in Int, NEW h \in Isrs, NEW s \in Seq(Cells)
  PROVE  /\ Then(op, i, h, s) \in Seq(Cells) /\ Then(op, i, h, s) # << >>
         /\ Head(Then(op, i, h, s)) = [op |-> op, id |-> i, isr |-> h]
         /\ Tail(Then(op, i, h, s)) = s
<1> DEFINE c == [op |-> op, id |-> i, isr |-> h]
<1>1. c \in Cells /\ Put(op, i, h) = <<c>>
  BY DEF Cells, Put
<1> HIDE DEF c
<1>2. Then(op, i, h, s) = <<c>> \o s
  BY <1>1 DEF Then
<1>3. /\ <<c>> \o s \in Seq(Cells) /\ Len(<<c>> \o s) = Len(s) + 1
      /\ Head(<<c>> \o s) = c
  BY <1>1
<1>4. Tail(<<c>> \o s) = s
  BY <1>1
<1> QED
  BY <1>2, <1>3, <1>4 DEF c

(* One piece of code after the other.                                      *)
Cat(a, b) == a \o b

LEMMA Catted ==
  \A a, b, c \in Seq(Cells) : Cat(a, b) \in Seq(Cells) /\ Cat(Cat(a, b), c) = Cat(a, Cat(b, c))
<1>1. \A a, b \in Seq(Cells) : a \o b \in Seq(Cells)
  OBVIOUS
<1>2. \A a, b, c \in Seq(Cells) : (a \o b) \o c = a \o (b \o c)
  BY ConcatAssociative
<1> QED
  BY <1>1, <1>2, Zenon DEF Cat

LEMMA Chain ==
  ASSUME NEW a \in Seq(Cells), NEW b \in Seq(Cells), NEW c \in Seq(Cells), NEW d \in Seq(Cells),
         NEW e \in Seq(Cells)
  PROVE  /\ Cat(Cat(Cat(a, b), c), d) \in Seq(Cells)
         /\ Cat(Cat(Cat(Cat(a, b), c), d), e) = Cat(a, Cat(b, Cat(c, Cat(d, e))))
<1>1. Cat(a, b) \in Seq(Cells) /\ Cat(d, e) \in Seq(Cells) /\ Cat(Cat(a, b), c) \in Seq(Cells)
  BY Catted
<1>2. Cat(c, Cat(d, e)) \in Seq(Cells) /\ Cat(Cat(Cat(a, b), c), d) \in Seq(Cells)
  BY <1>1, Catted
<1>3. Cat(Cat(Cat(Cat(a, b), c), d), e) = Cat(Cat(Cat(a, b), c), Cat(d, e))
  BY <1>1, Catted
<1>4. Cat(Cat(Cat(a, b), c), Cat(d, e)) = Cat(Cat(a, b), Cat(c, Cat(d, e)))
  BY <1>1, Catted
<1>5. Cat(Cat(a, b), Cat(c, Cat(d, e))) = Cat(a, Cat(b, Cat(c, Cat(d, e))))
  BY <1>2, Catted
<1> QED
  BY <1>2, <1>3, <1>4, <1>5

(* The code of the module, in terms of Then.                               *)
LEMMA DoIs ==
  ASSUME NEW op \in Ops
  PROVE  /\ Do(op) \in Seq(Cells) /\ Do(op) = One(op, << >>)
         /\ \A s \in Seq(Cells) : Cat(Do(op), s) = One(op, s)
<1>1. Do(op) = Put(op, 0, NULL) /\ Put(op, 0, NULL) \in Seq(Cells)
  BY PutCell DEF Do, Put, Isrs
<1> QED
  BY <1>1, ConcatEmptySeq DEF One, Then, Cat

LEMMA OnIs ==
  ASSUME NEW op \in Ops, NEW i \in Int
  PROVE  /\ On(op, i) \in Seq(Cells) /\ On(op, i) = Then(op, i, NULL, << >>)
         /\ \A s \in Seq(Cells) : Cat(On(op, i), s) = Then(op, i, NULL, s)
<1>1. On(op, i) = Put(op, i, NULL) /\ Put(op, i, NULL) \in Seq(Cells)
  BY PutCell DEF On, Put, Isrs
<1> QED
  BY <1>1, ConcatEmptySeq DEF Then, Cat

LEMMA DisableAll ==
  /\ alt_irq_disable_all \in Seq(Cells)
  /\ \A s \in Seq(Cells) : Cat(alt_irq_disable_all, s) = Section(s)
<1>1. "read_status" \in Ops /\ "clear_pie" \in Ops
  BY DEF Ops
<1>2. alt_irq_disable_all = Cat(Do("read_status"), Do("clear_pie"))
  BY Zenon DEF alt_irq_disable_all, Cat
<1> QED
  BY <1>1, <1>2, Catted, DoIs DEF Section

LEMMA EnableAll ==
  /\ alt_irq_enable_all \in Seq(Cells)
  /\ \A s \in Seq(Cells) : Cat(alt_irq_enable_all, s) = Restores(s)
<1>1. "restore" \in Ops
  BY DEF Ops
<1> QED
  BY <1>1, DoIs DEF alt_irq_enable_all, Restores

LEMMA Typed ==
  ASSUME NEW z \in Seq(Cells), NEW j \in Irq, NEW h \in Isrs
  PROVE  /\ Section(z) \in Seq(Cells) /\ Restores(z) \in Seq(Cells)
         /\ One("clear_pie", z) \in Seq(Cells) /\ One("ienable", z) \in Seq(Cells)
         /\ \A x \in {"activate", "deactivate"} : Update(x, j, z) \in Seq(Cells) /\ Inner(x, j, z) \in Seq(Cells)
         /\ Half(j, h, z) \in Seq(Cells) /\ Register(j, h, z) \in Seq(Cells)
         /\ Turn(h) \in {"activate", "deactivate"}
<1>1. /\ {"read_status", "clear_pie", "restore", "ienable", "context", "handler"} \subseteq Ops
      /\ {"activate", "deactivate"} \subseteq Ops
      /\ j \in Int /\ 0 \in Int /\ NULL \in Isrs
  BY NirqAssumption DEF Ops, Irq, Isrs
<1>2. \A s \in Seq(Cells) : /\ One("read_status", s) \in Seq(Cells) /\ One("clear_pie", s) \in Seq(Cells)
                            /\ One("restore", s) \in Seq(Cells) /\ One("ienable", s) \in Seq(Cells)
  BY <1>1, Cons DEF One
<1>3. ASSUME NEW s \in Seq(Cells), NEW x \in {"activate", "deactivate"}
      PROVE  Update(x, j, s) \in Seq(Cells)
  <2>1. One("ienable", s) \in Seq(Cells)
    BY <1>2
  <2> QED
    BY <1>1, <2>1, Cons DEF Update
<1>4. \A s \in Seq(Cells) : Restores(s) \in Seq(Cells) /\ Section(s) \in Seq(Cells)
  BY <1>2 DEF Restores, Section
<1>5. \A x \in {"activate", "deactivate"} : Update(x, j, z) \in Seq(Cells) /\ Inner(x, j, z) \in Seq(Cells)
  BY <1>3, <1>4 DEF Inner
<1>6. Turn(h) \in {"activate", "deactivate"}
  BY DEF Turn
<1>7. Half(j, h, z) \in Seq(Cells)
  BY <1>1, <1>5, <1>6, Cons DEF Half
<1>8. Register(j, h, z) \in Seq(Cells)
  BY <1>1, <1>7, Cons DEF Register
<1> QED
  BY <1>2, <1>4, <1>5, <1>6, <1>7, <1>8

LEMMA UpdateIs ==
  ASSUME NEW i \in Irq
  PROVE  /\ alt_irq_enable(i) \in Seq(Cells) /\ alt_irq_disable(i) \in Seq(Cells)
         /\ \A z \in Seq(Cells) :
              /\ Cat(alt_irq_enable(i), z) = Section(Update("activate", i, Restores(z)))
              /\ Cat(alt_irq_disable(i), z) = Section(Update("deactivate", i, Restores(z)))
<1>1. {"activate", "deactivate", "ienable"} \subseteq Ops /\ i \in Int
  BY NirqAssumption DEF Ops, Irq
<1>2. ASSUME NEW x \in {"activate", "deactivate"}, NEW code,
             code = Cat(Cat(Cat(alt_irq_disable_all, On(x, i)), Do("ienable")), alt_irq_enable_all)
      PROVE  /\ code \in Seq(Cells)
             /\ \A z \in Seq(Cells) : Cat(code, z) = Section(Update(x, i, Restores(z)))
  <2>1. x \in Ops /\ "ienable" \in Ops
    BY <1>1
  <2>2. PICK a, b, c, d : a = alt_irq_disable_all /\ b = On(x, i) /\ c = Do("ienable") /\ d = alt_irq_enable_all
    OBVIOUS
  <2>3. a \in Seq(Cells) /\ b \in Seq(Cells) /\ c \in Seq(Cells) /\ d \in Seq(Cells)
    BY <1>1, <2>1, <2>2, DisableAll, EnableAll, OnIs, DoIs
  <2>4. code = Cat(Cat(Cat(a, b), c), d)
    BY <1>2, <2>2
  <2>5. code \in Seq(Cells) /\ \A z \in Seq(Cells) : Cat(code, z) = Cat(a, Cat(b, Cat(c, Cat(d, z))))
    BY <2>3, <2>4, Chain
  <2>6. ASSUME NEW z \in Seq(Cells)
        PROVE  Cat(code, z) = Section(Update(x, i, Restores(z)))
    <3>1. Cat(d, z) = Restores(z) /\ Cat(d, z) \in Seq(Cells)
      BY <2>2, <2>3, EnableAll, Catted
    <3>2. Cat(c, Cat(d, z)) = One("ienable", Restores(z)) /\ Cat(c, Cat(d, z)) \in Seq(Cells)
      BY <2>1, <2>2, <2>3, <3>1, DoIs, Catted
    <3>3. Cat(b, Cat(c, Cat(d, z))) = Update(x, i, Restores(z)) /\ Cat(b, Cat(c, Cat(d, z))) \in Seq(Cells)
      BY <1>1, <2>1, <2>2, <2>3, <3>2, OnIs, Catted DEF Update
    <3> QED
      BY <2>2, <2>5, <3>3, DisableAll
  <2> QED
    BY <2>5, <2>6
<1>3. /\ alt_irq_enable(i) = Cat(Cat(Cat(alt_irq_disable_all, On("activate", i)), Do("ienable")), alt_irq_enable_all)
      /\ alt_irq_disable(i) = Cat(Cat(Cat(alt_irq_disable_all, On("deactivate", i)), Do("ienable")), alt_irq_enable_all)
  BY Zenon DEF alt_irq_enable, alt_irq_disable, Cat
<1> QED
  BY <1>2, <1>3

LEMMA NestedIs ==
  ASSUME NEW i \in Irq, NEW z \in Seq(Cells)
  PROVE  Cat(alt_irq_disable_all \o alt_irq_disable(i) \o alt_irq_enable_all, z) = Section(Inner("deactivate", i, z))
<1>1. PICK a, b, c : a = alt_irq_disable_all /\ b = alt_irq_disable(i) /\ c = alt_irq_enable_all
  OBVIOUS
<1>2. a \in Seq(Cells) /\ b \in Seq(Cells) /\ c \in Seq(Cells)
  BY <1>1, DisableAll, EnableAll, UpdateIs
<1>3. alt_irq_disable_all \o alt_irq_disable(i) \o alt_irq_enable_all = Cat(Cat(a, b), c)
  BY <1>1, Zenon DEF Cat
<1>4. Cat(Cat(Cat(a, b), c), z) = Cat(a, Cat(b, Cat(c, z)))
  BY <1>2, Catted
<1>5. Cat(c, z) = Restores(z) /\ Cat(c, z) \in Seq(Cells)
  BY <1>1, <1>2, EnableAll, Catted
<1>6. Cat(b, Cat(c, z)) = Inner("deactivate", i, z) /\ Cat(b, Cat(c, z)) \in Seq(Cells)
  BY <1>1, <1>2, <1>5, UpdateIs, Catted DEF Inner
<1> QED
  BY <1>1, <1>3, <1>4, <1>6, DisableAll

LEMMA RegisterIs ==
  ASSUME NEW i \in Irq, NEW h \in Isrs, NEW z \in Seq(Cells)
  PROVE  Cat(alt_iic_isr_register(i, h), z) = Section(Register(i, h, z))
<1>1. "handler" \in Ops /\ "context" \in Ops /\ i \in Int
  BY NirqAssumption DEF Ops, Irq
<1>2. PICK a, b, c, d, e :
        /\ a = alt_irq_disable_all /\ b = Put("handler", i, h) /\ c = Put("context", i, h)
        /\ d = (IF h # NULL THEN alt_irq_enable(i) ELSE alt_irq_disable(i)) /\ e = alt_irq_enable_all
  OBVIOUS
<1>3. a \in Seq(Cells) /\ b \in Seq(Cells) /\ c \in Seq(Cells) /\ e \in Seq(Cells)
  BY <1>1, <1>2, DisableAll, EnableAll, PutCell
<1>4. d \in Seq(Cells) /\ \A s \in Seq(Cells) : Cat(d, s) = Section(Update(Turn(h), i, Restores(s)))
  BY <1>2, UpdateIs DEF Turn
<1>5. alt_iic_isr_register(i, h) = Cat(Cat(Cat(Cat(a, b), c), d), e)
  BY <1>2, Zenon DEF Cat, alt_iic_isr_register
<1>6. Cat(Cat(Cat(Cat(Cat(a, b), c), d), e), z) = Cat(a, Cat(b, Cat(c, Cat(d, Cat(e, z)))))
  <2>1. Cat(Cat(Cat(a, b), c), d) \in Seq(Cells) /\ Cat(e, z) \in Seq(Cells)
    BY <1>3, <1>4, Chain, Catted
  <2>2. Cat(Cat(Cat(Cat(Cat(a, b), c), d), e), z) = Cat(Cat(Cat(Cat(a, b), c), d), Cat(e, z))
    BY <1>3, <2>1, Catted
  <2> QED
    BY <1>3, <1>4, <2>1, <2>2, Chain
<1>7. Cat(e, z) = Restores(z) /\ Cat(e, z) \in Seq(Cells)
  BY <1>2, <1>3, EnableAll, Catted
<1>8. Cat(d, Cat(e, z)) = Inner(Turn(h), i, z) /\ Cat(d, Cat(e, z)) \in Seq(Cells)
  BY <1>4, <1>7, Catted DEF Inner
<1>9. \A s : Cat(c, s) = Then("context", i, h, s) /\ Cat(b, s) = Then("handler", i, h, s)
  BY <1>2 DEF Then, Cat
<1>10. Cat(c, Cat(d, Cat(e, z))) = Half(i, h, z) /\ Cat(c, Cat(d, Cat(e, z))) \in Seq(Cells)
  BY <1>3, <1>8, <1>9, Catted DEF Half
<1>11. Cat(b, Cat(c, Cat(d, Cat(e, z)))) = Register(i, h, z) /\ Cat(b, Cat(c, Cat(d, Cat(e, z)))) \in Seq(Cells)
  BY <1>3, <1>9, <1>10, Catted DEF Register
<1> QED
  BY <1>2, <1>5, <1>6, <1>11, DisableAll

LEMMA NestIs ==
  ASSUME NEW i \in Irq
  PROVE  /\ alt_irq_interruptible(i) \o On("ack", i) \o alt_irq_non_interruptible = Nest(i)
         /\ Nest(i) \in Seq(Cells) /\ Leave \in Seq(Cells)
         /\ One("ienable_masked", One("open", Then("ack", i, NULL, Leave))) \in Seq(Cells)
         /\ One("open", Then("ack", i, NULL, Leave)) \in Seq(Cells)
         /\ Then("ack", i, NULL, Leave) \in Seq(Cells)
         /\ One("widen", One("ienable_masked", << >>)) \in Seq(Cells)
         /\ One("ienable_masked", << >>) \in Seq(Cells)
<1>1. /\ "narrow" \in Ops /\ "ienable_masked" \in Ops /\ "open" \in Ops /\ "ack" \in Ops
      /\ "clear_pie" \in Ops /\ "widen" \in Ops /\ i \in Int
  BY NirqAssumption DEF Ops, Irq
<1>2. PICK a, b, c, d, x, y : a = On("narrow", i) /\ b = Do("ienable_masked") /\ c = Do("open") /\ d = On("ack", i)
                              /\ x = Do("clear_pie") /\ y = Do("widen")
  OBVIOUS
<1>3. /\ a \in Seq(Cells) /\ b \in Seq(Cells) /\ c \in Seq(Cells) /\ d \in Seq(Cells)
      /\ x \in Seq(Cells) /\ y \in Seq(Cells)
  BY <1>1, <1>2, OnIs, DoIs
<1>4. alt_irq_interruptible(i) \o On("ack", i) \o alt_irq_non_interruptible
        = Cat(Cat(Cat(Cat(a, b), c), d), Cat(Cat(x, y), b))
  BY <1>2, Zenon DEF alt_irq_interruptible, alt_irq_non_interruptible, Cat
<1>5. Cat(Cat(Cat(Cat(a, b), c), d), Cat(Cat(x, y), b)) = Cat(a, Cat(b, Cat(c, Cat(d, Cat(x, Cat(y, b))))))
  <2>1. Cat(Cat(x, y), b) = Cat(x, Cat(y, b)) /\ Cat(y, b) \in Seq(Cells)
    BY <1>3, Catted
  <2>2. Cat(x, Cat(y, b)) \in Seq(Cells)
    BY <1>3, <2>1, Catted
  <2> QED
    BY <1>3, <2>1, <2>2, Chain
<1>6. b = One("ienable_masked", << >>) /\ b \in Seq(Cells)
  BY <1>1, <1>2, <1>3, DoIs
<1>7. Cat(y, b) = One("widen", One("ienable_masked", << >>)) /\ Cat(y, b) \in Seq(Cells)
  BY <1>1, <1>2, <1>3, <1>6, DoIs, Catted
<1>8. Cat(x, Cat(y, b)) = Leave /\ Leave \in Seq(Cells)
  BY <1>1, <1>2, <1>3, <1>7, DoIs, Catted DEF Leave
<1>9. Cat(d, Leave) = Then("ack", i, NULL, Leave) /\ Cat(d, Leave) \in Seq(Cells)
  BY <1>1, <1>2, <1>3, <1>8, OnIs, Catted
<1>10. Cat(c, Cat(d, Leave)) = One("open", Then("ack", i, NULL, Leave)) /\ Cat(c, Cat(d, Leave)) \in Seq(Cells)
  BY <1>1, <1>2, <1>3, <1>9, DoIs, Catted
<1>11. /\ Cat(b, Cat(c, Cat(d, Leave))) = One("ienable_masked", One("open", Then("ack", i, NULL, Leave)))
       /\ Cat(b, Cat(c, Cat(d, Leave))) \in Seq(Cells)
  BY <1>1, <1>2, <1>3, <1>10, DoIs, Catted
<1>12. Cat(a, Cat(b, Cat(c, Cat(d, Leave)))) = Nest(i) /\ Nest(i) \in Seq(Cells)
  BY <1>1, <1>2, <1>3, <1>11, OnIs, Catted DEF Nest
<1> QED
  BY <1>4, <1>5, <1>6, <1>7, <1>8, <1>9, <1>10, <1>11, <1>12

-----------------------------------------------------------------------------
(* Where code starts and how it goes on.                                   *)
Starts(t, op, s) == t \in Seq(Cells) /\ t # << >> /\ Head(t).op = op /\ Tail(t) = s

LEMMA StartsIs ==
  ASSUME NEW t, NEW op, NEW s, Starts(t, op, s)
  PROVE  t \in Seq(Cells) /\ t # << >> /\ Head(t).op = op /\ Tail(t) = s
  BY DEF Starts

LEMMA ThenStarts ==
  ASSUME NEW op \in Ops, NEW i \in Int, NEW h \in Isrs, NEW s \in Seq(Cells)
  PROVE  /\ Starts(Then(op, i, h, s), op, s)
         /\ Head(Then(op, i, h, s)).id = i /\ Head(Then(op, i, h, s)).isr = h
  BY Cons DEF Starts

LEMMA OneStarts ==
  ASSUME NEW op \in Ops, NEW s \in Seq(Cells)
  PROVE  Starts(One(op, s), op, s)
<1>1. 0 \in Int /\ NULL \in Isrs
  BY DEF Isrs
<1> QED
  BY <1>1, ThenStarts DEF One

LEMMA SectionStarts ==
  ASSUME NEW z \in Seq(Cells)
  PROVE  /\ Starts(Section(z), "read_status", One("clear_pie", z))
         /\ Starts(One("clear_pie", z), "clear_pie", z)
         /\ Starts(One("ienable", z), "ienable", z)
         /\ Starts(Restores(z), "restore", z)
<1>1. "read_status" \in Ops /\ "clear_pie" \in Ops /\ "restore" \in Ops /\ "ienable" \in Ops
  BY DEF Ops
<1>2. Starts(One("clear_pie", z), "clear_pie", z) /\ One("clear_pie", z) \in Seq(Cells)
  BY <1>1, OneStarts DEF Starts
<1> QED
  BY <1>1, <1>2, OneStarts DEF Section, Restores

LEMMA UpdateStarts ==
  ASSUME NEW z \in Seq(Cells), NEW j \in Irq, NEW x \in {"activate", "deactivate"}
  PROVE  /\ Starts(Update(x, j, z), x, One("ienable", z)) /\ Head(Update(x, j, z)).id = j
         /\ Starts(Inner(x, j, z), "read_status", One("clear_pie", Update(x, j, Restores(Restores(z)))))
<1>1. x \in Ops /\ j \in Int /\ NULL \in Isrs
  BY NirqAssumption DEF Ops, Irq, Isrs
<1>2. One("ienable", z) \in Seq(Cells)
  BY SectionStarts DEF Starts
<1>3. Restores(z) \in Seq(Cells)
  BY SectionStarts DEF Starts
<1>4. Restores(Restores(z)) \in Seq(Cells)
  BY <1>3, SectionStarts DEF Starts
<1>5. Update(x, j, Restores(Restores(z))) \in Seq(Cells)
  BY <1>4, Typed, <1>1
<1> QED
  BY <1>1, <1>2, <1>5, ThenStarts, SectionStarts DEF Update, Inner

LEMMA RegisterStarts ==
  ASSUME NEW z \in Seq(Cells), NEW j \in Irq, NEW h \in Isrs
  PROVE  /\ Starts(Half(j, h, z), "context", Inner(Turn(h), j, z))
         /\ Head(Half(j, h, z)).id = j /\ Head(Half(j, h, z)).isr = h
         /\ Starts(Register(j, h, z), "handler", Half(j, h, z))
         /\ Head(Register(j, h, z)).id = j /\ Head(Register(j, h, z)).isr = h
<1>1. "context" \in Ops /\ "handler" \in Ops /\ j \in Int
  BY NirqAssumption DEF Ops, Irq
<1>2. Inner(Turn(h), j, z) \in Seq(Cells)
  BY Typed
<1>3. Starts(Half(j, h, z), "context", Inner(Turn(h), j, z)) /\ Head(Half(j, h, z)).id = j /\ Head(Half(j, h, z)).isr = h
  BY <1>1, <1>2, ThenStarts DEF Half
<1>4. Half(j, h, z) \in Seq(Cells)
  BY <1>3 DEF Starts
<1> QED
  BY <1>1, <1>3, <1>4, ThenStarts DEF Register

LEMMA BodyTyped ==
  ASSUME NEW z \in Seq(Cells), NEW b, IsBody(b, z)
  PROVE  b \in Seq(Cells)
<1>1. Restores(z) \in Seq(Cells)
  BY Typed, SectionStarts, StartsIs
<1>2. \A j \in Irq, x \in {"activate", "deactivate"} :
        Update(x, j, Restores(z)) \in Seq(Cells) /\ Inner(x, j, z) \in Seq(Cells)
  BY <1>1, UpdateStarts, StartsIs
<1>3. \A j \in Irq, h \in Isrs : Register(j, h, z) \in Seq(Cells)
  BY RegisterStarts, StartsIs
<1> QED
  BY <1>2, <1>3, Zenon DEF IsBody, Isrs

LEMMA ClosingStarts ==
  ASSUME NEW s, NEW saved, NEW z \in Seq(Cells), NEW q, Closing(s, saved, z, q)
  PROVE  s \in Seq(Cells) /\ \E r : Starts(s, "restore", r)
<1>1. Starts(Restores(z), "restore", z)
  BY SectionStarts
<1>2. Restores(z) \in Seq(Cells)
  BY <1>1, StartsIs
<1>3. Starts(Restores(Restores(z)), "restore", Restores(z))
  BY <1>2, SectionStarts
<1>4. Restores(Restores(z)) \in Seq(Cells)
  BY <1>3, StartsIs
<1> QED
  BY <1>1, <1>2, <1>3, <1>4 DEF Closing

(* In each place of a section the next access is known.                    *)
LEMMA CodeOps ==
  ASSUME NEW f, NEW z \in Seq(Cells), NEW p, InCode(f, z, p)
  PROVE  \E op, s :
         /\ Starts(f.todo, op, s)
         /\ \/ op \in {"read_status", "clear_pie"} /\ (Opens(f, z, p) \/ Nests(f, z, p))
            \/ op = "handler" /\ Registers(f, z, p)
            \/ op = "context" /\ Halfway(f, z, p)
            \/ op \in {"activate", "deactivate"} /\ Updates(f, z, p)
            \/ op = "ienable" /\ Writes(f, z, p)
            \/ op = "restore" /\ Closes(f, z, p)
<1>1. Restores(z) \in Seq(Cells)
  BY SectionStarts, StartsIs
<1>2. Restores(Restores(z)) \in Seq(Cells)
  BY <1>1, SectionStarts, StartsIs
<1>3. CASE Opens(f, z, p)
  <2>1. PICK b : IsBody(b, z) /\ (f.todo = Section(b) \/ f.todo = One("clear_pie", b))
    BY <1>3 DEF Opens
  <2>2. b \in Seq(Cells)
    BY <2>1, BodyTyped
  <2> QED
    BY <1>3, <2>1, <2>2, SectionStarts
<1>4. CASE Nests(f, z, p)
  <2>1. PICK x \in {"activate", "deactivate"}, j \in Irq :
          f.todo = Inner(x, j, z) \/ f.todo = One("clear_pie", Update(x, j, Restores(Restores(z))))
    BY <1>4 DEF Nests
  <2>2. Update(x, j, Restores(Restores(z))) \in Seq(Cells)
    BY <1>2, UpdateStarts, StartsIs
  <2> QED
    BY <1>4, <2>1, <2>2, UpdateStarts, SectionStarts
<1>5. CASE Registers(f, z, p)
  <2>1. PICK j \in Irq, h \in Isrs : f.todo = Register(j, h, z)
    BY <1>5 DEF Registers, Isrs
  <2> QED
    BY <1>5, <2>1, RegisterStarts
<1>6. CASE Halfway(f, z, p)
  <2>1. PICK j \in Irq, h \in Isrs : f.todo = Half(j, h, z)
    BY <1>6 DEF Halfway, Isrs
  <2> QED
    BY <1>6, <2>1, RegisterStarts
<1>7. CASE Updates(f, z, p)
  <2>1. PICK x, j, s : /\ x \in {"activate", "deactivate"} /\ j \in Irq
                       /\ f.todo = Update(x, j, s) /\ Closing(s, f.saved, z, p)
    BY <1>7 DEF Updates
  <2>2. s \in Seq(Cells)
    BY <2>1, ClosingStarts
  <2> QED
    BY <1>7, <2>1, <2>2, UpdateStarts
<1>8. CASE Writes(f, z, p)
  <2>1. PICK s : f.todo = One("ienable", s) /\ Closing(s, f.saved, z, p)
    BY <1>8 DEF Writes
  <2>2. s \in Seq(Cells)
    BY <2>1, ClosingStarts
  <2> QED
    BY <1>8, <2>1, <2>2, SectionStarts
<1>9. CASE Closes(f, z, p)
  <2>1. Closing(f.todo, f.saved, z, p)
    BY <1>9 DEF Closes
  <2> QED
    BY <1>9, <2>1, ClosingStarts
<1> QED
  BY <1>3, <1>4, <1>5, <1>6, <1>7, <1>8, <1>9 DEF InCode

-----------------------------------------------------------------------------
(* A section, access by access: f goes on as g.                            *)
Op(f)   == Head(f.todo).op
Id(f)   == Head(f.todo).id
Isr(f)  == Head(f.todo).isr
Rest(f) == Tail(f.todo)

LEMMA FrameStarts ==
  ASSUME NEW f, NEW op, NEW s, Starts(f.todo, op, s)
  PROVE  f.todo \in Seq(Cells) /\ f.todo # << >> /\ Op(f) = op /\ Rest(f) = s
  BY DEF Starts, Op, Rest

LEMMA Here ==
  ASSUME NEW f, NEW t, NEW op, NEW s, f.todo = t, Starts(t, op, s)
  PROVE  Op(f) = op /\ Rest(f) = s
  BY FrameStarts

LEMMA Elsewhere ==
  ASSUME NEW f, NEW t, NEW op, NEW s, Starts(t, op, s), Op(f) # op
  PROVE  f.todo # t
  BY FrameStarts

LEMMA Appended ==
  ASSUME NEW S, NEW s \in Seq(S), NEW q \in S, Len(s) = 1
  PROVE  /\ Append(s, q) \in Seq(S) /\ Len(Append(s, q)) = 2
         /\ Append(s, q)[1] = s[1] /\ Append(s, q)[2] = q
<1>1. Append(s, q) \in Seq(S) /\ Len(Append(s, q)) = 2
  OBVIOUS
<1>2. Append(s, q)[1] = s[1]
  OBVIOUS
<1>3. Append(s, q)[2] = q
  <2>1. Append(s, q)[Len(s) + 1] = q
    BY AppendProperties
  <2>2. Len(s) + 1 = 2
    OBVIOUS
  <2> QED
    BY <2>1, <2>2, Zenon
<1> QED
  BY <1>1, <1>2, <1>3

LEMMA SavedPair ==
  ASSUME NEW S, NEW p \in S, NEW q \in S
  PROVE  /\ Append(<< >>, p) = <<p>> /\ Append(<<p>>, q) = <<p, q>>
         /\ <<p>>[Len(<<p>>)] = p /\ SubSeq(<<p>>, 1, Len(<<p>>) - 1) = << >>
         /\ <<p, q>>[Len(<<p, q>>)] = q /\ SubSeq(<<p, q>>, 1, Len(<<p, q>>) - 1) = <<p>>
<1>1. /\ << >> \in Seq(S) /\ Len(<< >>) = 0
      /\ <<p>> \in Seq(S) /\ Len(<<p>>) = 1 /\ <<p>>[1] = p
      /\ <<p, q>> \in Seq(S) /\ Len(<<p, q>>) = 2 /\ <<p, q>>[1] = p /\ <<p, q>>[2] = q
  OBVIOUS
<1>2. Append(<< >>, p) = <<p>>
  OBVIOUS
<1>3. Append(<<p>>, q) = <<p, q>>
  <2>1. PICK s, t : s = <<p>> /\ t = <<p, q>>
    OBVIOUS
  <2>2. /\ s \in Seq(S) /\ Len(s) = 1 /\ s[1] = p
        /\ t \in Seq(S) /\ Len(t) = 2 /\ t[1] = p /\ t[2] = q
    BY <1>1, <2>1
  <2>3. /\ Append(s, q) \in Seq(S) /\ Len(Append(s, q)) = 2
        /\ Append(s, q)[1] = p /\ Append(s, q)[2] = q
    BY <2>2, Appended
  <2>4. Append(s, q) = t
    BY <2>2, <2>3, SeqEqual
  <2> QED
    BY <2>1, <2>4
<1>4. SubSeq(<<p>>, 1, 0) = << >>
  BY SubSeqEmpty
<1>5. SubSeq(<<p, q>>, 1, 1) = <<p>>
  <2>1. PICK s, t : s = <<p>> /\ t = <<p, q>>
    OBVIOUS
  <2>2. /\ s \in Seq(S) /\ Len(s) = 1 /\ s[1] = p
        /\ t \in Seq(S) /\ Len(t) = 2 /\ t[1] = p
    BY <1>1, <2>1
  <2>3. \A i \in 1 .. 1 : t[i] \in S
    BY <2>2
  <2>4. /\ SubSeq(t, 1, 1) \in Seq(S) /\ Len(SubSeq(t, 1, 1)) = 1
        /\ SubSeq(t, 1, 1)[1] = p
    BY <2>2, <2>3, SubSeqProperties
  <2>5. SubSeq(t, 1, 1) = s
    BY <2>2, <2>4, SeqEqual
  <2> QED
    BY <2>1, <2>5
<1>6. 2 - 1 = 1 /\ 1 - 1 = 0
  OBVIOUS
<1> QED
  BY <1>1, <1>2, <1>3, <1>4, <1>5, <1>6, Zenon

LEMMA CodeOp ==
  ASSUME NEW f, NEW z \in Seq(Cells), NEW p, InCode(f, z, p)
  PROVE  LET op == Op(f)
         IN  /\ f.todo \in Seq(Cells) /\ f.todo # << >>
             /\ \/ op \in {"read_status", "clear_pie"} /\ (Opens(f, z, p) \/ Nests(f, z, p))
                \/ op = "handler" /\ Registers(f, z, p)
                \/ op = "context" /\ Halfway(f, z, p)
                \/ op \in {"activate", "deactivate"} /\ Updates(f, z, p)
                \/ op = "ienable" /\ Writes(f, z, p)
                \/ op = "restore" /\ Closes(f, z, p)
<1>1. PICK op, s :
         /\ Starts(f.todo, op, s)
         /\ \/ op \in {"read_status", "clear_pie"} /\ (Opens(f, z, p) \/ Nests(f, z, p))
            \/ op = "handler" /\ Registers(f, z, p)
            \/ op = "context" /\ Halfway(f, z, p)
            \/ op \in {"activate", "deactivate"} /\ Updates(f, z, p)
            \/ op = "ienable" /\ Writes(f, z, p)
            \/ op = "restore" /\ Closes(f, z, p)
  BY CodeOps
<1>2. f.todo \in Seq(Cells) /\ f.todo # << >> /\ Op(f) = op
  BY <1>1, FrameStarts
<1> QED
  BY <1>1, <1>2

LEMMA Same ==
  ASSUME UNCHANGED <<regs, tabs>>
  PROVE  /\ Regs' <=> Regs
         /\ Tabs' <=> Tabs
         /\ \A v : (Paired(v)' <=> Paired(v)) /\ (Given(v)' <=> Given(v))
         /\ \A x, j : Ready(x, j)' <=> Ready(x, j)
         /\ \A b, z : IsBody(b, z)' <=> IsBody(b, z)
  BY DEF regs, tabs, Regs, Tabs, Paired, Given, Ready, IsBody, None

LEMMA ReadStep ==
  ASSUME NEW f, NEW g, NEW z \in Seq(Cells), NEW p \in BOOLEAN, InCode(f, z, p), TypeOK,
         Op(f) = "read_status", UNCHANGED <<regs, tabs>>,
         g.todo = Rest(f), g.saved = Append(f.saved, pie)
  PROVE  InCode(g, z, p)'
<1>1. UNCHANGED pie
  BY DEF regs
<1>2. CASE Opens(f, z, p)
  <2>1. PICK b : /\ IsBody(b, z)
                 /\ \/ f.todo = Section(b) /\ f.saved = << >>
                    \/ f.todo = One("clear_pie", b) /\ f.saved = <<p>>
    BY <1>2 DEF Opens
  <2>2. b \in Seq(Cells)
    BY <2>1, BodyTyped
  <2>3. f.todo = Section(b) /\ f.saved = << >> /\ Rest(f) = One("clear_pie", b)
    <3>1. Starts(Section(b), "read_status", One("clear_pie", b)) /\ Starts(One("clear_pie", b), "clear_pie", b)
      BY <2>2, SectionStarts
    <3>2. f.todo # One("clear_pie", b)
      BY <3>1, Elsewhere, Zenon
    <3> QED
      BY <2>1, <3>1, <3>2, Here, Zenon
  <2>4. g.todo = One("clear_pie", b) /\ g.saved = <<p>>
    BY <1>2, <2>3 DEF Opens
  <2>5. Opens(g, z, p)'
    BY <1>1, <1>2, <2>1, <2>4, Same DEF Opens
  <2> QED
    BY <2>5 DEF InCode
<1>3. CASE Nests(f, z, p)
  <2>1. PICK x \in {"activate", "deactivate"}, j \in Irq :
          /\ Ready(x, j)
          /\ \/ f.todo = Inner(x, j, z) /\ f.saved = <<p>>
             \/ f.todo = One("clear_pie", Update(x, j, Restores(Restores(z)))) /\ f.saved = <<p, FALSE>>
    BY <1>3 DEF Nests
  <2>2. Restores(z) \in Seq(Cells)
    BY SectionStarts, StartsIs
  <2>3. Restores(Restores(z)) \in Seq(Cells)
    BY <2>2, SectionStarts, StartsIs
  <2>4. Update(x, j, Restores(Restores(z))) \in Seq(Cells)
    BY <2>3, UpdateStarts, StartsIs
  <2>5. /\ f.todo = Inner(x, j, z) /\ f.saved = <<p>>
        /\ Rest(f) = One("clear_pie", Update(x, j, Restores(Restores(z))))
    <3>1. /\ Starts(Inner(x, j, z), "read_status", One("clear_pie", Update(x, j, Restores(Restores(z)))))
          /\ Starts(One("clear_pie", Update(x, j, Restores(Restores(z)))), "clear_pie", Update(x, j, Restores(Restores(z))))
      BY <2>4, UpdateStarts, SectionStarts
    <3>2. f.todo # One("clear_pie", Update(x, j, Restores(Restores(z))))
      BY <3>1, Elsewhere, Zenon
    <3> QED
      BY <2>1, <3>1, <3>2, Here, Zenon
  <2>6. /\ g.todo = One("clear_pie", Update(x, j, Restores(Restores(z)))) /\ g.saved = <<p, FALSE>>
    <3>1. pie = FALSE
      BY <1>3 DEF Nests, TypeOK
    <3>2. g.saved = Append(<<p>>, FALSE)
      BY <2>5, <3>1
    <3> QED
      BY <2>5, <3>2, SavedPair, Zenon
  <2>7. Nests(g, z, p)'
    BY <1>1, <1>3, <2>1, <2>6, Same DEF Nests
  <2> QED
    BY <2>7 DEF InCode
<1> QED
  BY <1>2, <1>3, CodeOp

LEMMA ClearStep ==
  ASSUME NEW f, NEW g, NEW z \in Seq(Cells), NEW p \in BOOLEAN, InCode(f, z, p), TypeOK,
         Op(f) = "clear_pie", pie' = FALSE,
         UNCHANGED <<ienable, alt_irq_active, alt_priority_mask, tabs>>,
         g.todo = Rest(f), g.saved = f.saved
  PROVE  InCode(g, z, p)'
<1>1. /\ Regs' <=> Regs
      /\ Tabs' <=> Tabs
      /\ \A v : (Paired(v)' <=> Paired(v)) /\ (Given(v)' <=> Given(v))
      /\ \A x, j : Ready(x, j)' <=> Ready(x, j)
      /\ \A b, s : IsBody(b, s)' <=> IsBody(b, s)
      /\ handler' = handler
  BY DEF tabs, Regs, Tabs, Paired, Given, Ready, IsBody, None
<1>2. CASE Opens(f, z, p)
  <2>1. PICK b : /\ IsBody(b, z)
                 /\ \/ f.todo = Section(b) /\ f.saved = << >>
                    \/ f.todo = One("clear_pie", b) /\ f.saved = <<p>>
    BY <1>2 DEF Opens
  <2>2. b \in Seq(Cells)
    BY <2>1, BodyTyped
  <2>3. f.todo = One("clear_pie", b) /\ f.saved = <<p>> /\ Rest(f) = b
    <3>1. Starts(Section(b), "read_status", One("clear_pie", b)) /\ Starts(One("clear_pie", b), "clear_pie", b)
      BY <2>2, SectionStarts
    <3>2. f.todo # Section(b)
      BY <3>1, Elsewhere, Zenon
    <3> QED
      BY <2>1, <3>1, <3>2, Here, Zenon
  <2>4. g.todo = b /\ g.saved = <<p>>
    BY <2>3
  <2>5. Regs' /\ Tabs'
    BY <1>1, <1>2 DEF Opens
  <2>6. Paired(None)' /\ Given(None)' /\ \A j \in Irq : Given(j)'
    <3>1. Paired(None) /\ Given(None)
      BY <1>2 DEF Opens, Tabs
    <3>2. \A j \in Irq : Given(j)
      BY <3>1, NirqAssumption DEF TypeOK, Given, None, Irq
    <3> QED
      BY <1>1, <3>1, <3>2
  <2>7. ASSUME NEW x \in {"activate", "deactivate"}, NEW j \in Irq, x = "activate" => handler[j] # NULL
        PROVE  Ready(x, j)'
    BY <1>1, <2>6, <2>7 DEF Ready
  <2>8. CASE \E j \in Irq : handler[j] # NULL /\ b = Update("activate", j, Restores(z))
    <3>1. PICK j \in Irq : handler[j] # NULL /\ b = Update("activate", j, Restores(z))
      BY <2>8
    <3>2. Updates(g, z, p)'
      BY <2>4, <2>5, <2>7, <3>1 DEF Updates, Closing
    <3> QED
      BY <3>2 DEF InCode
  <2>9. CASE \E j \in Irq : b = Update("deactivate", j, Restores(z))
    <3>1. PICK j \in Irq : b = Update("deactivate", j, Restores(z))
      BY <2>9
    <3>2. Updates(g, z, p)'
      BY <2>4, <2>5, <2>7, <3>1 DEF Updates, Closing
    <3> QED
      BY <3>2 DEF InCode
  <2>10. CASE \E j \in Irq : b = Inner("deactivate", j, z)
    <3>1. PICK j \in Irq : b = Inner("deactivate", j, z)
      BY <2>10
    <3>2. Nests(g, z, p)'
      BY <2>4, <2>5, <2>7, <3>1 DEF Nests
    <3> QED
      BY <3>2 DEF InCode
  <2>11. CASE \E j \in Irq, h \in Handlers \cup {NULL} : (h # NULL \/ z = << >>) /\ b = Register(j, h, z)
    <3>1. Registers(g, z, p)'
      BY <2>4, <2>5, <2>11 DEF Registers
    <3> QED
      BY <3>1 DEF InCode
  <2> QED
    BY <2>1, <2>8, <2>9, <2>10, <2>11 DEF IsBody
<1>3. CASE Nests(f, z, p)
  <2>1. PICK x \in {"activate", "deactivate"}, j \in Irq :
          /\ Ready(x, j)
          /\ \/ f.todo = Inner(x, j, z) /\ f.saved = <<p>>
             \/ f.todo = One("clear_pie", Update(x, j, Restores(Restores(z)))) /\ f.saved = <<p, FALSE>>
    BY <1>3 DEF Nests
  <2>2. Restores(z) \in Seq(Cells)
    BY SectionStarts, StartsIs
  <2>3. Restores(Restores(z)) \in Seq(Cells)
    BY <2>2, SectionStarts, StartsIs
  <2>4. Update(x, j, Restores(Restores(z))) \in Seq(Cells)
    BY <2>3, UpdateStarts, StartsIs
  <2>5. f.saved = <<p, FALSE>> /\ Rest(f) = Update(x, j, Restores(Restores(z)))
    <3>1. /\ Starts(Inner(x, j, z), "read_status", One("clear_pie", Update(x, j, Restores(Restores(z)))))
          /\ Starts(One("clear_pie", Update(x, j, Restores(Restores(z)))), "clear_pie", Update(x, j, Restores(Restores(z))))
      BY <2>4, UpdateStarts, SectionStarts
    <3>2. f.todo # Inner(x, j, z)
      BY <3>1, Elsewhere, Zenon
    <3> QED
      BY <2>1, <3>1, <3>2, Here, Zenon
  <2>6. Regs' /\ Ready(x, j)'
    BY <1>1, <1>3, <2>1 DEF Nests
  <2>7. Updates(g, z, p)'
    BY <2>5, <2>6 DEF Updates, Closing
  <2> QED
    BY <2>7 DEF InCode
<1> QED
  BY <1>2, <1>3, CodeOp

LEMMA RestoreStep ==
  ASSUME NEW f, NEW g, NEW z \in Seq(Cells), NEW p \in BOOLEAN, InCode(f, z, p),
         Op(f) = "restore", pie' = f.saved[Len(f.saved)],
         UNCHANGED <<ienable, alt_irq_active, alt_priority_mask, tabs>>,
         g.todo = Rest(f), g.saved = SubSeq(f.saved, 1, Len(f.saved) - 1)
  PROVE  \/ InCode(g, z, p)'
         \/ g.todo = z /\ g.saved = << >> /\ pie' = p /\ Regs' /\ Tabs'
<1>1. Closes(f, z, p)
  BY CodeOp
<1>2. Regs' /\ Tabs'
  BY <1>1 DEF Closes, tabs, Regs, Tabs, Paired, Given, None
<1>3. Restores(z) \in Seq(Cells)
  BY SectionStarts, StartsIs
<1>4. CASE f.todo = Restores(z) /\ f.saved = <<p>>
  <2>1. g.todo = z
    BY <1>4, SectionStarts, FrameStarts
  <2>2. pie' = p /\ g.saved = << >>
    BY <1>4
  <2> QED
    BY <1>2, <2>1, <2>2
<1>5. CASE f.todo = Restores(Restores(z)) /\ f.saved = <<p, FALSE>>
  <2>1. g.todo = Restores(z)
    BY <1>3, <1>5, SectionStarts, FrameStarts
  <2>2. pie' = FALSE /\ g.saved = <<p>>
    <3>1. pie' = <<p, FALSE>>[Len(<<p, FALSE>>)] /\ g.saved = SubSeq(<<p, FALSE>>, 1, Len(<<p, FALSE>>) - 1)
      BY <1>5, Zenon
    <3>2. p \in BOOLEAN /\ FALSE \in BOOLEAN
      OBVIOUS
    <3> QED
      BY <3>1, <3>2, SavedPair, Zenon
  <2>3. Closes(g, z, p)'
    BY <1>2, <2>1, <2>2 DEF Closes, Closing
  <2> QED
    BY <2>3 DEF InCode
<1> QED
  BY <1>1, <1>4, <1>5 DEF Closes, Closing

LEMMA ActiveStep ==
  ASSUME NEW f, NEW g, NEW z \in Seq(Cells), NEW p \in BOOLEAN, InCode(f, z, p), TypeOK,
         NEW j, j = Id(f),
         \/ Op(f) = "activate" /\ alt_irq_active' = alt_irq_active \cup {j}
         \/ Op(f) = "deactivate" /\ alt_irq_active' = alt_irq_active \ {j},
         UNCHANGED <<pie, ienable, alt_priority_mask, tabs>>,
         g.todo = Rest(f), g.saved = f.saved
  PROVE  InCode(g, z, p)' /\ alt_irq_active' \subseteq Irq
<1>1. Updates(f, z, p)
  BY CodeOp
<1>2. PICK x, k, s : x \in {"activate", "deactivate"} /\ k \in Irq /\
        Ready(x, k) /\ f.todo = Update(x, k, s) /\ Closing(s, f.saved, z, p)
  BY <1>1 DEF Updates
<1>3. s \in Seq(Cells)
  BY <1>2, ClosingStarts
<1>4. Op(f) = x /\ k = j /\ g.todo = One("ienable", s)
  <2>1. Starts(f.todo, x, One("ienable", s)) /\ Id(f) = k
    BY <1>2, <1>3, UpdateStarts DEF Id
  <2> QED
    BY <2>1, FrameStarts
<1>5. Paired(None)' /\ ~ pie'
  BY <1>1, <1>2 DEF Updates, Ready, Paired, tabs, None
<1>6. alt_irq_active' \subseteq Irq /\ None \notin Irq
  <2>1. None \notin Irq
    BY NirqAssumption DEF None, Irq
  <2>2. j \in Irq /\ alt_irq_active \subseteq Irq
    BY <1>2, <1>4 DEF TypeOK
  <2>3. alt_irq_active' \subseteq alt_irq_active \cup {j}
    OBVIOUS
  <2> QED
    BY <2>1, <2>2, <2>3
<1>7. handler' = handler /\ ienable' = ienable
  BY DEF tabs
<1>8. CASE x = "activate"
  <2>1. Given(None)'
    <3>1. Given(None) /\ handler[j] # NULL /\ alt_irq_active' = alt_irq_active \cup {j}
      BY <1>2, <1>4, <1>8 DEF Ready
    <3> QED
      BY <1>7, <3>1 DEF Given
  <2>2. None \notin alt_irq_active'
    BY <1>6
  <2>3. Writes(g, z, p)'
    BY <1>2, <1>4, <1>5, <2>1, <2>2, Zenon DEF Writes, Closing
  <2> QED
    BY <1>6, <2>3 DEF InCode
<1>9. CASE x = "deactivate"
  <2>1. alt_irq_active' = alt_irq_active \ {j} /\ Given(j)
    BY <1>2, <1>4, <1>9 DEF Ready
  <2>2. Given(j)' /\ j \notin alt_irq_active'
    BY <1>7, <2>1 DEF Given
  <2>3. Writes(g, z, p)'
    BY <1>2, <1>4, <1>5, <2>2, Zenon DEF Writes, Closing
  <2> QED
    BY <1>6, <2>3 DEF InCode
<1> QED
  BY <1>2, <1>8, <1>9

LEMMA IenableStep ==
  ASSUME NEW f, NEW g, NEW z \in Seq(Cells), NEW p \in BOOLEAN, InCode(f, z, p), TypeOK,
         Op(f) = "ienable", ienable' = alt_irq_active, alt_priority_mask = Irq,
         UNCHANGED <<pie, alt_irq_active, alt_priority_mask, tabs>>,
         g.todo = Rest(f), g.saved = f.saved
  PROVE  InCode(g, z, p)'
<1>1. Writes(f, z, p)
  BY CodeOp
<1>2. PICK s, v : v \in Irq \cup {None} /\
        Given(v) /\ v \notin alt_irq_active /\ f.todo = One("ienable", s) /\ Closing(s, f.saved, z, p)
  BY <1>1 DEF Writes
<1>3. s \in Seq(Cells)
  BY <1>2, ClosingStarts
<1>4. g.todo = s
  BY <1>2, <1>3, SectionStarts, FrameStarts
<1>5. Regs'
  BY DEF Regs, TypeOK
<1>6. Tabs'
  BY <1>1, <1>2 DEF Tabs, Writes, Paired, Given, tabs, None
<1>7. Closes(g, z, p)'
  BY <1>1, <1>2, <1>4, <1>5, <1>6 DEF Closes, Closing, Writes
<1> QED
  BY <1>7 DEF InCode

LEMMA HandlerStep ==
  ASSUME NEW f, NEW g, NEW z \in Seq(Cells), NEW p \in BOOLEAN, InCode(f, z, p), TypeOK,
         NEW j, j = Id(f), NEW h, h = Isr(f),
         Op(f) = "handler", handler' = [handler EXCEPT ![j] = h],
         UNCHANGED <<regs, context, exceptionHandler>>,
         g.todo = Rest(f), g.saved = f.saved
  PROVE  /\ InCode(g, z, p)' /\ handler' \in [Irq -> Handlers \cup {NULL}]
         /\ z # << >> => \A k \in Irq : handler[k] # NULL => handler'[k] # NULL
<1>1. Registers(f, z, p)
  BY CodeOp
<1>2. PICK k \in Irq, i \in Handlers \cup {NULL} : (i # NULL \/ z = << >>) /\ f.todo = Register(k, i, z) /\ f.saved = <<p>>
  BY <1>1 DEF Registers
<1>3. k = j /\ i = h /\ g.todo = Half(j, h, z)
  BY <1>2, RegisterStarts, FrameStarts DEF Isrs, Id, Isr
<1>4. handler'[j] = h /\ \A n \in Irq \ {j} : handler'[n] = handler[n]
  BY <1>2, <1>3 DEF TypeOK
<1>5. Paired(j)' /\ Given(j)' /\ Regs' /\ ~ pie'
  <2>1. Paired(None) /\ Given(None) /\ Regs /\ ~ pie
    BY <1>1 DEF Registers, Tabs
  <2>2. alt_irq_active \subseteq Irq /\ ienable \subseteq Irq /\ None \notin Irq
    BY NirqAssumption DEF TypeOK, None, Irq
  <2>3. Paired(j)'
    BY <1>4, <2>1, <2>2 DEF Paired
  <2>4. Given(j)'
    BY <1>4, <2>1, <2>2 DEF Given, regs
  <2> QED
    BY <2>1, <2>3, <2>4 DEF Regs, regs
<1>6. Halfway(g, z, p)'
  BY <1>2, <1>3, <1>4, <1>5 DEF Halfway
<1> QED
  BY <1>2, <1>3, <1>4, <1>6 DEF InCode, TypeOK

LEMMA ContextStep ==
  ASSUME NEW f, NEW g, NEW z \in Seq(Cells), NEW p \in BOOLEAN, InCode(f, z, p), TypeOK,
         NEW j, j = Id(f), NEW h, h = Isr(f),
         Op(f) = "context", context' = [context EXCEPT ![j] = h],
         UNCHANGED <<regs, handler, exceptionHandler>>,
         g.todo = Rest(f), g.saved = f.saved
  PROVE  InCode(g, z, p)' /\ context' \in [Irq -> Handlers \cup {NULL}]
<1>1. Halfway(f, z, p)
  BY CodeOp
<1>2. PICK k \in Irq, i \in Handlers \cup {NULL} :
        f.todo = Half(k, i, z) /\ f.saved = <<p>> /\ handler[k] = i /\ Paired(k) /\ Given(k)
  BY <1>1 DEF Halfway
<1>3. k = j /\ i = h /\ g.todo = Inner(Turn(h), j, z)
  <2>1. Starts(f.todo, "context", Inner(Turn(i), k, z)) /\ Id(f) = k /\ Isr(f) = i
    BY <1>2, RegisterStarts DEF Isrs, Id, Isr
  <2> QED
    BY <2>1, FrameStarts
<1>4. context'[j] = h /\ \A n \in Irq \ {j} : context'[n] = context[n]
  BY <1>2, <1>3 DEF TypeOK
<1>5. Paired(None)'
  BY <1>2, <1>3, <1>4, NirqAssumption DEF Paired, None, Irq
<1>6. Given(j)' /\ (h # NULL => Given(None)')
  BY <1>2, <1>3 DEF Given, regs
<1>7. Turn(h) \in {"activate", "deactivate"} /\ Ready(Turn(h), j)'
  BY <1>2, <1>3, <1>5, <1>6 DEF Turn, Ready
<1>8. Regs' /\ ~ pie'
  BY <1>1 DEF Halfway, Regs, regs
<1>9. Nests(g, z, p)'
  BY <1>2, <1>3, <1>7, <1>8 DEF Nests
<1> QED
  BY <1>2, <1>3, <1>9 DEF InCode, TypeOK

-----------------------------------------------------------------------------
(* The program and the handlers, access by access.                         *)
Quiet(f)     == ~ pie /\ Regs /\ Tabs /\ f.saved = << >>
Begins(f)    == ~ pie /\ alt_irq_active = {} /\ Paired(None) /\ f.saved = << >> /\ alt_priority_mask = Irq
Narrowed(f, below) == Tabs /\ f.saved = << >> /\ f.mask = below /\ alt_priority_mask = 0 .. f.irq - 1

LEMMA NoCode == << >> \in Seq(Cells) /\ TRUE \in BOOLEAN /\ FALSE \in BOOLEAN
OBVIOUS

LEMMA LastStarts ==
  ASSUME NEW op \in Ops, NEW i \in Int, NEW h \in Isrs
  PROVE  /\ Starts(Then(op, i, h, << >>), op, << >>)
         /\ Head(Then(op, i, h, << >>)).id = i /\ Head(Then(op, i, h, << >>)).isr = h
         /\ Then(op, i, h, << >>) \in Seq(Cells) /\ Then(op, i, h, << >>) # << >>
<1>1. PICK s : s = << >>
  OBVIOUS
<1>2. s \in Seq(Cells)
  BY <1>1
<1>3. /\ Starts(Then(op, i, h, s), op, s)
      /\ Head(Then(op, i, h, s)).id = i /\ Head(Then(op, i, h, s)).isr = h
  BY <1>2, ThenStarts
<1>4. Then(op, i, h, s) \in Seq(Cells) /\ Then(op, i, h, s) # << >>
  BY <1>3, StartsIs
<1> QED
  BY <1>1, <1>3, <1>4, Zenon

LEMMA ProgramOps ==
  ASSUME NEW f, InProgram(f), f.todo # << >>
  PROVE  /\ alt_priority_mask = Irq
         /\ \/ InCode(f, << >>, TRUE)
            \/ /\ pie /\ Regs /\ Tabs /\ Plain(f) /\ Rest(f) = << >>
               /\ Op(f) = "exception_register" \/ (Op(f) = "fault" /\ exceptionHandler # NULL)
            \/ Op(f) = "ienable_none" /\ Begins(f) /\ Rest(f) = One("open", << >>)
            \/ Op(f) = "open" /\ Begins(f) /\ ienable = {} /\ Rest(f) = << >>
<1>1. /\ "exception_register" \in Ops /\ "fault" \in Ops /\ "ienable_none" \in Ops /\ "open" \in Ops
      /\ 0 \in Int /\ << >> \in Seq(Cells)
  BY DEF Ops
<1>2. CASE pie /\ Regs /\ Tabs /\ Plain(f)
  <2>1. ASSUME NEW h \in Isrs, f.todo = Then("exception_register", 0, h, << >>)
        PROVE  Op(f) = "exception_register" /\ Rest(f) = << >>
    <3>1. Starts(Then("exception_register", 0, h, << >>), "exception_register", << >>)
      BY <1>1, ThenStarts
    <3> QED
      BY <2>1, <3>1, Here
  <2>2. ASSUME f.todo = One("fault", << >>)
        PROVE  Op(f) = "fault" /\ Rest(f) = << >>
    BY <1>1, <2>2, OneStarts, Here
  <2> QED
    BY <1>2, <2>1, <2>2 DEF Plain, InProgram, Isrs
<1>3. CASE ~ pie /\ alt_irq_active = {} /\ Paired(None) /\ f.saved = << >> /\ f.todo = Starting
  <2>1. Starts(One("open", << >>), "open", << >>)
    BY <1>1, OneStarts
  <2>2. One("open", << >>) \in Seq(Cells)
    BY <2>1, StartsIs
  <2>3. Starts(Starting, "ienable_none", One("open", << >>))
    BY <1>1, <2>2, OneStarts DEF Starting
  <2> QED
    BY <1>3, <2>3, Here DEF Begins, InProgram
<1>4. CASE ~ pie /\ alt_irq_active = {} /\ Paired(None) /\ f.saved = << >> /\ f.todo = One("open", << >>) /\ ienable = {}
  BY <1>1, <1>4, OneStarts, Here DEF Begins, InProgram
<1>5. CASE InCode(f, << >>, TRUE)
  BY <1>5 DEF InProgram
<1> QED
  BY <1>2, <1>3, <1>4, <1>5 DEF InProgram

LEMMA HandlerOps ==
  ASSUME NEW f, NEW below, InHandler(f, below), f.todo # << >>
  PROVE  /\ f.irq \in Irq
         /\ \/ alt_priority_mask = Irq /\ below = Irq /\ InCode(f, On("ack", f.irq), FALSE)
            \/ Op(f) = "ack" /\ Id(f) = f.irq /\ Quiet(f) /\ alt_priority_mask = below /\ Rest(f) = << >>
            \/ /\ Op(f) = "narrow" /\ Id(f) = f.irq /\ Quiet(f) /\ alt_priority_mask = below
               /\ Rest(f) = One("ienable_masked", One("open", Then("ack", f.irq, NULL, Leave)))
            \/ Op(f) = "ienable_masked" /\ Narrowed(f, below) /\ ~ pie /\ Rest(f) = One("open", Then("ack", f.irq, NULL, Leave))
            \/ Op(f) = "open" /\ Narrowed(f, below) /\ Regs /\ Rest(f) = Then("ack", f.irq, NULL, Leave)
            \/ Op(f) = "ack" /\ Id(f) = f.irq /\ Narrowed(f, below) /\ pie /\ Regs /\ Rest(f) = Leave
            \/ /\ Op(f) = "clear_pie" /\ Narrowed(f, below) /\ pie /\ Regs
               /\ Rest(f) = One("widen", One("ienable_masked", << >>))
            \/ Op(f) = "widen" /\ Narrowed(f, below) /\ ~ pie /\ Rest(f) = One("ienable_masked", << >>)
            \/ /\ Op(f) = "ienable_masked" /\ Tabs /\ f.saved = << >> /\ ~ pie /\ alt_priority_mask = below
               /\ Rest(f) = << >>
<1> DEFINE i == f.irq
           acked == Then("ack", i, NULL, Leave)
<1>1. /\ "narrow" \in Ops /\ "ienable_masked" \in Ops /\ "open" \in Ops /\ "ack" \in Ops
      /\ "clear_pie" \in Ops /\ "widen" \in Ops /\ i \in Irq /\ i \in Int /\ NULL \in Isrs /\ << >> \in Seq(Cells)
  BY NirqAssumption DEF Ops, Irq, Isrs, InHandler
<1>2. /\ One("ienable_masked", One("open", acked)) \in Seq(Cells)
      /\ One("open", acked) \in Seq(Cells) /\ acked \in Seq(Cells) /\ Leave \in Seq(Cells)
      /\ One("widen", One("ienable_masked", << >>)) \in Seq(Cells) /\ One("ienable_masked", << >>) \in Seq(Cells)
  BY <1>1, NestIs
<1>3. /\ Starts(On("ack", i), "ack", << >>) /\ Head(On("ack", i)).id = i
  <2>1. On("ack", i) = Then("ack", i, NULL, << >>)
    BY <1>1, OnIs
  <2>2. /\ Starts(Then("ack", i, NULL, << >>), "ack", << >>)
        /\ Head(Then("ack", i, NULL, << >>)).id = i
    BY <1>1, LastStarts
  <2> QED
    BY <2>1, <2>2, Zenon
<1>4. /\ Starts(Nest(i), "narrow", One("ienable_masked", One("open", acked))) /\ Head(Nest(i)).id = i
  BY <1>1, <1>2, ThenStarts DEF Nest
<1>5. /\ Starts(One("ienable_masked", One("open", acked)), "ienable_masked", One("open", acked))
      /\ Starts(One("open", acked), "open", acked)
      /\ Starts(One("widen", One("ienable_masked", << >>)), "widen", One("ienable_masked", << >>))
      /\ Starts(One("ienable_masked", << >>), "ienable_masked", << >>)
      /\ Starts(Leave, "clear_pie", One("widen", One("ienable_masked", << >>)))
  BY <1>1, <1>2, OneStarts DEF Leave
<1>6. Starts(acked, "ack", Leave) /\ Head(acked).id = i
  BY <1>1, <1>2, ThenStarts
<1>7. CASE ~ pie /\ Regs /\ Tabs /\ alt_priority_mask = below /\ f.saved = << >> /\ f.todo \in {On("ack", i), Nest(i)}
  <2>1. CASE f.todo = On("ack", i)
    BY <1>1, <1>3, <1>7, <2>1, Here DEF Quiet, Id
  <2>2. CASE f.todo = Nest(i)
    BY <1>1, <1>4, <1>7, <2>2, Here DEF Quiet, Id
  <2> QED
    BY <1>7, <2>1, <2>2
<1>8. CASE InNest(f, below)
  <2>1. CASE ~ pie /\ alt_priority_mask = 0 .. i - 1 /\ f.todo = One("ienable_masked", One("open", acked))
    BY <1>1, <1>5, <1>8, <2>1, Here DEF InNest, Narrowed
  <2>2. CASE ~ pie /\ alt_priority_mask = 0 .. i - 1 /\ Regs /\ f.todo = One("open", acked)
    BY <1>1, <1>5, <1>8, <2>2, Here DEF InNest, Narrowed
  <2>3. CASE pie /\ alt_priority_mask = 0 .. i - 1 /\ Regs /\ f.todo = acked
    BY <1>1, <1>6, <1>8, <2>3, Here DEF InNest, Narrowed, Id
  <2>4. CASE pie /\ alt_priority_mask = 0 .. i - 1 /\ Regs /\ f.todo = Leave
    BY <1>1, <1>5, <1>8, <2>4, Here DEF InNest, Narrowed
  <2>5. CASE ~ pie /\ alt_priority_mask = 0 .. i - 1 /\ f.todo = One("widen", One("ienable_masked", << >>))
    BY <1>1, <1>5, <1>8, <2>5, Here DEF InNest, Narrowed
  <2>6. CASE ~ pie /\ alt_priority_mask = below /\ f.todo = One("ienable_masked", << >>)
    BY <1>1, <1>5, <1>8, <2>6, Here DEF InNest
  <2> QED
    BY <1>8, <2>1, <2>2, <2>3, <2>4, <2>5, <2>6 DEF InNest
<1> QED
  BY <1>1, <1>7, <1>8 DEF InHandler

LEMMA HandlerSection ==
  ASSUME NEW f, NEW below, InHandler(f, below), f.todo # << >>,
         Op(f) \in {"read_status", "restore", "activate", "deactivate", "ienable", "handler", "context"}
  PROVE  f.irq \in Irq /\ alt_priority_mask = Irq /\ below = Irq /\ InCode(f, On("ack", f.irq), FALSE)
<1>1. /\ Op(f) # "ack" /\ Op(f) # "narrow" /\ Op(f) # "ienable_masked" /\ Op(f) # "open"
      /\ Op(f) # "clear_pie" /\ Op(f) # "widen"
  OBVIOUS
<1> QED
  BY <1>1, HandlerOps, Zenon

LEMMA HandlerClears ==
  ASSUME NEW f, NEW below, InHandler(f, below), f.todo # << >>, Op(f) = "clear_pie"
  PROVE  /\ f.irq \in Irq
         /\ \/ alt_priority_mask = Irq /\ below = Irq /\ InCode(f, On("ack", f.irq), FALSE)
            \/ Narrowed(f, below) /\ Rest(f) = One("widen", One("ienable_masked", << >>))
  BY HandlerOps

LEMMA AckTyped ==
  ASSUME NEW i \in Irq
  PROVE  On("ack", i) \in Seq(Cells) /\ On("ack", i) # << >>
<1>1. "ack" \in Ops /\ i \in Int /\ NULL \in Isrs /\ << >> \in Seq(Cells)
  BY NirqAssumption DEF Ops, Irq, Isrs
<1>2. On("ack", i) = Then("ack", i, NULL, << >>)
  BY <1>1, OnIs
<1> QED
  BY <1>1, <1>2, LastStarts

(* The steps of the program, alone on the stack, and of a handler that     *)
(* found the mask below: f becomes g.                                      *)
LEMMA ReadKeeps ==
  ASSUME NEW f, NEW g, NEW below, TypeOK, f.todo # << >>, Op(f) = "read_status",
         g.todo = Rest(f), g.saved = Append(f.saved, pie), g.irq = f.irq,
         UNCHANGED <<regs, tabs>>
  PROVE  /\ InProgram(f) => InProgram(g)'
         /\ InHandler(f, below) => InHandler(g, below)'
<1>1. UNCHANGED alt_priority_mask
  BY DEF regs
<1>2. ASSUME InProgram(f) PROVE InProgram(g)'
  <2>1. alt_priority_mask = Irq /\ InCode(f, << >>, TRUE)
    BY <1>2, ProgramOps
  <2>2. InCode(g, << >>, TRUE)'
    BY <2>1, ReadStep, NoCode
  <2> QED
    BY <1>1, <2>1, <2>2 DEF InProgram
<1>3. ASSUME InHandler(f, below) PROVE InHandler(g, below)'
  <2>1. f.irq \in Irq /\ alt_priority_mask = Irq /\ below = Irq /\ InCode(f, On("ack", f.irq), FALSE)
    BY <1>3, HandlerSection
  <2>2. InCode(g, On("ack", f.irq), FALSE)'
    BY <2>1, ReadStep, NoCode, AckTyped
  <2> QED
    BY <1>1, <2>1, <2>2 DEF InHandler
<1> QED
  BY <1>2, <1>3

LEMMA ClearKeeps ==
  ASSUME NEW f, NEW g, NEW below, TypeOK, f.todo # << >>, Op(f) = "clear_pie",
         g.todo = Rest(f), g.saved = f.saved, g.irq = f.irq, g.mask = f.mask, pie' = FALSE,
         UNCHANGED <<ienable, alt_irq_active, alt_priority_mask, tabs>>
  PROVE  /\ InProgram(f) => InProgram(g)'
         /\ InHandler(f, below) => InHandler(g, below)'
<1>1. Tabs' <=> Tabs
  BY DEF tabs, Tabs, Paired, Given, None
<1>2. ASSUME InProgram(f) PROVE InProgram(g)'
  <2>1. alt_priority_mask = Irq /\ InCode(f, << >>, TRUE)
    BY <1>2, ProgramOps
  <2>2. InCode(g, << >>, TRUE)'
    BY <2>1, ClearStep, NoCode
  <2> QED
    BY <2>1, <2>2 DEF InProgram
<1>3. ASSUME InHandler(f, below) PROVE InHandler(g, below)'
  <2>1. CASE f.irq \in Irq /\ alt_priority_mask = Irq /\ below = Irq /\ InCode(f, On("ack", f.irq), FALSE)
    <3>1. InCode(g, On("ack", f.irq), FALSE)'
      BY <2>1, ClearStep, NoCode, AckTyped
    <3> QED
      BY <2>1, <3>1 DEF InHandler
  <2>2. CASE f.irq \in Irq /\ Narrowed(f, below) /\ Rest(f) = One("widen", One("ienable_masked", << >>))
    BY <1>1, <2>2 DEF InHandler, InNest, Narrowed
  <2> QED
    <3>1. /\ f.irq \in Irq
          /\ \/ alt_priority_mask = Irq /\ below = Irq /\ InCode(f, On("ack", f.irq), FALSE)
             \/ Narrowed(f, below) /\ Rest(f) = One("widen", One("ienable_masked", << >>))
      BY <1>3, HandlerClears
    <3> QED
      BY <2>1, <2>2, <3>1
<1> QED
  BY <1>2, <1>3

LEMMA OpenKeeps ==
  ASSUME NEW f, NEW g, NEW below, TypeOK, f.todo # << >>, Op(f) = "open",
         g.todo = Rest(f), g.saved = f.saved, g.irq = f.irq, g.mask = f.mask, pie' = TRUE,
         UNCHANGED <<ienable, alt_irq_active, alt_priority_mask, tabs>>
  PROVE  /\ InProgram(f) => InProgram(g)'
         /\ InHandler(f, below) => InHandler(g, below)'
<1>1. (Tabs' <=> Tabs) /\ (Regs' <=> Regs)
  BY DEF tabs, Tabs, Paired, Given, None, Regs
<1>2. ASSUME InProgram(f) PROVE InProgram(g)'
  <2>1. ~ InCode(f, << >>, TRUE)
    BY CodeOp, NoCode
  <2>2. Begins(f) /\ ienable = {} /\ Rest(f) = << >>
    BY <1>2, <2>1, ProgramOps
  <2>3. Regs /\ Tabs /\ alt_priority_mask = Irq
    BY <2>2 DEF Begins, Regs, Tabs, Given
  <2> QED
    BY <1>1, <2>2, <2>3 DEF InProgram, Plain, Begins
<1>3. ASSUME InHandler(f, below) PROVE InHandler(g, below)'
  <2>1. f.irq \in Irq
    BY <1>3 DEF InHandler
  <2>2. ~ InCode(f, On("ack", f.irq), FALSE)
    BY <2>1, CodeOp, NoCode, AckTyped
  <2>3. Narrowed(f, below) /\ Regs /\ Rest(f) = Then("ack", f.irq, NULL, Leave)
    BY <1>3, <2>2, HandlerOps
  <2> QED
    BY <1>1, <2>1, <2>3 DEF InHandler, InNest, Narrowed
<1> QED
  BY <1>2, <1>3

LEMMA RestoreKeeps ==
  ASSUME NEW f, NEW g, NEW below, TypeOK, f.todo # << >>, Op(f) = "restore",
         g.todo = Rest(f), g.irq = f.irq, g.mask = f.mask,
         pie' = f.saved[Len(f.saved)], g.saved = SubSeq(f.saved, 1, Len(f.saved) - 1),
         UNCHANGED <<ienable, alt_irq_active, alt_priority_mask, tabs>>
  PROVE  /\ InProgram(f) => InProgram(g)'
         /\ InHandler(f, below) => InHandler(g, below)'
<1>1. ASSUME InProgram(f) PROVE InProgram(g)'
  <2>1. alt_priority_mask = Irq /\ InCode(f, << >>, TRUE)
    BY <1>1, ProgramOps
  <2>2. \/ InCode(g, << >>, TRUE)'
        \/ g.todo = << >> /\ g.saved = << >> /\ pie' = TRUE /\ Regs' /\ Tabs'
    BY <2>1, RestoreStep, NoCode
  <2> QED
    BY <2>1, <2>2 DEF InProgram, Plain
<1>2. ASSUME InHandler(f, below) PROVE InHandler(g, below)'
  <2>1. f.irq \in Irq /\ alt_priority_mask = Irq /\ below = Irq /\ InCode(f, On("ack", f.irq), FALSE)
    BY <1>2, HandlerSection
  <2>2. \/ InCode(g, On("ack", f.irq), FALSE)'
        \/ g.todo = On("ack", f.irq) /\ g.saved = << >> /\ pie' = FALSE /\ Regs' /\ Tabs'
    BY <2>1, RestoreStep, NoCode, AckTyped
  <2> QED
    BY <2>1, <2>2 DEF InHandler
<1> QED
  BY <1>1, <1>2

LEMMA ActiveKeeps ==
  ASSUME NEW f, NEW g, NEW below, TypeOK, f.todo # << >>,
         \/ Op(f) = "activate" /\ alt_irq_active' = alt_irq_active \cup {Id(f)}
         \/ Op(f) = "deactivate" /\ alt_irq_active' = alt_irq_active \ {Id(f)},
         g.todo = Rest(f), g.saved = f.saved, g.irq = f.irq,
         UNCHANGED <<pie, ienable, alt_priority_mask, tabs>>
  PROVE  /\ InProgram(f) => InProgram(g)' /\ alt_irq_active' \subseteq Irq
         /\ InHandler(f, below) => InHandler(g, below)' /\ alt_irq_active' \subseteq Irq
<1>1. ASSUME InProgram(f) PROVE InProgram(g)' /\ alt_irq_active' \subseteq Irq
  <2>1. alt_priority_mask = Irq /\ InCode(f, << >>, TRUE)
    BY <1>1, ProgramOps
  <2>2. InCode(g, << >>, TRUE)' /\ alt_irq_active' \subseteq Irq
    BY <2>1, ActiveStep, NoCode
  <2> QED
    BY <2>1, <2>2 DEF InProgram
<1>2. ASSUME InHandler(f, below) PROVE InHandler(g, below)' /\ alt_irq_active' \subseteq Irq
  <2>1. f.irq \in Irq /\ alt_priority_mask = Irq /\ below = Irq /\ InCode(f, On("ack", f.irq), FALSE)
    BY <1>2, HandlerSection
  <2>2. InCode(g, On("ack", f.irq), FALSE)' /\ alt_irq_active' \subseteq Irq
    BY <2>1, ActiveStep, NoCode, AckTyped
  <2> QED
    BY <2>1, <2>2 DEF InHandler
<1> QED
  BY <1>1, <1>2

LEMMA HandlerMasks ==
  ASSUME NEW f, NEW below, InHandler(f, below), f.todo # << >>, Op(f) \in {"ienable_masked", "ienable_none"}
  PROVE  /\ f.irq \in Irq /\ Op(f) = "ienable_masked"
         /\ \/ Narrowed(f, below) /\ ~ pie /\ Rest(f) = One("open", Then("ack", f.irq, NULL, Leave))
            \/ Tabs /\ f.saved = << >> /\ ~ pie /\ alt_priority_mask = below /\ Rest(f) = << >>
<1>1. /\ Op(f) # "ack" /\ Op(f) # "narrow" /\ Op(f) # "open" /\ Op(f) # "clear_pie" /\ Op(f) # "widen"
  OBVIOUS
<1>2. f.irq \in Irq => ~ InCode(f, On("ack", f.irq), FALSE)
  BY CodeOp, AckTyped
<1> QED
  BY <1>1, <1>2, HandlerOps, Zenon

LEMMA HandlerNarrows ==
  ASSUME NEW f, NEW below, InHandler(f, below), f.todo # << >>, Op(f) = "narrow"
  PROVE  /\ f.irq \in Irq /\ Id(f) = f.irq /\ Quiet(f) /\ alt_priority_mask = below
         /\ Rest(f) = One("ienable_masked", One("open", Then("ack", f.irq, NULL, Leave)))
<1>1. /\ Op(f) # "ack" /\ Op(f) # "ienable_masked" /\ Op(f) # "open" /\ Op(f) # "clear_pie" /\ Op(f) # "widen"
  OBVIOUS
<1>2. f.irq \in Irq => ~ InCode(f, On("ack", f.irq), FALSE)
  BY CodeOp, AckTyped
<1> QED
  BY <1>1, <1>2, HandlerOps, Zenon

LEMMA HandlerWidens ==
  ASSUME NEW f, NEW below, InHandler(f, below), f.todo # << >>, Op(f) = "widen"
  PROVE  f.irq \in Irq /\ Narrowed(f, below) /\ ~ pie /\ Rest(f) = One("ienable_masked", << >>)
<1>1. /\ Op(f) # "ack" /\ Op(f) # "ienable_masked" /\ Op(f) # "open" /\ Op(f) # "clear_pie" /\ Op(f) # "narrow"
  OBVIOUS
<1>2. f.irq \in Irq => ~ InCode(f, On("ack", f.irq), FALSE)
  BY CodeOp, AckTyped
<1> QED
  BY <1>1, <1>2, HandlerOps, Zenon

LEMMA HandlerAcks ==
  ASSUME NEW f, NEW below, InHandler(f, below), f.todo # << >>, Op(f) = "ack"
  PROVE  /\ f.irq \in Irq /\ Id(f) = f.irq
         /\ \/ Quiet(f) /\ alt_priority_mask = below /\ Rest(f) = << >>
            \/ Narrowed(f, below) /\ pie /\ Regs /\ Rest(f) = Leave
<1>1. /\ Op(f) # "widen" /\ Op(f) # "ienable_masked" /\ Op(f) # "open" /\ Op(f) # "clear_pie" /\ Op(f) # "narrow"
  OBVIOUS
<1>2. f.irq \in Irq => ~ InCode(f, On("ack", f.irq), FALSE)
  BY CodeOp, AckTyped
<1> QED
  BY <1>1, <1>2, HandlerOps, Zenon

LEMMA PlainIsr ==
  ASSUME NEW f, Plain(f), f.todo # << >>, Op(f) = "exception_register"
  PROVE  Isr(f) \in Isrs
<1>1. "fault" \in Ops /\ "exception_register" \in Ops /\ 0 \in Int /\ << >> \in Seq(Cells)
  BY DEF Ops
<1>2. Starts(One("fault", << >>), "fault", << >>)
  BY <1>1, OneStarts
<1>3. f.todo # One("fault", << >>)
  BY <1>2, Elsewhere
<1>4. PICK h \in Isrs : f.todo = Then("exception_register", 0, h, << >>)
  BY <1>3 DEF Plain, Isrs
<1>5. Head(f.todo).isr = h
  BY <1>1, <1>4, LastStarts
<1> QED
  BY <1>5 DEF Isr

LEMMA IenableKeeps ==
  ASSUME NEW f, NEW g, NEW below, TypeOK, f.todo # << >>,
         \/ Op(f) = "ienable" /\ ienable' = alt_irq_active
         \/ Op(f) = "ienable_masked" /\ ienable' = alt_irq_active \cap alt_priority_mask
         \/ Op(f) = "ienable_none" /\ ienable' = {},
         g.todo = Rest(f), g.saved = f.saved, g.irq = f.irq, g.mask = f.mask,
         UNCHANGED <<pie, alt_irq_active, alt_priority_mask, tabs>>
  PROVE  /\ InProgram(f) => InProgram(g)'
         /\ InHandler(f, below) => InHandler(g, below)'
<1>1. handler' = handler /\ context' = context
  BY DEF tabs
<1>2. ASSUME InProgram(f) PROVE InProgram(g)'
  <2>1. CASE alt_priority_mask = Irq /\ InCode(f, << >>, TRUE)
    <3>1. Op(f) = "ienable" /\ ienable' = alt_irq_active
      BY <2>1, CodeOp, NoCode
    <3>2. InCode(g, << >>, TRUE)'
      BY <2>1, <3>1, IenableStep, NoCode
    <3> QED
      BY <2>1, <3>2 DEF InProgram
  <2>2. CASE Op(f) = "ienable_none" /\ Begins(f) /\ Rest(f) = One("open", << >>)
    <3>1. ienable' = {} /\ ~ pie' /\ alt_irq_active' = {} /\ g.saved = << >> /\ alt_priority_mask' = Irq
      BY <2>2 DEF Begins
    <3>2. Paired(None)'
      BY <1>1, <2>2 DEF Begins, Paired
    <3> QED
      BY <2>2, <3>1, <3>2 DEF InProgram
  <2> QED
    BY <1>2, <2>1, <2>2, ProgramOps
<1>3. ASSUME InHandler(f, below) PROVE InHandler(g, below)'
  <2>1. CASE Op(f) = "ienable"
    <3>1. f.irq \in Irq /\ alt_priority_mask = Irq /\ below = Irq /\ InCode(f, On("ack", f.irq), FALSE)
      BY <1>3, <2>1, HandlerSection
    <3>2. InCode(g, On("ack", f.irq), FALSE)'
      BY <2>1, <3>1, IenableStep, NoCode, AckTyped
    <3> QED
      BY <3>1, <3>2 DEF InHandler
  <2>2. CASE Op(f) # "ienable"
    <3>1. \/ /\ f.irq \in Irq /\ Narrowed(f, below) /\ ~ pie
             /\ Rest(f) = One("open", Then("ack", f.irq, NULL, Leave))
          \/ f.irq \in Irq /\ Tabs /\ f.saved = << >> /\ ~ pie /\ alt_priority_mask = below /\ Rest(f) = << >>
      BY <1>3, <2>2, HandlerMasks
    <3>2. Tabs /\ ienable' = alt_irq_active \cap alt_priority_mask
      BY <2>2, <3>1, HandlerMasks, <1>3 DEF Narrowed
    <3>3. Tabs' /\ Regs'
      BY <1>1, <3>2 DEF Tabs, Paired, Given, Regs
    <3> QED
      BY <3>1, <3>3 DEF InHandler, InNest, Narrowed
  <2> QED
    BY <2>1, <2>2
<1> QED
  BY <1>2, <1>3

LEMMA NarrowKeeps ==
  ASSUME NEW f, NEW g, NEW below, TypeOK, f.todo # << >>, Op(f) = "narrow",
         g.todo = Rest(f), g.saved = f.saved, g.irq = f.irq, g.mask = alt_priority_mask,
         alt_priority_mask' = 0 .. Id(f) - 1,
         UNCHANGED <<pie, ienable, alt_irq_active, tabs>>
  PROVE  ~ InProgram(f) /\ (InHandler(f, below) => InHandler(g, below)')
<1>1. Tabs' <=> Tabs
  BY DEF tabs, Tabs, Paired, Given, None
<1>2. ~ InProgram(f)
  BY ProgramOps, CodeOp, NoCode
<1>3. ASSUME InHandler(f, below) PROVE InHandler(g, below)'
  <2>1. /\ f.irq \in Irq /\ Id(f) = f.irq /\ Quiet(f) /\ alt_priority_mask = below
        /\ Rest(f) = One("ienable_masked", One("open", Then("ack", f.irq, NULL, Leave)))
    BY <1>3, HandlerNarrows
  <2> QED
    BY <1>1, <2>1 DEF InHandler, InNest, Quiet
<1> QED
  BY <1>2, <1>3

LEMMA WidenKeeps ==
  ASSUME NEW f, NEW g, NEW below, TypeOK, f.todo # << >>, Op(f) = "widen",
         g.todo = Rest(f), g.saved = f.saved, g.irq = f.irq, g.mask = f.mask,
         alt_priority_mask' = f.mask,
         UNCHANGED <<pie, ienable, alt_irq_active, tabs>>
  PROVE  ~ InProgram(f) /\ (InHandler(f, below) => InHandler(g, below)')
<1>1. Tabs' <=> Tabs
  BY DEF tabs, Tabs, Paired, Given, None
<1>2. ~ InProgram(f)
  BY ProgramOps, CodeOp, NoCode
<1>3. ASSUME InHandler(f, below) PROVE InHandler(g, below)'
  <2>1. f.irq \in Irq /\ Narrowed(f, below) /\ ~ pie /\ Rest(f) = One("ienable_masked", << >>)
    BY <1>3, HandlerWidens
  <2> QED
    BY <1>1, <2>1 DEF InHandler, InNest, Narrowed
<1> QED
  BY <1>2, <1>3

LEMMA AckKeeps ==
  ASSUME NEW f, NEW g, NEW below, TypeOK, f.todo # << >>, Op(f) = "ack",
         g.todo = Rest(f), g.saved = f.saved, g.irq = f.irq, g.mask = f.mask,
         UNCHANGED <<regs, tabs>>
  PROVE  ~ InProgram(f) /\ (InHandler(f, below) => InHandler(g, below)' /\ Id(f) \in Irq)
<1>1. UNCHANGED <<pie, alt_priority_mask>>
  BY DEF regs
<1>2. ~ InProgram(f)
  BY ProgramOps, CodeOp, NoCode
<1>3. ASSUME InHandler(f, below) PROVE InHandler(g, below)' /\ Id(f) \in Irq
  <2>1. /\ f.irq \in Irq /\ Id(f) = f.irq
        /\ \/ Quiet(f) /\ alt_priority_mask = below /\ Rest(f) = << >>
           \/ Narrowed(f, below) /\ pie /\ Regs /\ Rest(f) = Leave
    BY <1>3, HandlerAcks
  <2>2. (Tabs' <=> Tabs) /\ (Regs' <=> Regs)
    BY Same
  <2>3. CASE Quiet(f) /\ alt_priority_mask = below /\ Rest(f) = << >>
    BY <1>1, <2>1, <2>2, <2>3 DEF InHandler, Quiet
  <2>4. CASE Narrowed(f, below) /\ pie /\ Regs /\ Rest(f) = Leave
    BY <1>1, <2>1, <2>2, <2>4 DEF InHandler, InNest, Narrowed
  <2> QED
    BY <2>1, <2>3, <2>4
<1> QED
  BY <1>2, <1>3

LEMMA HandlerKeeps ==
  ASSUME NEW f, NEW g, NEW below, TypeOK, f.todo # << >>, Op(f) = "handler",
         handler' = [handler EXCEPT ![Id(f)] = Isr(f)],
         g.todo = Rest(f), g.saved = f.saved, g.irq = f.irq,
         UNCHANGED <<regs, context, exceptionHandler>>
  PROVE  /\ InProgram(f) => InProgram(g)' /\ handler' \in [Irq -> Handlers \cup {NULL}]
         /\ InHandler(f, below) =>
              /\ InHandler(g, below)' /\ handler' \in [Irq -> Handlers \cup {NULL}]
              /\ \A k \in Irq : handler[k] # NULL => handler'[k] # NULL
<1>1. UNCHANGED alt_priority_mask
  BY DEF regs
<1>2. ASSUME InProgram(f) PROVE InProgram(g)' /\ handler' \in [Irq -> Handlers \cup {NULL}]
  <2>1. alt_priority_mask = Irq /\ InCode(f, << >>, TRUE)
    BY <1>2, ProgramOps
  <2>2. InCode(g, << >>, TRUE)' /\ handler' \in [Irq -> Handlers \cup {NULL}]
    BY <2>1, HandlerStep, NoCode
  <2> QED
    BY <1>1, <2>1, <2>2 DEF InProgram
<1>3. ASSUME InHandler(f, below)
      PROVE  /\ InHandler(g, below)' /\ handler' \in [Irq -> Handlers \cup {NULL}]
             /\ \A k \in Irq : handler[k] # NULL => handler'[k] # NULL
  <2>1. f.irq \in Irq /\ alt_priority_mask = Irq /\ below = Irq /\ InCode(f, On("ack", f.irq), FALSE)
    BY <1>3, HandlerSection
  <2>2. /\ InCode(g, On("ack", f.irq), FALSE)' /\ handler' \in [Irq -> Handlers \cup {NULL}]
        /\ \A k \in Irq : handler[k] # NULL => handler'[k] # NULL
    BY <2>1, HandlerStep, NoCode, AckTyped
  <2> QED
    BY <1>1, <2>1, <2>2 DEF InHandler
<1> QED
  BY <1>2, <1>3

LEMMA ContextKeeps ==
  ASSUME NEW f, NEW g, NEW below, TypeOK, f.todo # << >>, Op(f) = "context",
         context' = [context EXCEPT ![Id(f)] = Isr(f)],
         g.todo = Rest(f), g.saved = f.saved, g.irq = f.irq,
         UNCHANGED <<regs, handler, exceptionHandler>>
  PROVE  /\ InProgram(f) => InProgram(g)' /\ context' \in [Irq -> Handlers \cup {NULL}]
         /\ InHandler(f, below) => InHandler(g, below)' /\ context' \in [Irq -> Handlers \cup {NULL}]
<1>1. UNCHANGED alt_priority_mask
  BY DEF regs
<1>2. ASSUME InProgram(f) PROVE InProgram(g)' /\ context' \in [Irq -> Handlers \cup {NULL}]
  <2>1. alt_priority_mask = Irq /\ InCode(f, << >>, TRUE)
    BY <1>2, ProgramOps
  <2>2. InCode(g, << >>, TRUE)' /\ context' \in [Irq -> Handlers \cup {NULL}]
    BY <2>1, ContextStep, NoCode
  <2> QED
    BY <1>1, <2>1, <2>2 DEF InProgram
<1>3. ASSUME InHandler(f, below) PROVE InHandler(g, below)' /\ context' \in [Irq -> Handlers \cup {NULL}]
  <2>1. f.irq \in Irq /\ alt_priority_mask = Irq /\ below = Irq /\ InCode(f, On("ack", f.irq), FALSE)
    BY <1>3, HandlerSection
  <2>2. InCode(g, On("ack", f.irq), FALSE)' /\ context' \in [Irq -> Handlers \cup {NULL}]
    BY <2>1, ContextStep, NoCode, AckTyped
  <2> QED
    BY <1>1, <2>1, <2>2 DEF InHandler
<1> QED
  BY <1>2, <1>3

LEMMA ExceptionKeeps ==
  ASSUME NEW f, NEW g, NEW below, TypeOK, f.todo # << >>, Op(f) = "exception_register",
         exceptionHandler' = Isr(f), g.todo = Rest(f), g.saved = f.saved,
         UNCHANGED <<regs, handler, context>>
  PROVE  ~ InHandler(f, below) /\ (InProgram(f) => InProgram(g)' /\ exceptionHandler' \in Isrs)
<1>1. ~ InHandler(f, below)
  <2>1. /\ Op(f) # "ack" /\ Op(f) # "narrow" /\ Op(f) # "ienable_masked" /\ Op(f) # "open"
        /\ Op(f) # "clear_pie" /\ Op(f) # "widen"
    OBVIOUS
  <2>2. ASSUME InHandler(f, below) PROVE f.irq \in Irq /\ InCode(f, On("ack", f.irq), FALSE)
    BY <2>1, <2>2, HandlerOps, Zenon
  <2>3. ASSUME f.irq \in Irq, InCode(f, On("ack", f.irq), FALSE) PROVE FALSE
    BY <2>3, CodeOp, AckTyped
  <2> QED
    BY <2>2, <2>3
<1>2. ASSUME InProgram(f) PROVE InProgram(g)' /\ exceptionHandler' \in Isrs
  <2>1. ~ InCode(f, << >>, TRUE)
    BY CodeOp, NoCode
  <2>2. alt_priority_mask = Irq /\ pie /\ Regs /\ Tabs /\ Plain(f) /\ Rest(f) = << >>
    BY <1>2, <2>1, ProgramOps
  <2>3. Isr(f) \in Isrs
    BY <2>2, PlainIsr
  <2>4. Regs' /\ Tabs' /\ pie' /\ alt_priority_mask' = Irq
    BY <2>2 DEF Regs, Tabs, Paired, Given, regs
  <2> QED
    BY <2>2, <2>3, <2>4 DEF InProgram, Plain
<1> QED
  BY <1>1, <1>2

-----------------------------------------------------------------------------
(* The stack, when the top frame goes on.                                  *)
Registers0 ==
  /\ pie \in BOOLEAN /\ hung \in BOOLEAN /\ negated \in BOOLEAN
  /\ ienable \subseteq Irq /\ alt_irq_active \subseteq Irq /\ alt_priority_mask \subseteq Irq
  /\ handler \in [Irq -> Handlers \cup {NULL}] /\ context \in [Irq -> Handlers \cup {NULL}]
  /\ exceptionHandler \in Handlers \cup {NULL}
  /\ lines \subseteq Irq

LEMMA TypeIs ==
  ASSUME stack \in Seq(Frames)
  PROVE  TypeOK <=> Registers0
<1>1. \A n \in DOMAIN stack : stack[n].at \in {"program", "entry", "handler", "isr"}
  <2>1. ASSUME NEW n \in DOMAIN stack PROVE stack[n] \in Frames
    BY ElementOfSeq, LenProperties
  <2> QED
    BY <2>1 DEF Frames
<1> QED
  BY <1>1 DEF TypeOK, Registers0

LEMMA TopIs ==
  ASSUME StackOK
  PROVE  /\ Len(stack) \in Nat \ {0} /\ top \in Frames /\ top = stack[Len(stack)]
         /\ Below \in Seq(Frames) /\ Len(Below) = Len(stack) - 1
         /\ \A m \in 1 .. Len(stack) - 1 : Below[m] = stack[m]
         /\ \A m \in 1 .. Len(stack) : stack[m] \in Frames
<1>1. stack \in Seq(Frames) /\ Len(stack) \in Nat \ {0}
  BY DEF StackOK
<1>2. \A m \in 1 .. Len(stack) : stack[m] \in Frames
  BY <1>1, ElementOfSeq
<1>3. /\ Below \in Seq(Frames) /\ Len(Below) = Len(stack) - 1
      /\ \A m \in 1 .. Len(stack) - 1 : Below[m] = stack[m]
  <2>1. PICK k : k = Len(stack) - 1
    OBVIOUS
  <2>2. k \in Nat /\ \A i \in 1 .. k : stack[i] \in Frames
    BY <1>1, <1>2, <2>1
  <2>3. /\ SubSeq(stack, 1, k) \in Seq(Frames)
        /\ Len(SubSeq(stack, 1, k)) = IF 1 <= k THEN k - 1 + 1 ELSE 0
        /\ \A i \in 1 .. k - 1 + 1 : SubSeq(stack, 1, k)[i] = stack[1 + i - 1]
    BY <2>2, SubSeqProperties
  <2>4. Below = SubSeq(stack, 1, k)
    BY <2>1 DEF Below
  <2>5. PICK b : b = Below
    OBVIOUS
  <2>6. /\ b \in Seq(Frames) /\ Len(b) = k
        /\ \A i \in 1 .. k : b[i] = stack[i]
    <3>1. k - 1 + 1 = k /\ \A i \in 1 .. k : 1 + i - 1 = i
      BY <2>2
    <3>2. /\ b \in Seq(Frames) /\ Len(b) = IF 1 <= k THEN k - 1 + 1 ELSE 0
          /\ \A i \in 1 .. k - 1 + 1 : b[i] = stack[1 + i - 1]
      BY <2>3, <2>4, <2>5, Zenon
    <3> QED
      BY <2>2, <3>1, <3>2
  <2> QED
    BY <2>1, <2>5, <2>6
<1> QED
  BY <1>1, <1>2, <1>3 DEF top

LEMMA GoIs ==
  ASSUME StackOK, NEW g \in Frames, stack' = Append(Below, g)
  PROVE  /\ stack' \in Seq(Frames) /\ Len(stack') = Len(stack) /\ top' = g /\ stack'[Len(stack)] = g
         /\ \A m \in 1 .. Len(stack) - 1 : stack'[m] = stack[m]
<1>1. /\ stack' \in Seq(Frames) /\ Len(stack') = Len(Below) + 1
      /\ \A m \in 1 .. Len(Below) : stack'[m] = Below[m]
      /\ stack'[Len(Below) + 1] = g
  BY TopIs, AppendProperties
<1>2. Len(Below) + 1 = Len(stack)
  BY TopIs
<1> QED
  BY <1>1, <1>2, TopIs DEF top

Kept == /\ \A k \in Irq : handler[k] # NULL => handler'[k] # NULL
        /\ exceptionHandler # NULL => exceptionHandler' # NULL

LEMMA MaskKeeps ==
  ASSUME NEW m \in Nat, m # 1 => stack'[m] = stack[m]
  PROVE  MaskOf(m)' = MaskOf(m)
  BY DEF MaskOf

LEMMA SuspendedKeeps ==
  ASSUME NEW m \in Nat \ {0}, Suspended(m), stack'[m] = stack[m],
         m > 1 => MaskOf(m - 1)' = MaskOf(m - 1), Kept
  PROVE  Suspended(m)'
<1>1. CASE m # 1
  BY <1>1 DEF Suspended
<1>2. CASE m = 1
  <2>1. PICK f : f = stack[m]
    OBVIOUS
  <2>2. CASE Plain(f)
    <3>1. Plain(f)'
      BY <2>2 DEF Plain, Kept
    <3> QED
      BY <1>2, <2>1, <3>1 DEF Suspended
  <2>3. CASE \E b : /\ IsBody(b, << >>)
                    /\ \/ f.todo = Section(b) /\ f.saved = << >>
                       \/ f.todo = One("clear_pie", b) /\ f.saved = <<TRUE>>
    <3>1. PICK b : /\ IsBody(b, << >>)
                   /\ \/ f.todo = Section(b) /\ f.saved = << >>
                      \/ f.todo = One("clear_pie", b) /\ f.saved = <<TRUE>>
      BY <2>3
    <3>2. IsBody(b, << >>)'
      BY <3>1 DEF IsBody, Kept
    <3> QED
      BY <1>2, <2>1, <3>1, <3>2 DEF Suspended
  <2> QED
    BY <1>2, <2>1, <2>2, <2>3 DEF Suspended
<1> QED
  BY <1>1, <1>2

LEMMA Going ==
  ASSUME IrqIndInv, NEW g \in Frames, stack' = Append(Below, g),
         g.at = top.at, g.irq = top.irq, g.estatus = top.estatus, top.at \in {"program", "isr"},
         Registers0', hung' => negated',
         Len(stack) > 1 => Kept,
         NEW below, below = MaskOf(Len(stack) - 1),
         IF Len(stack) = 1 THEN InProgram(g)' ELSE InHandler(g, below)'
  PROVE  IrqIndInv'
<1>1. StackOK
  BY DEF IrqIndInv
<1>2. PICK n : n = Len(stack)
  OBVIOUS
<1>3. /\ n \in Nat \ {0} /\ stack' \in Seq(Frames) /\ Len(stack') = n /\ top' = g /\ stack'[n] = g
      /\ \A m \in 1 .. n - 1 : stack'[m] = stack[m]
      /\ stack[n] = top
  BY <1>1, <1>2, GoIs, TopIs
<1>4. /\ stack[1].at = "program"
      /\ \A m \in 2 .. n : stack[m].at # "program" /\ stack[m].estatus
      /\ \A m \in 1 .. n - 1 : Suspended(m)
      /\ \A m, k \in 2 .. n : m < k /\ stack[k].at = "isr" => stack[k].irq < stack[m].irq
  BY <1>1, <1>2 DEF StackOK
<1>5. \A m \in 1 .. n : stack'[m].at = stack[m].at /\ stack'[m].irq = stack[m].irq /\ stack'[m].estatus = stack[m].estatus
  <2>1. ASSUME NEW m \in 1 .. n PROVE m = n \/ m \in 1 .. n - 1
    BY <1>3
  <2> QED
    BY <1>3, <2>1
<1>6. \A m \in 1 .. n : MaskOf(m)' = MaskOf(m)
  BY <1>5 DEF MaskOf
<1>7. \A m \in 1 .. n - 1 : Suspended(m)'
  <2>1. ASSUME NEW m \in 1 .. n - 1 PROVE Suspended(m)'
    <3>1. m \in Nat \ {0} /\ Suspended(m) /\ stack'[m] = stack[m] /\ Kept
      BY <1>2, <1>3, <1>4
    <3>2. m > 1 => m - 1 \in 1 .. n
      BY <1>3
    <3>3. m > 1 => MaskOf(m - 1)' = MaskOf(m - 1)
      BY <1>6, <3>2
    <3> QED
      BY <3>1, <3>3, SuspendedKeeps
  <2> QED
    BY <2>1
<1>8. /\ stack'[1].at = "program"
      /\ \A m \in 2 .. n : stack'[m].at # "program" /\ stack'[m].estatus
  BY <1>3, <1>4, <1>5
<1>9. \A m, k \in 2 .. n : m < k /\ stack'[k].at = "isr" => stack'[k].irq < stack'[m].irq
  <2>1. ASSUME NEW m \in 2 .. n PROVE m \in 1 .. n
    OBVIOUS
  <2> QED
    BY <1>4, <1>5, <2>1
<1>10. StackOK'
  <2>1. stack' \in Seq(Frames) /\ Len(stack') >= 1 /\ stack'[1].at = "program"
    BY <1>3, <1>8
  <2>2. \A m \in 2 .. Len(stack') : stack'[m].at # "program" /\ stack'[m].estatus
    BY <1>3, <1>8
  <2>3. \A m \in 1 .. Len(stack') - 1 : Suspended(m)'
    BY <1>3, <1>7
  <2>4. \A m, k \in 2 .. Len(stack') : m < k /\ stack'[k].at = "isr" => stack'[k].irq < stack'[m].irq
    BY <1>3, <1>9
  <2> QED
    BY <2>1, <2>2, <2>3, <2>4, Zenon DEF StackOK
<1>11. TypeOK'
  <2>1. Registers0' /\ (stack \in Seq(Frames))'
    BY <1>3
  <2> QED
    BY <2>1, TypeIs, PTL
<1>12. \A f, b : f = top' /\ b = MaskOf(n - 1)' => AtTop(f, b)'
  <2>1. CASE n = 1
    BY <1>2, <1>3, <2>1 DEF AtTop
  <2>2. CASE n # 1
    <3>1. n - 1 \in 1 .. n /\ g.at = "isr"
      BY <1>3, <1>4, <2>2
    <3>2. MaskOf(n - 1)' = below
      BY <1>2, <1>6, <3>1
    <3>3. InHandler(g, below)'
      BY <1>2, <2>2
    <3> QED
      BY <1>3, <2>2, <3>1, <3>2, <3>3 DEF AtTop
  <2> QED
    BY <2>1, <2>2
<1> QED
  BY <1>3, <1>10, <1>11, <1>12 DEF IrqIndInv

LEMMA IndIs ==
  ASSUME IrqIndInv
  PROVE  /\ StackOK /\ TypeOK /\ Registers0 /\ (hung => negated)
         /\ Len(stack) \in Nat \ {0} /\ top \in Frames /\ top = stack[Len(stack)]
         /\ \A f, below : f = top /\ below = MaskOf(Len(stack) - 1) => AtTop(f, below)
         /\ Len(stack) # 1 => top.at # "program" /\ top.estatus
         /\ stack[1].at = "program"
<1>1. /\ StackOK /\ TypeOK /\ (hung => negated)
      /\ \A f, below : f = top /\ below = MaskOf(Len(stack) - 1) => AtTop(f, below)
  BY Zenon DEF IrqIndInv
<1>2. /\ stack \in Seq(Frames) /\ stack[1].at = "program"
      /\ \A m \in 2 .. Len(stack) : stack[m].at # "program" /\ stack[m].estatus
  BY <1>1 DEF StackOK
<1>3. Len(stack) \in Nat \ {0} /\ top \in Frames /\ top = stack[Len(stack)]
  BY <1>1, TopIs
<1>4. Len(stack) # 1 => Len(stack) \in 2 .. Len(stack)
  <2>1. \A n \in Nat \ {0} : n # 1 => n \in 2 .. n
    OBVIOUS
  <2> QED
    BY <1>3, <2>1, Zenon
<1>5. Registers0
  BY <1>1, <1>2, TypeIs
<1> QED
  BY <1>1, <1>2, <1>3, <1>4, <1>5

LEMMA Accessing ==
  ASSUME IrqIndInv, NEW op, Access(op)
  PROVE  \E f, below :
           /\ f = top /\ below = MaskOf(Len(stack) - 1)
           /\ f \in Frames /\ f.at \in {"program", "isr"} /\ f.todo # << >> /\ Op(f) = op
           /\ Rest(f) \in Seq(Cells) /\ TypeOK /\ Registers0 /\ ~ hung
           /\ IF Len(stack) = 1 THEN InProgram(f) ELSE InHandler(f, below)
<1>1. PICK f, below : f = top /\ below = MaskOf(Len(stack) - 1)
  OBVIOUS
<1>2. f \in Frames /\ TypeOK /\ Registers0 /\ AtTop(f, below) /\ Len(stack) \in Nat \ {0}
  BY <1>1, IndIs
<1>3. f.at \in {"program", "isr"} /\ f.todo # << >> /\ Op(f) = op /\ ~ hung
  BY <1>1 DEF Access, Op
<1>4. f.at = "isr" \/ Len(stack) = 1
  BY <1>1, <1>3, IndIs
<1>5. Rest(f) \in Seq(Cells)
  <2>1. f.todo \in Seq(Cells)
    BY <1>2 DEF Frames
  <2> QED
    BY <1>3, <2>1 DEF Rest
<1> QED
  BY <1>1, <1>2, <1>3, <1>4, <1>5 DEF AtTop

(* The frame that goes on, field by field.                                 *)
LEMMA DoneIs ==
  ASSUME NEW f \in Frames, f.todo # << >>, NEW d, d = [f EXCEPT !.todo = Tail(@)]
  PROVE  /\ d \in Frames /\ d.todo = Rest(f) /\ d.saved = f.saved /\ d.mask = f.mask
         /\ d.at = f.at /\ d.irq = f.irq /\ d.estatus = f.estatus
<1>1. Tail(f.todo) \in Seq(Cells)
  <2>1. f.todo \in Seq(Cells)
    BY DEF Frames
  <2> QED
    BY <2>1
<1>2. PICK rest : rest = Tail(f.todo)
  OBVIOUS
<1>3. d = [f EXCEPT !.todo = rest] /\ rest \in Seq(Cells) /\ Rest(f) = rest
  BY <1>1, <1>2 DEF Rest
<1>4. /\ d \in Frames /\ d.todo = rest /\ d.saved = f.saved /\ d.mask = f.mask
      /\ d.at = f.at /\ d.irq = f.irq /\ d.estatus = f.estatus
  BY <1>3 DEF Frames
<1> QED
  BY <1>3, <1>4

WithSaved(d, saved) == [d EXCEPT !.saved = saved]
WithMask(d, mask)   == [d EXCEPT !.mask = mask]

LEMMA SavedIs ==
  ASSUME NEW d \in Frames, NEW saved \in Seq(BOOLEAN), NEW g, g = WithSaved(d, saved)
  PROVE  /\ g \in Frames /\ g.todo = d.todo /\ g.saved = saved /\ g.mask = d.mask
         /\ g.at = d.at /\ g.irq = d.irq /\ g.estatus = d.estatus
  BY DEF Frames, WithSaved, WithMask

LEMMA MaskedIs ==
  ASSUME NEW d \in Frames, NEW mask \in SUBSET Irq, NEW g, g = WithMask(d, mask)
  PROVE  /\ g \in Frames /\ g.todo = d.todo /\ g.saved = d.saved /\ g.mask = mask
         /\ g.at = d.at /\ g.irq = d.irq /\ g.estatus = d.estatus
  BY DEF Frames, WithSaved, WithMask

LEMMA KeptSame ==
  ASSUME UNCHANGED tabs
  PROVE  Kept
  BY DEF tabs, Kept

(* The same access by the program or by a handler: what the frame becomes. *)
LEMMA DoneSafe ==
  ASSUME IrqIndInv, NEW f, f = top, f \in Frames, NEW g \in Frames,
         stack' = Append(Below, g), g.at = f.at, g.irq = f.irq, g.estatus = f.estatus,
         f.at \in {"program", "isr"}, Registers0', UNCHANGED fate,
         NEW below, below = MaskOf(Len(stack) - 1), Len(stack) > 1 => Kept,
         IF Len(stack) = 1 THEN InProgram(g)' ELSE InHandler(g, below)'
  PROVE  IrqIndInv'
<1>1. hung' => negated'
  BY IndIs DEF fate
<1> QED
  BY <1>1, Going

LEMMA ReadSafe ==
  ASSUME IrqIndInv, ReadStatus
  PROVE  IrqIndInv'
<1>1. PICK f, below :
        /\ f = top /\ below = MaskOf(Len(stack) - 1)
        /\ f \in Frames /\ f.at \in {"program", "isr"} /\ f.todo # << >> /\ Op(f) = "read_status"
        /\ Rest(f) \in Seq(Cells) /\ TypeOK /\ Registers0 /\ ~ hung
        /\ IF Len(stack) = 1 THEN InProgram(f) ELSE InHandler(f, below)
  BY Accessing DEF ReadStatus
<1>2. PICK saved : saved = Append(f.saved, pie)
  OBVIOUS
<1>3. saved \in Seq(BOOLEAN)
  <2>1. f.saved \in Seq(BOOLEAN) /\ pie \in BOOLEAN
    BY <1>1 DEF Frames, Registers0
  <2> QED
    BY <1>2, <2>1, AppendProperties
<1>4. PICK d : d = [f EXCEPT !.todo = Tail(@)]
  OBVIOUS
<1>5. /\ d \in Frames /\ d.todo = Rest(f) /\ d.irq = f.irq /\ d.saved = f.saved
      /\ d.at = f.at /\ d.estatus = f.estatus
  BY <1>1, <1>4, DoneIs
<1>6. PICK g : g = WithSaved(d, saved)
  OBVIOUS
<1>7. /\ g \in Frames /\ g.todo = Rest(f) /\ g.saved = saved /\ g.irq = f.irq
      /\ g.at = f.at /\ g.estatus = f.estatus
  BY <1>3, <1>5, <1>6, SavedIs
<1>8. stack' = Append(Below, g)
  <2>1. d = done
    BY <1>1, <1>4, Zenon DEF done
  <2>2. stack' = Append(Below, [d EXCEPT !.saved = Append(@, pie)])
    BY <2>1, Zenon DEF ReadStatus, Go
  <2>3. [d EXCEPT !.saved = Append(@, pie)] = WithSaved(d, saved)
    BY <1>2, <1>5 DEF WithSaved, Frames
  <2> QED
    BY <1>6, <2>2, <2>3, Zenon
<1>9. UNCHANGED <<regs, tabs, lines, fate>>
  BY DEF ReadStatus
<1>10. Registers0' /\ Kept
  BY <1>1, <1>9, KeptSame DEF Registers0, regs, tabs, fate
<1>11. IF Len(stack) = 1 THEN InProgram(g)' ELSE InHandler(g, below)'
  BY <1>1, <1>2, <1>7, <1>9, ReadKeeps
<1> QED
  BY <1>1, <1>7, <1>8, <1>9, <1>10, <1>11, DoneSafe

LEMMA SavedTyped ==
  ASSUME NEW s \in Seq(BOOLEAN), s # << >>
  PROVE  s[Len(s)] \in BOOLEAN /\ SubSeq(s, 1, Len(s) - 1) \in Seq(BOOLEAN)
<1>1. PICK n : n = Len(s)
  OBVIOUS
<1>2. n \in Nat \ {0} /\ \A i \in 1 .. n : s[i] \in BOOLEAN
  BY <1>1, EmptySeq, ElementOfSeq
<1>3. n - 1 \in Int /\ n \in 1 .. n /\ \A i \in 1 .. n - 1 : s[i] \in BOOLEAN
  BY <1>2
<1>4. SubSeq(s, 1, n - 1) \in Seq(BOOLEAN)
  BY <1>3, SubSeqProperties
<1> QED
  BY <1>1, <1>2, <1>3, <1>4

LEMMA RestoreSaved ==
  ASSUME NEW f, NEW below, f.todo # << >>, Op(f) = "restore", InProgram(f) \/ InHandler(f, below)
  PROVE  f.saved # << >>
<1>1. ASSUME NEW z \in Seq(Cells), NEW p, InCode(f, z, p)
      PROVE  f.saved # << >>
  <2>1. Closing(f.todo, f.saved, z, p)
    BY <1>1, CodeOp DEF Closes
  <2>2. <<p>> # << >> /\ <<p, FALSE>> # << >>
    OBVIOUS
  <2> QED
    BY <2>1, <2>2 DEF Closing
<1>2. CASE InProgram(f)
  BY <1>1, <1>2, ProgramOps, NoCode
<1>3. CASE InHandler(f, below)
  BY <1>1, <1>3, HandlerSection, AckTyped
<1> QED
  BY <1>2, <1>3

(* The frame at the top, and what it becomes when it has made its access.  *)
LEMMA Going2 ==
  ASSUME IrqIndInv, NEW op, Access(op)
  PROVE  \E f, below, d :
           /\ f = top /\ below = MaskOf(Len(stack) - 1) /\ d = done
           /\ f \in Frames /\ f.at \in {"program", "isr"} /\ f.todo # << >> /\ Op(f) = op
           /\ TypeOK /\ Registers0
           /\ IF Len(stack) = 1 THEN InProgram(f) ELSE InHandler(f, below)
           /\ d \in Frames /\ d.todo = Rest(f) /\ d.irq = f.irq /\ d.saved = f.saved
           /\ d.at = f.at /\ d.estatus = f.estatus /\ d.mask = f.mask
<1>1. PICK f, below :
        /\ f = top /\ below = MaskOf(Len(stack) - 1)
        /\ f \in Frames /\ f.at \in {"program", "isr"} /\ f.todo # << >> /\ Op(f) = op
        /\ Rest(f) \in Seq(Cells) /\ TypeOK /\ Registers0 /\ ~ hung
        /\ IF Len(stack) = 1 THEN InProgram(f) ELSE InHandler(f, below)
  BY Accessing
<1>2. PICK d : d = [f EXCEPT !.todo = Tail(@)]
  OBVIOUS
<1>3. /\ d \in Frames /\ d.todo = Rest(f) /\ d.irq = f.irq /\ d.saved = f.saved
      /\ d.at = f.at /\ d.estatus = f.estatus /\ d.mask = f.mask
  BY <1>1, <1>2, DoneIs
<1>4. d = done
  BY <1>1, <1>2, Zenon DEF done
<1> QED
  BY <1>1, <1>3, <1>4, Zenon

LEMMA ClearSafe ==
  ASSUME IrqIndInv, WritePie("clear_pie", FALSE)
  PROVE  IrqIndInv'
<1>1. PICK f, below, d :
        /\ f = top /\ below = MaskOf(Len(stack) - 1) /\ d = done
        /\ f \in Frames /\ f.at \in {"program", "isr"} /\ f.todo # << >> /\ Op(f) = "clear_pie"
        /\ TypeOK /\ Registers0
        /\ IF Len(stack) = 1 THEN InProgram(f) ELSE InHandler(f, below)
        /\ d \in Frames /\ d.todo = Rest(f) /\ d.irq = f.irq /\ d.saved = f.saved
        /\ d.at = f.at /\ d.estatus = f.estatus /\ d.mask = f.mask
  BY Going2 DEF WritePie
<1>2. stack' = Append(Below, d)
  BY <1>1, Zenon DEF WritePie, Go
<1>3. UNCHANGED <<tabs, fate>>
  BY DEF WritePie
<1>4. Registers0' /\ Kept
  BY <1>1, <1>3, KeptSame DEF WritePie, Registers0, tabs, fate
<1>5. IF Len(stack) = 1 THEN InProgram(d)' ELSE InHandler(d, below)'
  BY <1>1, <1>3, ClearKeeps DEF WritePie, id, Id
<1> QED
  BY <1>1, <1>2, <1>3, <1>4, <1>5, DoneSafe

LEMMA OpenSafe ==
  ASSUME IrqIndInv, WritePie("open", TRUE)
  PROVE  IrqIndInv'
<1>1. PICK f, below, d :
        /\ f = top /\ below = MaskOf(Len(stack) - 1) /\ d = done
        /\ f \in Frames /\ f.at \in {"program", "isr"} /\ f.todo # << >> /\ Op(f) = "open"
        /\ TypeOK /\ Registers0
        /\ IF Len(stack) = 1 THEN InProgram(f) ELSE InHandler(f, below)
        /\ d \in Frames /\ d.todo = Rest(f) /\ d.irq = f.irq /\ d.saved = f.saved
        /\ d.at = f.at /\ d.estatus = f.estatus /\ d.mask = f.mask
  BY Going2 DEF WritePie
<1>2. stack' = Append(Below, d)
  BY <1>1, Zenon DEF WritePie, Go
<1>3. UNCHANGED <<tabs, fate>>
  BY DEF WritePie
<1>4. Registers0' /\ Kept
  BY <1>1, <1>3, KeptSame DEF WritePie, Registers0, tabs, fate
<1>5. IF Len(stack) = 1 THEN InProgram(d)' ELSE InHandler(d, below)'
  BY <1>1, <1>3, OpenKeeps DEF WritePie, id, Id
<1> QED
  BY <1>1, <1>2, <1>3, <1>4, <1>5, DoneSafe

LEMMA RestoreSafe ==
  ASSUME IrqIndInv, Restore
  PROVE  IrqIndInv'
<1>1. PICK f, below, d :
        /\ f = top /\ below = MaskOf(Len(stack) - 1) /\ d = done
        /\ f \in Frames /\ f.at \in {"program", "isr"} /\ f.todo # << >> /\ Op(f) = "restore"
        /\ TypeOK /\ Registers0
        /\ IF Len(stack) = 1 THEN InProgram(f) ELSE InHandler(f, below)
        /\ d \in Frames /\ d.todo = Rest(f) /\ d.irq = f.irq /\ d.saved = f.saved
        /\ d.at = f.at /\ d.estatus = f.estatus /\ d.mask = f.mask
  BY Going2 DEF Restore
<1>2. PICK saved : saved = SubSeq(f.saved, 1, Len(f.saved) - 1)
  OBVIOUS
<1>3. f.saved \in Seq(BOOLEAN) /\ f.saved # << >>
  <2>1. f.saved # << >>
    BY <1>1, RestoreSaved
  <2> QED
    BY <1>1, <2>1 DEF Frames
<1>4. saved \in Seq(BOOLEAN) /\ f.saved[Len(f.saved)] \in BOOLEAN
  BY <1>2, <1>3, SavedTyped
<1>5. PICK g : g = WithSaved(d, saved)
  OBVIOUS
<1>6. /\ g \in Frames /\ g.todo = Rest(f) /\ g.saved = saved /\ g.irq = f.irq
      /\ g.at = f.at /\ g.estatus = f.estatus /\ g.mask = f.mask
  BY <1>1, <1>4, <1>5, SavedIs
<1>7. stack' = Append(Below, g)
  <2>1. stack' = Append(Below, [d EXCEPT !.saved = SubSeq(@, 1, Len(@) - 1)])
    BY <1>1, Zenon DEF Restore, Go
  <2>2. [d EXCEPT !.saved = SubSeq(@, 1, Len(@) - 1)] = WithSaved(d, saved)
    BY <1>1, <1>2 DEF WithSaved, Frames
  <2> QED
    BY <1>5, <2>1, <2>2, Zenon
<1>8. /\ UNCHANGED <<ienable, alt_irq_active, alt_priority_mask, tabs, lines, fate>>
      /\ pie' = f.saved[Len(f.saved)]
  BY <1>1 DEF Restore
<1>9. Registers0' /\ Kept
  BY <1>1, <1>4, <1>8, KeptSame DEF Registers0, tabs, fate
<1>10. IF Len(stack) = 1 THEN InProgram(g)' ELSE InHandler(g, below)'
  BY <1>1, <1>2, <1>6, <1>8, RestoreKeeps
<1> QED
  BY <1>1, <1>6, <1>7, <1>8, <1>9, <1>10, DoneSafe

LEMMA ActiveSafe ==
  ASSUME IrqIndInv, SetActive
  PROVE  IrqIndInv'
<1>1. PICK op : /\ Access(op)
                /\ \/ op = "activate" /\ alt_irq_active' = alt_irq_active \cup {id}
                   \/ op = "deactivate" /\ alt_irq_active' = alt_irq_active \ {id}
  BY Zenon DEF SetActive
<1>2. PICK f, below, d :
        /\ f = top /\ below = MaskOf(Len(stack) - 1) /\ d = done
        /\ f \in Frames /\ f.at \in {"program", "isr"} /\ f.todo # << >> /\ Op(f) = op
        /\ TypeOK /\ Registers0
        /\ IF Len(stack) = 1 THEN InProgram(f) ELSE InHandler(f, below)
        /\ d \in Frames /\ d.todo = Rest(f) /\ d.irq = f.irq /\ d.saved = f.saved
        /\ d.at = f.at /\ d.estatus = f.estatus /\ d.mask = f.mask
  BY <1>1, Going2, Zenon
<1>3. stack' = Append(Below, d) /\ UNCHANGED <<pie, ienable, alt_priority_mask, tabs, lines, fate>>
  BY <1>2, Zenon DEF SetActive, Go
<1>4. id = Id(f)
  BY <1>2 DEF id, Id
<1>5. \/ Op(f) = "activate" /\ alt_irq_active' = alt_irq_active \cup {Id(f)}
      \/ Op(f) = "deactivate" /\ alt_irq_active' = alt_irq_active \ {Id(f)}
  BY <1>1, <1>2, <1>4
<1>6. /\ IF Len(stack) = 1 THEN InProgram(d)' ELSE InHandler(d, below)'
      /\ alt_irq_active' \subseteq Irq
  BY <1>2, <1>3, <1>5, ActiveKeeps
<1>7. Registers0' /\ Kept
  BY <1>2, <1>3, <1>6, KeptSame DEF Registers0, tabs, fate
<1> QED
  BY <1>2, <1>3, <1>6, <1>7, DoneSafe

LEMMA IenableSafe ==
  ASSUME IrqIndInv, WriteIenable
  PROVE  IrqIndInv'
<1>1. PICK op : /\ Access(op)
                /\ \/ op = "ienable" /\ ienable' = alt_irq_active
                   \/ op = "ienable_masked" /\ ienable' = alt_irq_active \cap alt_priority_mask
                   \/ op = "ienable_none" /\ ienable' = {}
  BY Zenon DEF WriteIenable
<1>2. PICK f, below, d :
        /\ f = top /\ below = MaskOf(Len(stack) - 1) /\ d = done
        /\ f \in Frames /\ f.at \in {"program", "isr"} /\ f.todo # << >> /\ Op(f) = op
        /\ TypeOK /\ Registers0
        /\ IF Len(stack) = 1 THEN InProgram(f) ELSE InHandler(f, below)
        /\ d \in Frames /\ d.todo = Rest(f) /\ d.irq = f.irq /\ d.saved = f.saved
        /\ d.at = f.at /\ d.estatus = f.estatus /\ d.mask = f.mask
  BY <1>1, Going2, Zenon
<1>3. stack' = Append(Below, d) /\ UNCHANGED <<pie, alt_irq_active, alt_priority_mask, tabs, lines, fate>>
  BY <1>2, Zenon DEF WriteIenable, Go
<1>4. IF Len(stack) = 1 THEN InProgram(d)' ELSE InHandler(d, below)'
  BY <1>1, <1>2, <1>3, IenableKeeps
<1>5. Registers0' /\ Kept
  BY <1>1, <1>2, <1>3, KeptSame DEF Registers0, tabs, fate
<1> QED
  BY <1>2, <1>3, <1>4, <1>5, DoneSafe

LEMMA NarrowSafe ==
  ASSUME IrqIndInv, Narrow
  PROVE  IrqIndInv'
<1>1. PICK f, below, d :
        /\ f = top /\ below = MaskOf(Len(stack) - 1) /\ d = done
        /\ f \in Frames /\ f.at \in {"program", "isr"} /\ f.todo # << >> /\ Op(f) = "narrow"
        /\ TypeOK /\ Registers0
        /\ IF Len(stack) = 1 THEN InProgram(f) ELSE InHandler(f, below)
        /\ d \in Frames /\ d.todo = Rest(f) /\ d.irq = f.irq /\ d.saved = f.saved
        /\ d.at = f.at /\ d.estatus = f.estatus /\ d.mask = f.mask
  BY Going2 DEF Narrow
<1>2. PICK mask : mask = alt_priority_mask
  OBVIOUS
<1>3. PICK g : g = WithMask(d, mask)
  OBVIOUS
<1>4. mask \in SUBSET Irq
  BY <1>1, <1>2 DEF Registers0
<1>5. /\ g \in Frames /\ g.todo = Rest(f) /\ g.saved = f.saved /\ g.irq = f.irq
      /\ g.at = f.at /\ g.estatus = f.estatus /\ g.mask = mask
  BY <1>1, <1>3, <1>4, MaskedIs
<1>6. stack' = Append(Below, g)
  BY <1>1, <1>2, <1>3, Zenon DEF Narrow, Go, WithMask
<1>7. UNCHANGED <<pie, ienable, alt_irq_active, tabs, lines, fate>> /\ alt_priority_mask' = 0 .. Id(f) - 1
  BY <1>1 DEF Narrow, id, Id
<1>8. Len(stack) # 1 /\ InHandler(g, below)'
  BY <1>1, <1>2, <1>5, <1>7, NarrowKeeps
<1>9. alt_priority_mask' \subseteq Irq
  <2>1. f.irq \in Irq /\ Id(f) = f.irq
    BY <1>1, <1>8, HandlerNarrows
  <2> QED
    BY <1>7, <2>1, NirqAssumption DEF Irq
<1>10. Registers0' /\ Kept
  BY <1>1, <1>7, <1>9, KeptSame DEF Registers0, tabs, fate
<1> QED
  BY <1>1, <1>5, <1>6, <1>7, <1>8, <1>10, DoneSafe

LEMMA WidenSafe ==
  ASSUME IrqIndInv, Widen
  PROVE  IrqIndInv'
<1>1. PICK f, below, d :
        /\ f = top /\ below = MaskOf(Len(stack) - 1) /\ d = done
        /\ f \in Frames /\ f.at \in {"program", "isr"} /\ f.todo # << >> /\ Op(f) = "widen"
        /\ TypeOK /\ Registers0
        /\ IF Len(stack) = 1 THEN InProgram(f) ELSE InHandler(f, below)
        /\ d \in Frames /\ d.todo = Rest(f) /\ d.irq = f.irq /\ d.saved = f.saved
        /\ d.at = f.at /\ d.estatus = f.estatus /\ d.mask = f.mask
  BY Going2 DEF Widen
<1>2. stack' = Append(Below, d)
  BY <1>1, Zenon DEF Widen, Go
<1>3. UNCHANGED <<pie, ienable, alt_irq_active, tabs, lines, fate>> /\ alt_priority_mask' = f.mask
  BY <1>1 DEF Widen
<1>4. Len(stack) # 1 /\ InHandler(d, below)'
  BY <1>1, <1>3, WidenKeeps
<1>5. f.mask \subseteq Irq
  BY <1>1 DEF Frames
<1>6. Registers0' /\ Kept
  BY <1>1, <1>3, <1>5, KeptSame DEF Registers0, tabs, fate
<1> QED
  BY <1>1, <1>2, <1>3, <1>4, <1>6, DoneSafe

LEMMA AckSafe ==
  ASSUME IrqIndInv, Acknowledge
  PROVE  IrqIndInv'
<1>1. PICK f, below, d :
        /\ f = top /\ below = MaskOf(Len(stack) - 1) /\ d = done
        /\ f \in Frames /\ f.at \in {"program", "isr"} /\ f.todo # << >> /\ Op(f) = "ack"
        /\ TypeOK /\ Registers0
        /\ IF Len(stack) = 1 THEN InProgram(f) ELSE InHandler(f, below)
        /\ d \in Frames /\ d.todo = Rest(f) /\ d.irq = f.irq /\ d.saved = f.saved
        /\ d.at = f.at /\ d.estatus = f.estatus /\ d.mask = f.mask
  BY Going2 DEF Acknowledge
<1>2. stack' = Append(Below, d)
  BY <1>1, Zenon DEF Acknowledge, Go
<1>3. UNCHANGED <<regs, tabs, fate>> /\ lines' = lines \ {id}
  BY DEF Acknowledge
<1>4. Len(stack) # 1 /\ InHandler(d, below)'
  BY <1>1, <1>3, AckKeeps
<1>5. Registers0' /\ Kept
  BY <1>1, <1>3, KeptSame DEF Registers0, regs, tabs, fate
<1> QED
  BY <1>1, <1>2, <1>3, <1>4, <1>5, DoneSafe

LEMMA TableSafe ==
  ASSUME IrqIndInv, WriteTable
  PROVE  IrqIndInv'
<1>1. PICK op : /\ Access(op)
                /\ \/ op = "handler" /\ handler' = [handler EXCEPT ![id] = Head(top.todo).isr]
                      /\ UNCHANGED <<context, exceptionHandler>>
                   \/ op = "context" /\ context' = [context EXCEPT ![id] = Head(top.todo).isr]
                      /\ UNCHANGED <<handler, exceptionHandler>>
                   \/ op = "exception_register" /\ exceptionHandler' = Head(top.todo).isr
                      /\ UNCHANGED <<handler, context>>
  BY Zenon DEF WriteTable
<1>2. PICK f, below, d :
        /\ f = top /\ below = MaskOf(Len(stack) - 1) /\ d = done
        /\ f \in Frames /\ f.at \in {"program", "isr"} /\ f.todo # << >> /\ Op(f) = op
        /\ TypeOK /\ Registers0
        /\ IF Len(stack) = 1 THEN InProgram(f) ELSE InHandler(f, below)
        /\ d \in Frames /\ d.todo = Rest(f) /\ d.irq = f.irq /\ d.saved = f.saved
        /\ d.at = f.at /\ d.estatus = f.estatus /\ d.mask = f.mask
  BY <1>1, Going2, Zenon
<1>3. stack' = Append(Below, d) /\ UNCHANGED <<regs, lines, fate>>
  BY <1>2, Zenon DEF WriteTable, Go
<1>4. id = Id(f) /\ Head(top.todo).isr = Isr(f)
  BY <1>2 DEF id, Id, Isr
<1>5. Len(stack) \in Nat \ {0}
  BY IndIs
<1>6. CASE /\ Op(f) = "handler" /\ handler' = [handler EXCEPT ![Id(f)] = Isr(f)]
           /\ UNCHANGED <<context, exceptionHandler>>
  <2>1. /\ IF Len(stack) = 1 THEN InProgram(d)' ELSE InHandler(d, below)'
        /\ handler' \in [Irq -> Handlers \cup {NULL}]
        /\ Len(stack) # 1 => \A k \in Irq : handler[k] # NULL => handler'[k] # NULL
    BY <1>2, <1>3, <1>6, HandlerKeeps
  <2>2. Registers0' /\ (Len(stack) > 1 => Kept)
    <3>1. Registers0'
      BY <1>2, <1>3, <1>6, <2>1 DEF Registers0, regs, fate
    <3>2. Len(stack) > 1 => Len(stack) # 1
      BY <1>5
    <3>3. exceptionHandler' = exceptionHandler
      BY <1>6
    <3> QED
      BY <2>1, <3>1, <3>2, <3>3 DEF Kept
  <2> QED
    BY <1>2, <1>3, <2>1, <2>2, DoneSafe
<1>7. CASE /\ Op(f) = "context" /\ context' = [context EXCEPT ![Id(f)] = Isr(f)]
           /\ UNCHANGED <<handler, exceptionHandler>>
  <2>1. /\ IF Len(stack) = 1 THEN InProgram(d)' ELSE InHandler(d, below)'
        /\ context' \in [Irq -> Handlers \cup {NULL}]
    BY <1>2, <1>3, <1>7, ContextKeeps
  <2>2. Registers0' /\ Kept
    BY <1>2, <1>3, <1>7, <2>1 DEF Registers0, regs, fate, Kept
  <2> QED
    BY <1>2, <1>3, <2>1, <2>2, DoneSafe
<1>8. CASE /\ Op(f) = "exception_register" /\ exceptionHandler' = Isr(f)
           /\ UNCHANGED <<handler, context>>
  <2>1. Len(stack) = 1 /\ InProgram(d)' /\ exceptionHandler' \in Isrs
    BY <1>2, <1>3, <1>8, ExceptionKeeps
  <2>2. Registers0'
    BY <1>2, <1>3, <1>8, <2>1 DEF Registers0, regs, fate, Isrs
  <2> QED
    BY <1>2, <1>3, <1>5, <2>1, <2>2, DoneSafe
<1> QED
  BY <1>1, <1>2, <1>4, <1>6, <1>7, <1>8

-----------------------------------------------------------------------------
(* The steps that push, replace or pop a frame: the stack has k frames     *)
(* after them, and the ones below the top are as they were.                *)
LEMMA Rebuilt ==
  ASSUME IrqIndInv, NEW k \in Nat \ {0}, k <= Len(stack) + 1, NEW g \in Frames,
         stack' \in Seq(Frames), Len(stack') = k, stack'[k] = g,
         \A m \in 1 .. k - 1 : stack'[m] = stack[m],
         \A m \in 1 .. k - 1 : Suspended(m)',
         k = 1 => g.at = "program",
         k # 1 => g.at # "program" /\ g.estatus,
         g.at = "isr" => \A m \in 2 .. k - 1 : g.irq < stack[m].irq,
         Registers0', hung' => negated',
         NEW below, k # 1 => below = MaskOf(k - 1),
         \A b : (k # 1 => b = below) => AtTop(g, b)'
  PROVE  IrqIndInv'
<1>1. PICK n : n = Len(stack)
  OBVIOUS
<1>2. /\ n \in Nat \ {0} /\ stack[1].at = "program"
      /\ \A m \in 2 .. n : stack[m].at # "program" /\ stack[m].estatus
      /\ \A m, j \in 2 .. n : m < j /\ stack[j].at = "isr" => stack[j].irq < stack[m].irq
  BY <1>1, IndIs DEF StackOK
<1>3. \A m \in 1 .. k : m = k \/ (m \in 1 .. k - 1 /\ m \in 1 .. n /\ stack'[m] = stack[m])
  BY <1>1, <1>2
<1>4. 1 \in 1 .. k /\ stack'[1].at = "program"
  BY <1>2, <1>3
<1>5. \A m \in 2 .. k : stack'[m].at # "program" /\ stack'[m].estatus
  <2>1. ASSUME NEW m \in 2 .. k PROVE stack'[m].at # "program" /\ stack'[m].estatus
    <3>1. CASE m = k
      BY <3>1
    <3>2. CASE m # k
      <4>1. m \in 2 .. n /\ stack'[m] = stack[m]
        BY <1>3, <3>2
      <4> QED
        BY <1>2, <4>1
    <3> QED
      BY <3>1, <3>2
  <2> QED
    BY <2>1
<1>6. \A m, j \in 2 .. k : m < j /\ stack'[j].at = "isr" => stack'[j].irq < stack'[m].irq
  <2>1. ASSUME NEW m \in 2 .. k, NEW j \in 2 .. k, m < j, stack'[j].at = "isr"
        PROVE  stack'[j].irq < stack'[m].irq
    <3>1. m \in 2 .. k - 1 /\ m \in 2 .. n /\ stack'[m] = stack[m]
      BY <1>3, <2>1
    <3>2. CASE j = k
      BY <2>1, <3>1, <3>2
    <3>3. CASE j # k
      <4>1. j \in 2 .. n /\ stack'[j] = stack[j]
        BY <1>3, <3>3
      <4> QED
        BY <1>2, <2>1, <3>1, <4>1
    <3> QED
      BY <3>2, <3>3
  <2> QED
    BY <2>1
<1>7. StackOK'
  <2>1. Len(stack') >= 1 /\ stack'[1].at = "program"
    BY <1>4
  <2>2. \A m \in 2 .. Len(stack') : stack'[m].at # "program" /\ stack'[m].estatus
    BY <1>5
  <2>3. \A m \in 1 .. Len(stack') - 1 : Suspended(m)'
    OBVIOUS
  <2>4. \A m, j \in 2 .. Len(stack') : m < j /\ stack'[j].at = "isr" => stack'[j].irq < stack'[m].irq
    BY <1>6
  <2> QED
    BY <2>1, <2>2, <2>3, <2>4, Zenon DEF StackOK
<1>8. TypeOK'
  <2>1. Registers0' /\ (stack \in Seq(Frames))'
    OBVIOUS
  <2> QED
    BY <2>1, TypeIs, PTL
<1>9. \A f, b : f = top' /\ b = MaskOf(k - 1)' => AtTop(f, b)'
  <2>1. k # 1 => MaskOf(k - 1)' = MaskOf(k - 1)
    <3>1. k # 1 => k - 1 \in 1 .. k - 1
      OBVIOUS
    <3> QED
      BY <3>1 DEF MaskOf
  <2>2. top' = g
    BY DEF top
  <2> QED
    BY <2>1, <2>2
<1> QED
  BY <1>7, <1>8, <1>9, Zenon DEF IrqIndInv

(* What depends on the registers and the tables only.                      *)
LEMMA CodeSame ==
  ASSUME UNCHANGED <<regs, tabs>>
  PROVE  \A f, z, p : InCode(f, z, p) => InCode(f, z, p)'
<1>1. SUFFICES ASSUME NEW f, NEW z, NEW p, InCode(f, z, p) PROVE InCode(f, z, p)'
  OBVIOUS
<1>2. pie' = pie /\ alt_irq_active' = alt_irq_active /\ handler' = handler
  BY DEF regs, tabs
<1>3. CASE Opens(f, z, p)
  <2>1. Opens(f, z, p)'
    BY <1>2, <1>3, Same DEF Opens
  <2> QED
    BY <2>1 DEF InCode
<1>4. CASE Registers(f, z, p)
  <2>1. Registers(f, z, p)'
    BY <1>2, <1>4, Same DEF Registers
  <2> QED
    BY <2>1 DEF InCode
<1>5. CASE Halfway(f, z, p)
  <2>1. Halfway(f, z, p)'
    BY <1>2, <1>5, Same DEF Halfway
  <2> QED
    BY <2>1 DEF InCode
<1>6. CASE Nests(f, z, p)
  <2>1. Nests(f, z, p)'
    BY <1>2, <1>6, Same DEF Nests
  <2> QED
    BY <2>1 DEF InCode
<1>7. CASE Updates(f, z, p)
  <2>1. Updates(f, z, p)'
    BY <1>2, <1>7, Same DEF Updates, Closing
  <2> QED
    BY <2>1 DEF InCode
<1>8. CASE Writes(f, z, p)
  <2>1. Writes(f, z, p)'
    BY <1>2, <1>8, Same DEF Writes, Closing
  <2> QED
    BY <2>1 DEF InCode
<1>9. CASE Closes(f, z, p)
  <2>1. Closes(f, z, p)'
    BY <1>2, <1>9, Same DEF Closes, Closing
  <2> QED
    BY <2>1 DEF InCode
<1> QED
  BY <1>1, <1>3, <1>4, <1>5, <1>6, <1>7, <1>8, <1>9 DEF InCode

LEMMA FrameSame ==
  ASSUME UNCHANGED <<regs, tabs>>
  PROVE  \A f, below : /\ InProgram(f) => InProgram(f)'
                       /\ InHandler(f, below) => InHandler(f, below)'
<1>1. /\ pie' = pie /\ ienable' = ienable /\ alt_irq_active' = alt_irq_active
      /\ alt_priority_mask' = alt_priority_mask /\ exceptionHandler' = exceptionHandler
  BY DEF regs, tabs
<1>2. ASSUME NEW f, InProgram(f) PROVE InProgram(f)'
  <2>1. Plain(f) => Plain(f)'
    BY <1>1 DEF Plain
  <2> QED
    BY <1>1, <1>2, <2>1, Same, CodeSame DEF InProgram
<1>3. ASSUME NEW f, NEW below, InHandler(f, below) PROVE InHandler(f, below)'
  <2>1. InNest(f, below) => InNest(f, below)'
    BY <1>1, Same DEF InNest
  <2> QED
    BY <1>1, <1>3, <2>1, Same, CodeSame DEF InHandler
<1> QED
  BY <1>2, <1>3

LEMMA BelowKeeps ==
  ASSUME IrqIndInv, UNCHANGED tabs, NEW j \in Nat, \A m \in 1 .. j : Suspended(m) /\ stack'[m] = stack[m]
  PROVE  \A m \in 1 .. j : Suspended(m)'
<1>1. Kept
  BY KeptSame
<1>2. ASSUME NEW m \in 1 .. j PROVE Suspended(m)'
  <2>1. m \in Nat \ {0} /\ Suspended(m) /\ stack'[m] = stack[m]
    OBVIOUS
  <2>2. m > 1 => m - 1 \in Nat /\ stack'[m - 1] = stack[m - 1]
    OBVIOUS
  <2>3. m > 1 => MaskOf(m - 1)' = MaskOf(m - 1)
    BY <2>2, MaskKeeps
  <2> QED
    BY <1>1, <2>1, <2>3, SuspendedKeeps
<1> QED
  BY <1>2

(* With interrupts enabled, the top frame is where they may come.          *)
LEMMA Interruptible ==
  ASSUME IrqIndInv, pie, NEW n, n = Len(stack)
  PROVE  Suspended(n) /\ Regs /\ Tabs /\ alt_priority_mask = MaskOf(n)
<1>1. PICK f, below : f = top /\ below = MaskOf(n - 1)
  OBVIOUS
<1>2. AtTop(f, below) /\ f = stack[n] /\ n \in Nat \ {0}
  BY <1>1, IndIs
<1>3. ASSUME NEW z, NEW p, InCode(f, z, p) PROVE Opens(f, z, p)
  BY <1>3 DEF InCode, Registers, Halfway, Nests, Updates, Writes, Closes
<1>4. CASE n = 1
  <2>1. InProgram(f)
    BY <1>2, <1>4 DEF AtTop
  <2>2. alt_priority_mask = MaskOf(n)
    BY <1>4, <2>1 DEF InProgram, MaskOf
  <2>3. CASE pie /\ Regs /\ Tabs /\ Plain(f)
    BY <1>2, <1>4, <2>2, <2>3 DEF Suspended
  <2>4. CASE InCode(f, << >>, TRUE)
    <3>1. Opens(f, << >>, TRUE)
      BY <1>3, <2>4
    <3>2. Regs /\ Tabs
      BY <3>1 DEF Opens
    <3>3. Suspended(n)
      BY <1>2, <1>4, <3>1 DEF Suspended, Opens
    <3> QED
      BY <2>2, <3>2, <3>3
  <2> QED
    BY <2>1, <2>3, <2>4 DEF InProgram
<1>5. CASE n # 1
  <2>1. f.at = "isr" /\ InHandler(f, below)
    BY <1>2, <1>5 DEF AtTop, Entering
  <2>2. ~ InCode(f, On("ack", f.irq), FALSE)
    <3>1. ~ Opens(f, On("ack", f.irq), FALSE)
      BY DEF Opens
    <3> QED
      BY <1>3, <3>1
  <2>3. f.irq \in Irq /\ InNest(f, below)
    BY <2>1, <2>2 DEF InHandler
  <2>4. /\ Tabs /\ f.saved = << >> /\ f.mask = below
        /\ alt_priority_mask = 0 .. f.irq - 1 /\ Regs
        /\ f.todo \in {Then("ack", f.irq, NULL, Leave), Leave}
    BY <2>3 DEF InNest
  <2>5. alt_priority_mask = MaskOf(n)
    BY <1>2, <1>5, <2>4 DEF MaskOf
  <2>6. Suspended(n)
    BY <1>1, <1>2, <1>5, <2>1, <2>3, <2>4 DEF Suspended
  <2> QED
    BY <2>4, <2>5, <2>6
<1> QED
  BY <1>4, <1>5

LEMMA FrameTyped ==
  ASSUME NEW a \in {"program", "entry", "handler", "isr"}, NEW i \in Nat, NEW t \in Seq(Cells),
         NEW v \in Seq(BOOLEAN), NEW m \in SUBSET Irq, NEW e \in BOOLEAN
  PROVE  [at |-> a, irq |-> i, todo |-> t, saved |-> v, mask |-> m, estatus |-> e] \in Frames
  BY DEF Frames

LEMMA Entered ==
  ASSUME NEW g, g = [Frame("entry") EXCEPT !.estatus = pie], pie
  PROVE  /\ g \in Frames /\ g.at = "entry" /\ g.estatus /\ g.saved = << >>
<1>1. ALT_NIRQ \in Nat
  BY NirqAssumption
<1>2. << >> \in Seq(Cells) /\ << >> \in Seq(BOOLEAN)
  BY EmptySeq
<1>3. "entry" \in {"program", "entry", "handler", "isr"} /\ Irq \in SUBSET Irq /\ TRUE \in BOOLEAN
  OBVIOUS
<1>4. g = [at |-> "entry", irq |-> ALT_NIRQ, todo |-> << >>, saved |-> << >>, mask |-> Irq, estatus |-> TRUE]
  BY DEF Frame
<1> QED
  <2>1. g \in Frames
    <3>1. PICK t, v, a, m, e :
            t = << >> /\ v = << >> /\ a = "entry" /\ m = Irq /\ e = TRUE
      OBVIOUS
    <3>2. /\ t \in Seq(Cells) /\ v \in Seq(BOOLEAN) /\ a \in {"program", "entry", "handler", "isr"}
          /\ m \in SUBSET Irq /\ e \in BOOLEAN
      BY <1>2, <1>3, <3>1
    <3>3. [at |-> a, irq |-> ALT_NIRQ, todo |-> t, saved |-> v, mask |-> m, estatus |-> e] \in Frames
      BY <1>1, <3>2, FrameTyped
    <3> QED
      BY <1>4, <3>1, <3>3
  <2> QED
    BY <1>4, <2>1
LEMMA Pushing ==
  ASSUME IrqIndInv, pie, Exception,
         pending # {} \/ (Len(stack) = 1 /\ top.todo = One("fault", << >>))
  PROVE  IrqIndInv'
<1>1. PICK n, g : n = Len(stack) /\ g = [Frame("entry") EXCEPT !.estatus = pie]
  OBVIOUS
<1>2. n \in Nat \ {0} /\ Registers0 /\ (hung => negated) /\ StackOK /\ top = stack[n]
  BY <1>1, IndIs
<1>3. g \in Frames /\ g.at = "entry" /\ g.estatus /\ g.saved = << >>
  BY <1>1, Entered
<1>4. /\ stack' = Append(stack, g) /\ pie' = FALSE
      /\ UNCHANGED <<ienable, alt_irq_active, alt_priority_mask, tabs, lines, fate>>
  BY <1>1, Zenon DEF Exception
<1>5. Suspended(n) /\ Regs /\ Tabs /\ alt_priority_mask = MaskOf(n)
  BY <1>1, Interruptible
<1>6. /\ stack' \in Seq(Frames) /\ Len(stack') = n + 1 /\ stack'[n + 1] = g
      /\ \A m \in 1 .. n : stack'[m] = stack[m]
  <2>1. stack \in Seq(Frames)
    BY <1>2 DEF StackOK
  <2> QED
    BY <1>1, <1>3, <1>4, <2>1, AppendProperties
<1>7. \A m \in 1 .. n : Suspended(m)
  <2>1. \A m \in 1 .. n - 1 : Suspended(m)
    BY <1>1, <1>2 DEF StackOK
  <2>2. \A m \in 1 .. n : m \in 1 .. n - 1 \/ m = n
    BY <1>2
  <2> QED
    BY <1>5, <2>1, <2>2
<1>8. \A m \in 1 .. n : Suspended(m)'
  BY <1>2, <1>4, <1>6, <1>7, BelowKeeps
<1>9. Registers0' /\ (hung' => negated')
  BY <1>2, <1>4 DEF Registers0, tabs, fate
<1>10. PICK below : below = MaskOf(n)
  OBVIOUS
<1>11. Entering(g, below)'
  <2>1. Regs' /\ Tabs'
    BY <1>4, <1>5 DEF Regs, Tabs, Paired, Given, tabs
  <2>2. pending' = pending
    BY <1>4 DEF pending
  <2>3. n = 1 /\ top.todo = One("fault", << >>) => Len(stack') = 2 /\ stack'[1].todo = One("fault", << >>)
    BY <1>2, <1>6
  <2> QED
    BY <1>1, <1>3, <1>4, <1>5, <1>10, <2>1, <2>2, <2>3 DEF Entering
<1>12. \A b : b = below => AtTop(g, b)'
  BY <1>2, <1>3, <1>6, <1>11 DEF AtTop
<1>13. PICK k : k = n + 1
  OBVIOUS
<1>14. /\ k \in Nat \ {0} /\ k # 1 /\ k <= Len(stack) + 1 /\ k - 1 = n
       /\ \A m \in 1 .. k - 1 : stack'[m] = stack[m] /\ Suspended(m)'
  BY <1>1, <1>2, <1>6, <1>8, <1>13
<1> QED
  BY <1>3, <1>6, <1>9, <1>10, <1>12, <1>13, <1>14, Rebuilt

LEMMA TakeSafe ==
  ASSUME IrqIndInv, Take
  PROVE  IrqIndInv'
<1>1. pie /\ pending # {} /\ Exception
  BY DEF Take, Interrupting
<1> QED
  BY <1>1, Pushing

LEMMA FaultSafe ==
  ASSUME IrqIndInv, Fault
  PROVE  IrqIndInv'
<1>1. Access("fault") /\ Exception
  BY DEF Fault
<1>2. PICK f, below :
        /\ f = top /\ below = MaskOf(Len(stack) - 1)
        /\ f \in Frames /\ f.at \in {"program", "isr"} /\ f.todo # << >> /\ Op(f) = "fault"
        /\ Rest(f) \in Seq(Cells) /\ TypeOK /\ Registers0 /\ ~ hung
        /\ IF Len(stack) = 1 THEN InProgram(f) ELSE InHandler(f, below)
  BY <1>1, Accessing
<1>3. ~ InHandler(f, below)
  <2>1. f.irq \in Irq => ~ InCode(f, On("ack", f.irq), FALSE)
    BY <1>2, CodeOp, AckTyped
  <2> QED
    BY <1>2, <2>1, HandlerOps
<1>4. Len(stack) = 1 /\ InProgram(f)
  BY <1>2, <1>3
<1>5. ~ InCode(f, << >>, TRUE)
  BY <1>2, CodeOp, NoCode
<1>6. pie /\ Plain(f)
  BY <1>2, <1>4, <1>5, ProgramOps
<1>7. f.todo = One("fault", << >>)
  <2>1. \A h \in Isrs : f.todo # Then("exception_register", 0, h, << >>)
    <3>1. "exception_register" \in Ops /\ 0 \in Int
      BY DEF Ops
    <3> QED
      BY <1>2, <3>1, LastStarts, Elsewhere
  <2> QED
    BY <1>2, <1>6, <2>1 DEF Plain, Isrs
<1> QED
  BY <1>1, <1>2, <1>4, <1>6, <1>7, Pushing
With(s, n, g) == [s EXCEPT ![n] = g]

LEMMA Replaced ==
  ASSUME StackOK, NEW n, n = Len(stack), NEW g \in Frames
  PROVE  /\ With(stack, n, g) \in Seq(Frames) /\ Len(With(stack, n, g)) = n /\ With(stack, n, g)[n] = g
         /\ \A m \in 1 .. n - 1 : With(stack, n, g)[m] = stack[m]
<1>1. stack \in Seq(Frames) /\ n \in Nat \ {0} /\ n \in 1 .. Len(stack)
  BY DEF StackOK
<1>2. PICK s : s = With(stack, n, g)
  OBVIOUS
<1>3. /\ s \in Seq(Frames) /\ Len(s) = Len(stack)
      /\ \A j \in 1 .. Len(stack) : s[j] = IF j = n THEN g ELSE stack[j]
  BY <1>1, <1>2, ExceptSeq DEF With
<1>4. \A m \in 1 .. n - 1 : m \in 1 .. Len(stack) /\ m # n
  BY <1>1
<1> QED
  BY <1>1, <1>2, <1>3, <1>4

(* Nothing changes for the processor; a line may have.                     *)
LEMMA Steady ==
  ASSUME IrqIndInv, UNCHANGED <<regs, tabs, stack>>, hung' \in BOOLEAN, negated' \in BOOLEAN, lines' \subseteq Irq,
         hung' => negated',
         negated \/ pending # {} => negated' \/ pending' # {}
  PROVE  IrqIndInv'
<1>1. PICK n, g, below : n = Len(stack) /\ g = top /\ below = MaskOf(n - 1)
  OBVIOUS
<1>2. n \in Nat \ {0} /\ Registers0 /\ StackOK /\ g = stack[n] /\ g \in Frames /\ AtTop(g, below)
  BY <1>1, IndIs
<1>3. Registers0'
  BY <1>2 DEF Registers0, regs, tabs
<1>4. stack' \in Seq(Frames) /\ Len(stack') = n /\ stack'[n] = g /\ \A m \in 1 .. n : stack'[m] = stack[m]
  BY <1>1, <1>2 DEF StackOK
<1>5. \A m \in 1 .. n - 1 : Suspended(m)'
  <2>1. \A m \in 1 .. n - 1 : Suspended(m) /\ stack'[m] = stack[m]
    BY <1>1, <1>2 DEF StackOK
  <2> QED
    BY <1>2, <2>1, BelowKeeps
<1>6. /\ n = 1 => g.at = "program"
      /\ n # 1 => g.at # "program" /\ g.estatus
  BY <1>1, <1>2, IndIs
<1>7. g.at = "isr" => \A m \in 2 .. n - 1 : g.irq < stack[m].irq
  <2>1. \A m \in 2 .. n - 1 : m \in 2 .. n /\ n \in 2 .. n /\ m < n
    BY <1>2
  <2> QED
    BY <1>1, <1>2, <2>1 DEF StackOK
<1>8. \A b : (n # 1 => b = below) => AtTop(g, b)'
  <2>1. CASE n = 1
    <3>1. InProgram(g)'
      BY <1>1, <1>2, <2>1, FrameSame DEF AtTop
    <3> QED
      BY <1>4, <2>1, <3>1 DEF AtTop
  <2>2. CASE n # 1 /\ g.at = "isr"
    <3>1. InHandler(g, below)'
      BY <1>1, <1>2, <2>2, FrameSame DEF AtTop
    <3> QED
      BY <1>4, <2>2, <3>1 DEF AtTop
  <2>3. CASE n # 1 /\ g.at # "isr"
    <3>1. Entering(g, below)
      BY <1>1, <1>2, <2>3 DEF AtTop
    <3>2. pie' = pie /\ alt_priority_mask' = alt_priority_mask /\ (Regs' <=> Regs) /\ (Tabs' <=> Tabs)
      BY Same DEF regs
    <3>3. Entering(g, below)'
      BY <1>1, <1>4, <3>1, <3>2 DEF Entering
    <3> QED
      BY <1>4, <2>3, <3>3 DEF AtTop
  <2> QED
    BY <2>1, <2>2, <2>3
<1>9. n <= Len(stack) + 1 /\ \A m \in 1 .. n - 1 : stack'[m] = stack[m]
  BY <1>1, <1>2, <1>4
<1> QED
  BY <1>1, <1>2, <1>3, <1>4, <1>5, <1>6, <1>7, <1>8, <1>9, Rebuilt

LEMMA LineSafe ==
  ASSUME IrqIndInv, NEW i \in Irq, Raise(i) \/ Negate(i)
  PROVE  IrqIndInv'
<1>1. Registers0 /\ (hung => negated)
  BY IndIs
<1>2. CASE Raise(i)
  <2>1. lines' = lines \cup {i} /\ UNCHANGED <<regs, tabs, stack, hung, negated>>
    BY <1>2 DEF Raise, fate
  <2>2. pending # {} => pending' # {}
    BY <2>1 DEF pending, regs
  <2>3. lines' \subseteq Irq
    BY <1>1, <2>1 DEF Registers0
  <2> QED
    BY <1>1, <2>1, <2>2, <2>3, Steady DEF Registers0
<1>3. CASE Negate(i)
  <2>1. lines' = lines \ {i} /\ negated' = TRUE /\ UNCHANGED <<regs, tabs, stack, hung>>
    BY <1>3 DEF Negate
  <2>2. lines' \subseteq Irq
    BY <1>1, <2>1 DEF Registers0
  <2> QED
    BY <1>1, <2>1, <2>2, Steady DEF Registers0
<1> QED
  BY <1>2, <1>3

LEMMA NestStarts ==
  ASSUME NEW i \in Irq, NEW acked, acked = Then("ack", i, NULL, Leave)
  PROVE  /\ Starts(One("ienable_masked", One("open", acked)), "ienable_masked", One("open", acked))
         /\ Starts(One("open", acked), "open", acked)
         /\ Starts(acked, "ack", Leave)
         /\ Starts(Leave, "clear_pie", One("widen", One("ienable_masked", << >>)))
         /\ Starts(One("widen", One("ienable_masked", << >>)), "widen", One("ienable_masked", << >>))
         /\ Starts(One("ienable_masked", << >>), "ienable_masked", << >>)
<1>1. /\ {"ienable_masked", "open", "ack", "clear_pie", "widen"} \subseteq Ops
      /\ i \in Int /\ NULL \in Isrs /\ << >> \in Seq(Cells)
  BY NirqAssumption DEF Ops, Irq, Isrs
<1>2. /\ One("open", acked) \in Seq(Cells) /\ acked \in Seq(Cells) /\ Leave \in Seq(Cells)
      /\ One("widen", One("ienable_masked", << >>)) \in Seq(Cells) /\ One("ienable_masked", << >>) \in Seq(Cells)
  BY NestIs
<1> QED
  BY <1>1, <1>2, OneStarts, ThenStarts DEF Leave

(* Every non-empty set of naturals has a least element.                    *)
LEMMA LeastNatural ==
  ASSUME NEW S \in SUBSET Nat, S # {}
  PROVE  \E n \in S : \A m \in S : n <= m
<1> DEFINE R == OpToRel(<, Nat)
<1>1. \A a, b \in Nat : a < b => <<a, b>> \in R
  BY DEF OpToRel
<1>2. IsWellFoundedOn(R, Nat)
  BY NatLessThanWellFounded
<1> HIDE DEF R
<1>3. PICK n \in S : \A m \in S : ~ (<<m, n>> \in R)
  BY <1>2, WFMin
<1>4. \A m \in S : ~ (m < n)
  BY <1>1, <1>3, Zenon
<1> QED
  BY <1>4

(* Before the first handler, and between one handler and the next.         *)
LEMMA Idle ==
  ASSUME IrqIndInv, NEW n, n = Len(stack), n # 1, top.at # "isr" \/ top.todo = << >>
  PROVE  ~ pie /\ Regs /\ Tabs /\ alt_priority_mask = MaskOf(n - 1) /\ top.saved = << >>
<1>1. PICK f, below : f = top /\ below = MaskOf(n - 1)
  OBVIOUS
<1>2. AtTop(f, below)
  BY <1>1, IndIs
<1>3. CASE f.at # "isr"
  BY <1>1, <1>2, <1>3 DEF AtTop, Entering
<1>4. CASE f.at = "isr" /\ f.todo = << >>
  <2>1. InHandler(f, below)
    BY <1>2, <1>4 DEF AtTop
  <2>2. f.irq \in Irq => ~ InCode(f, On("ack", f.irq), FALSE)
    BY <1>4, CodeOp, AckTyped
  <2>3. f.irq \in Irq => ~ InNest(f, below)
    <3>1. ASSUME NEW i \in Irq
          PROVE  /\ One("ienable_masked", One("open", Then("ack", i, NULL, Leave))) # << >>
                 /\ One("open", Then("ack", i, NULL, Leave)) # << >>
                 /\ Then("ack", i, NULL, Leave) # << >> /\ Leave # << >>
                 /\ One("widen", One("ienable_masked", << >>)) # << >> /\ One("ienable_masked", << >>) # << >>
      BY NestStarts, StartsIs, <3>1
    <3> QED
      BY <1>4, <3>1 DEF InNest
  <2> QED
    BY <1>1, <1>4, <2>1, <2>2, <2>3 DEF InHandler
<1> QED
  BY <1>1, <1>3, <1>4
LEMMA EntrySafe ==
  ASSUME IrqIndInv, EntryIrq
  PROVE  IrqIndInv'
<1>1. PICK n, f, g, below : n = Len(stack) /\ f = top /\ g = [f EXCEPT !.at = "handler"] /\ below = MaskOf(n - 1)
  OBVIOUS
<1>2. /\ n \in Nat \ {0} /\ Registers0 /\ StackOK /\ f = stack[n] /\ f \in Frames /\ AtTop(f, below)
      /\ (hung => negated)
  BY <1>1, IndIs
<1>3. f.at = "entry" /\ pending # {} /\ UNCHANGED <<regs, tabs, lines, fate>>
  BY <1>1 DEF EntryIrq
<1>4. n # 1 /\ f.estatus
  <2>1. n # 1
    BY <1>1, <1>2, <1>3, IndIs
  <2> QED
    BY <1>1, <2>1, IndIs
<1>5. /\ g \in Frames /\ g.at = "handler" /\ g.estatus /\ g.saved = f.saved
  <2>1. g.at = "handler" /\ g.estatus = f.estatus /\ g.saved = f.saved
    BY <1>1, <1>2 DEF Frames
  <2>2. g \in Frames
    BY <1>1, <1>2 DEF Frames
  <2> QED
    BY <1>4, <2>1, <2>2
<1>6. stack' = [stack EXCEPT ![n] = g]
  <2>1. stack' = [stack EXCEPT ![Len(stack)].at = "handler"]
    BY DEF EntryIrq
  <2> QED
    BY <1>1, <1>2, <2>1
<1>7. stack' \in Seq(Frames) /\ Len(stack') = n /\ stack'[n] = g /\ \A m \in 1 .. n - 1 : stack'[m] = stack[m]
  <2>1. stack' = With(stack, n, g)
    BY <1>6, Zenon DEF With
  <2>2. n = Len(stack)
    BY <1>1
  <2>3. StackOK /\ g \in Frames
    BY <1>2, <1>5
  <2>4. /\ With(stack, n, g) \in Seq(Frames) /\ Len(With(stack, n, g)) = n /\ With(stack, n, g)[n] = g
        /\ \A m \in 1 .. n - 1 : With(stack, n, g)[m] = stack[m]
    BY <2>2, <2>3, Replaced
  <2> QED
    BY <2>1, <2>4, Zenon
<1>8. \A m \in 1 .. n - 1 : Suspended(m)'
  <2>1. \A m \in 1 .. n - 1 : Suspended(m) /\ stack'[m] = stack[m]
    BY <1>1, <1>2, <1>7 DEF StackOK
  <2> QED
    BY <1>2, <1>3, <2>1, BelowKeeps
<1>9. Registers0' /\ (hung' => negated')
  BY <1>2, <1>3 DEF Registers0, regs, tabs, fate
<1>10. Entering(g, below)'
  <2>1. ~ pie /\ Regs /\ Tabs /\ alt_priority_mask = below /\ f.saved = << >>
    BY <1>1, <1>3, <1>4, Idle
  <2>2. pie' = pie /\ alt_priority_mask' = alt_priority_mask /\ (Regs' <=> Regs) /\ (Tabs' <=> Tabs)
    BY <1>3, Same DEF regs
  <2>3. pending' = pending
    BY <1>3 DEF pending, regs
  <2> QED
    BY <1>3, <1>5, <2>1, <2>2, <2>3 DEF Entering
<1>11. \A b : b = below => AtTop(g, b)'
  BY <1>4, <1>5, <1>7, <1>10 DEF AtTop
<1>12. n <= Len(stack) + 1
  BY <1>1, <1>2
<1> QED
  BY <1>1, <1>2, <1>4, <1>5, <1>7, <1>8, <1>9, <1>11, <1>12, Rebuilt

LEMMA NothingSafe ==
  ASSUME IrqIndInv, DispatchNothing
  PROVE  IrqIndInv'
<1>1. PICK n, f, below : n = Len(stack) /\ f = top /\ below = MaskOf(n - 1)
  OBVIOUS
<1>2. n \in Nat \ {0} /\ Registers0 /\ AtTop(f, below)
  BY <1>1, IndIs
<1>3. f.at = "handler" /\ pending = {} /\ hung' = TRUE /\ UNCHANGED <<regs, tabs, lines, stack, negated>>
  BY <1>1 DEF DispatchNothing
<1>4. n # 1
  BY <1>1, <1>3, IndIs
<1>5. negated
  BY <1>1, <1>2, <1>3, <1>4 DEF AtTop, Entering
<1>6. lines' \subseteq Irq
  BY <1>2, <1>3 DEF Registers0
<1> QED
  BY <1>3, <1>5, <1>6, Steady

(* The interrupt that is served is above everything below it.              *)
LEMMA Highest ==
  ASSUME IrqIndInv, pending # {}, NEW n, n = Len(stack), n # 1, Regs, alt_priority_mask = MaskOf(n - 1),
         NEW i, i = CHOOSE k \in pending : \A j \in pending : k <= j
  PROVE  i \in Irq /\ i \in pending /\ \A m \in 2 .. n - 1 : i < stack[m].irq
<1>1. n \in Nat \ {0} /\ StackOK /\ Registers0
  BY IndIs
<1>2. pending \subseteq Irq /\ pending \subseteq MaskOf(n - 1)
  BY <1>1 DEF pending, Regs, Registers0
<1>3. pending \in SUBSET Nat
  BY <1>2, NirqAssumption DEF Irq
<1>4. i \in pending
  <2>1. \E k \in pending : \A j \in pending : k <= j
    BY <1>3, LeastNatural
  <2> QED
    BY <2>1
<1>5. ASSUME NEW m \in 2 .. n - 1 PROVE i < stack[m].irq
  <2>1. n - 1 \in 1 .. n - 1 /\ n - 1 # 1 /\ n - 1 \in 2 .. n /\ m \in 2 .. n /\ m \in 1 .. n - 1
    BY <1>1
  <2>2. Suspended(n - 1) /\ Suspended(m)
    BY <1>1, <2>1 DEF StackOK
  <2>3. stack[n - 1].at = "isr" /\ stack[n - 1].irq \in Irq /\ stack[m].irq \in Irq
    <3>1. m # 1
      OBVIOUS
    <3> QED
      BY <2>1, <2>2, <3>1 DEF Suspended
  <2>4. i \in 0 .. stack[n - 1].irq - 1
    <3>1. MaskOf(n - 1) = 0 .. stack[n - 1].irq - 1
      BY <2>1 DEF MaskOf
    <3> QED
      BY <1>2, <1>4, <3>1
  <2>5. m = n - 1 \/ stack[n - 1].irq < stack[m].irq
    <3>1. m = n - 1 \/ m < n - 1
      BY <1>1
    <3> QED
      BY <1>1, <2>1, <2>3, <3>1 DEF StackOK
  <2>6. stack[n - 1].irq \in Int /\ stack[m].irq \in Int /\ i \in Int
    BY <2>3, <2>4, NirqAssumption DEF Irq
  <2> QED
    BY <2>4, <2>5, <2>6
<1> QED
  BY <1>2, <1>4, <1>5

(* What a handler starts with.                                             *)
LEMMA BodyIs ==
  ASSUME NEW i \in Irq, NEW body \in IsrBodies(i), ~ NestedEnables
  PROVE  /\ body \in Seq(Cells)
         /\ \/ body \in {On("ack", i), Nest(i)}
            \/ alt_priority_mask = Irq /\ \E b : IsBody(b, On("ack", i)) /\ body = Section(b)
<1>1. PICK z : z = On("ack", i)
  OBVIOUS
<1>2. z \in Seq(Cells)
  BY <1>1, AckTyped
<1>3. CASE body \in {On("ack", i), alt_irq_interruptible(i) \o On("ack", i) \o alt_irq_non_interruptible}
  BY <1>1, <1>2, <1>3, NestIs
<1>4. ASSUME NEW b, IsBody(b, z), body = Section(b)
      PROVE  body \in Seq(Cells)
  BY <1>2, <1>4, BodyTyped, SectionStarts, StartsIs
<1>5. ASSUME NEW j \in Irq, body = alt_irq_disable(j) \o On("ack", i)
      PROVE  \E b : IsBody(b, z) /\ body = Section(b)
  <2>1. body = Section(Update("deactivate", j, Restores(z)))
    BY <1>1, <1>2, <1>5, UpdateIs DEF Cat
  <2> QED
    BY <2>1 DEF IsBody
<1>6. ASSUME NEW j \in Irq, handler[j] # NULL, body = alt_irq_enable(j) \o On("ack", i)
      PROVE  \E b : IsBody(b, z) /\ body = Section(b)
  <2>1. body = Section(Update("activate", j, Restores(z)))
    BY <1>1, <1>2, <1>6, UpdateIs DEF Cat
  <2> QED
    BY <1>6, <2>1 DEF IsBody
<1>7. ASSUME NEW j \in Irq, NEW h \in Handlers, body = alt_iic_isr_register(j, h) \o On("ack", i)
      PROVE  \E b : IsBody(b, z) /\ body = Section(b)
  <2>1. h \in Isrs /\ h # NULL
    BY NullAssumption DEF Isrs
  <2>2. body = Section(Register(j, h, z))
    BY <1>1, <1>2, <1>7, <2>1, RegisterIs DEF Cat
  <2> QED
    BY <2>1, <2>2 DEF IsBody, Isrs
<1>8. \/ body \in {On("ack", i), alt_irq_interruptible(i) \o On("ack", i) \o alt_irq_non_interruptible}
      \/ /\ alt_priority_mask = Irq
         /\ \/ \E j \in Irq : body = alt_irq_disable(j) \o On("ack", i)
            \/ \E j \in Irq : handler[j] # NULL /\ body = alt_irq_enable(j) \o On("ack", i)
            \/ \E j \in Irq, h \in Handlers : body = alt_iic_isr_register(j, h) \o On("ack", i)
  <2>1. \/ body \in {On("ack", i), alt_irq_interruptible(i) \o On("ack", i) \o alt_irq_non_interruptible}
        \/ alt_priority_mask = Irq /\ body \in EnablingBodies(i)
    BY Zenon DEF IsrBodies
  <2>2. body \in EnablingBodies(i) =>
          \/ \E j \in Irq : body = alt_irq_disable(j) \o On("ack", i)
          \/ \E j \in Irq : handler[j] # NULL /\ body = alt_irq_enable(j) \o On("ack", i)
          \/ \E j \in Irq, h \in Handlers : body = alt_iic_isr_register(j, h) \o On("ack", i)
    BY SMT DEF EnablingBodies
  <2> QED
    BY <2>1, <2>2, Zenon
<1>9. CASE alt_priority_mask = Irq /\ \E b : IsBody(b, z) /\ body = Section(b)
  BY <1>1, <1>4, <1>9
<1> QED
  BY <1>3, <1>5, <1>6, <1>7, <1>8, <1>9
Serving(f, i, body) == [f EXCEPT !.at = "isr", !.irq = i, !.todo = body]

LEMMA ServingIs ==
  ASSUME NEW f \in Frames, NEW i \in Irq, NEW body \in Seq(Cells), NEW g, g = Serving(f, i, body)
  PROVE  /\ g \in Frames /\ g.at = "isr" /\ g.irq = i /\ g.todo = body
         /\ g.saved = f.saved /\ g.estatus = f.estatus
<1>1. i \in Nat
  BY NirqAssumption DEF Irq
<1> QED
  BY <1>1 DEF Frames, Serving

LEMMA DispatchSafe ==
  ASSUME IrqIndInv, Dispatch, ~ NestedEnables
  PROVE  IrqIndInv'
<1>1. PICK n, f, below, i :
        n = Len(stack) /\ f = top /\ below = MaskOf(n - 1) /\ i = CHOOSE k \in pending : \A j \in pending : k <= j
  OBVIOUS
<1>2. /\ n \in Nat \ {0} /\ Registers0 /\ StackOK /\ f = stack[n] /\ f \in Frames
      /\ (hung => negated)
  BY <1>1, IndIs
<1>3. PICK body \in IsrBodies(i) :
        stack' = [stack EXCEPT ![Len(stack)] = [@ EXCEPT !.at = "isr", !.irq = i, !.todo = body]]
  BY <1>1, Zenon DEF Dispatch
<1>4. /\ f.at = "handler" \/ (f.at = "isr" /\ f.todo = << >>)
      /\ pending # {} /\ UNCHANGED <<regs, tabs, lines, fate>>
  BY <1>1 DEF Dispatch
<1>5. n # 1 /\ f.estatus
  <2>1. n # 1
    BY <1>1, <1>2, <1>4, IndIs
  <2> QED
    BY <1>1, <2>1, IndIs
<1>6. ~ pie /\ Regs /\ Tabs /\ alt_priority_mask = below /\ f.saved = << >>
  BY <1>1, <1>4, <1>5, Idle
<1>7. i \in Irq /\ \A m \in 2 .. n - 1 : i < stack[m].irq
  BY <1>1, <1>4, <1>5, <1>6, Highest
<1>8. /\ body \in Seq(Cells)
      /\ \/ body \in {On("ack", i), Nest(i)}
         \/ alt_priority_mask = Irq /\ \E b : IsBody(b, On("ack", i)) /\ body = Section(b)
  BY <1>3, <1>7, BodyIs
<1>9. PICK g : g = Serving(f, i, body)
  OBVIOUS
<1>10. /\ g \in Frames /\ g.at = "isr" /\ g.irq = i /\ g.todo = body
       /\ g.saved = << >> /\ g.estatus
  BY <1>2, <1>5, <1>6, <1>7, <1>8, <1>9, ServingIs
<1>11. stack' \in Seq(Frames) /\ Len(stack') = n /\ stack'[n] = g /\ \A m \in 1 .. n - 1 : stack'[m] = stack[m]
  <2>1. stack' = With(stack, Len(stack), Serving(stack[Len(stack)], i, body))
    BY <1>3, Zenon DEF With, Serving
  <2>2. stack' = With(stack, n, g)
    BY <1>1, <1>2, <1>9, <2>1, Zenon
  <2>3. StackOK /\ g \in Frames /\ n = Len(stack)
    BY <1>1, <1>2, <1>10
  <2> QED
    BY <2>2, <2>3, Replaced
<1>12. \A m \in 1 .. n - 1 : Suspended(m)'
  <2>1. \A m \in 1 .. n - 1 : Suspended(m) /\ stack'[m] = stack[m]
    BY <1>1, <1>2, <1>11 DEF StackOK
  <2>2. n - 1 \in Nat /\ UNCHANGED tabs
    BY <1>2, <1>4
  <2> QED
    BY <2>1, <2>2, BelowKeeps
<1>13. Registers0' /\ (hung' => negated')
  BY <1>2, <1>4 DEF Registers0, regs, tabs, fate
<1>14. InHandler(g, below)'
  <2>1. pie' = pie /\ alt_priority_mask' = alt_priority_mask /\ (Regs' <=> Regs) /\ (Tabs' <=> Tabs)
    BY <1>4, Same DEF regs
  <2>2. CASE body \in {On("ack", i), Nest(i)}
    BY <1>6, <1>7, <1>10, <2>1, <2>2 DEF InHandler
  <2>3. CASE alt_priority_mask = Irq /\ \E b : IsBody(b, On("ack", i)) /\ body = Section(b)
    <3>1. PICK b : IsBody(b, On("ack", i)) /\ body = Section(b)
      BY <2>3
    <3>2. IsBody(b, On("ack", i))'
      BY <1>4, <3>1, Same
    <3>3. Opens(g, On("ack", i), FALSE)'
      BY <1>6, <1>10, <2>1, <3>1, <3>2 DEF Opens
    <3>4. InCode(g, On("ack", i), FALSE)'
      BY <3>3 DEF InCode
    <3> QED
      BY <1>6, <1>7, <1>10, <2>1, <2>3, <3>4 DEF InHandler
  <2> QED
    BY <1>8, <2>2, <2>3
<1>15. \A b : b = below => AtTop(g, b)'
  BY <1>5, <1>10, <1>11, <1>14 DEF AtTop
<1>16. n <= Len(stack) + 1 /\ g.at # "program"
  BY <1>1, <1>2, <1>10
<1>17. below = MaskOf(n - 1)
  BY <1>1
<1> QED
  BY <1>2, <1>5, <1>7, <1>10, <1>11, <1>12, <1>13, <1>15, <1>16, <1>17, Rebuilt
(* The frame below, when it goes on: as it was, or after a fault that the  *)
(* handler of exceptions skips.                                            *)
LEMMA FaultsOnly ==
  ASSUME NEW m \in Nat \ {0}, Suspended(m), NEW f, f = stack[m], f.todo # << >>, Op(f) = "fault"
  PROVE  m = 1 /\ Plain(f) /\ f.todo = One("fault", << >>) /\ Rest(f) = << >>
<1>1. CASE m # 1
  <2>1. f.irq \in Irq /\ f.todo \in {Then("ack", f.irq, NULL, Leave), Leave}
    BY <1>1 DEF Suspended
  <2>2. PICK i, acked : i = f.irq /\ acked = Then("ack", f.irq, NULL, Leave)
    OBVIOUS
  <2>3. Starts(acked, "ack", Leave) /\ Starts(Leave, "clear_pie", One("widen", One("ienable_masked", << >>)))
    BY <2>1, <2>2, NestStarts
  <2> QED
    BY <2>1, <2>2, <2>3, Elsewhere
<1>2. CASE m = 1
  <2>1. ASSUME NEW b, IsBody(b, << >>) PROVE f.todo # Section(b) /\ f.todo # One("clear_pie", b)
    <3>1. b \in Seq(Cells)
      BY <2>1, NoCode, BodyTyped
    <3> QED
      BY <3>1, SectionStarts, Elsewhere
  <2>2. Plain(f)
    BY <1>2, <2>1 DEF Suspended
  <2>3. {"fault", "exception_register"} \subseteq Ops /\ 0 \in Int /\ NULL \in Isrs
    BY DEF Ops, Isrs
  <2>4. \A h \in Handlers \cup {NULL} : f.todo # Then("exception_register", 0, h, << >>)
    BY <2>3, LastStarts, Elsewhere DEF Isrs
  <2>5. f.todo = One("fault", << >>)
    BY <2>2, <2>4 DEF Plain
  <2>6. Starts(One("fault", << >>), "fault", << >>)
    BY <2>3, NoCode, OneStarts
  <2> QED
    BY <1>2, <2>2, <2>5, <2>6, Here
<1> QED
  BY <1>1, <1>2

LEMMA Wakes ==
  ASSUME NEW k \in Nat \ {0}, Suspended(k), NEW f, f = stack[k], Len(stack') = k, pie' = TRUE, Regs', Tabs',
         UNCHANGED tabs, alt_priority_mask' = MaskOf(k),
         NEW g, g.at = f.at, g.irq = f.irq, g.saved = f.saved, g.mask = f.mask,
         g.todo = f.todo \/ (f.todo # << >> /\ Op(f) = "fault" /\ g.todo = Rest(f)),
         NEW below, k # 1 => below = MaskOf(k - 1)
  PROVE  \A b : (k # 1 => b = below) => AtTop(g, b)'
<1>1. CASE k # 1
  <2>1. g.todo = f.todo
    BY <1>1, FaultsOnly
  <2>2. /\ f.at = "isr" /\ f.irq \in Irq /\ f.saved = << >> /\ f.mask = below
        /\ f.todo \in {Then("ack", f.irq, NULL, Leave), Leave}
    BY <1>1 DEF Suspended
  <2>3. alt_priority_mask' = 0 .. g.irq - 1
    BY <1>1 DEF MaskOf
  <2>4. InNest(g, below)'
    BY <2>1, <2>2, <2>3 DEF InNest
  <2>5. InHandler(g, below)'
    BY <2>2, <2>4 DEF InHandler
  <2> QED
    BY <1>1, <2>2, <2>5 DEF AtTop
<1>2. CASE k = 1
  <2>1. alt_priority_mask' = Irq
    BY <1>2 DEF MaskOf
  <2>2. exceptionHandler' = exceptionHandler /\ handler' = handler
    BY DEF tabs
  <2>3. CASE Plain(f)
    <3>1. Plain(g)'
      <4>1. g.todo = f.todo \/ g.todo = << >>
        BY FaultsOnly
      <4> QED
        BY <2>2, <2>3, <4>1 DEF Plain
    <3> QED
      BY <1>2, <2>1, <3>1 DEF AtTop, InProgram
  <2>4. CASE ~ Plain(f)
    <3>1. g.todo = f.todo
      BY <2>4, FaultsOnly
    <3>2. PICK b : /\ IsBody(b, << >>)
                   /\ \/ f.todo = Section(b) /\ f.saved = << >>
                      \/ f.todo = One("clear_pie", b) /\ f.saved = <<TRUE>>
      BY <1>2, <2>4 DEF Suspended
    <3>3. IsBody(b, << >>)'
      BY <2>2, <3>2 DEF IsBody
    <3>4. Opens(g, << >>, TRUE)'
      BY <3>1, <3>2, <3>3 DEF Opens
    <3> QED
      BY <1>2, <2>1, <3>4 DEF AtTop, InProgram, InCode
  <2> QED
    BY <2>3, <2>4
<1> QED
  BY <1>1, <1>2

LEMMA Popping ==
  ASSUME IrqIndInv, NEW n, n = Len(stack), n # 1, Regs, Tabs, alt_priority_mask = MaskOf(n - 1),
         pie' = TRUE, UNCHANGED <<ienable, alt_irq_active, alt_priority_mask, tabs, lines, fate>>,
         NEW f, f = stack[n - 1],
         NEW g \in Frames, g.at = f.at, g.irq = f.irq, g.saved = f.saved, g.mask = f.mask, g.estatus = f.estatus,
         g.todo = f.todo \/ (f.todo # << >> /\ Op(f) = "fault" /\ g.todo = Rest(f)),
         stack' \in Seq(Frames), Len(stack') = n - 1, stack'[n - 1] = g,
         \A m \in 1 .. n - 2 : stack'[m] = stack[m]
  PROVE  IrqIndInv'
<1>1. n \in Nat \ {0} /\ StackOK /\ Registers0 /\ (hung => negated)
  BY IndIs
<1>2. PICK k, below : k = n - 1 /\ below = MaskOf(k - 1)
  OBVIOUS
<1>3. k \in Nat \ {0} /\ n - 2 = k - 1 /\ k \in 1 .. n - 1 /\ k <= Len(stack) + 1
  BY <1>1, <1>2
<1>4. /\ stack[1].at = "program"
      /\ \A m \in 2 .. n : stack[m].at # "program" /\ stack[m].estatus
      /\ \A m \in 1 .. n - 1 : Suspended(m)
      /\ \A m, j \in 2 .. n : m < j /\ stack[j].at = "isr" => stack[j].irq < stack[m].irq
  BY <1>1 DEF StackOK
<1>5. \A m \in 1 .. k - 1 : stack'[m] = stack[m]
  BY <1>3
<1>6. \A m \in 1 .. k - 1 : Suspended(m)'
  <2>1. \A m \in 1 .. k - 1 : Suspended(m) /\ stack'[m] = stack[m]
    BY <1>2, <1>3, <1>4
  <2>2. k - 1 \in Nat
    BY <1>3
  <2> QED
    BY <2>1, <2>2, BelowKeeps
<1>7. Registers0' /\ (hung' => negated')
  BY <1>1 DEF Registers0, tabs, fate
<1>8. /\ k = 1 => g.at = "program"
      /\ k # 1 => g.at # "program" /\ g.estatus
      /\ g.at = "isr" => \A m \in 2 .. k - 1 : g.irq < stack[m].irq
  <2>1. k # 1 => k \in 2 .. n
    BY <1>2, <1>3
  <2>2. \A m \in 2 .. k - 1 : m \in 2 .. n /\ m < k /\ k # 1
    BY <1>2, <1>3
  <2>3. f = stack[k]
    BY <1>2
  <2>4. k = 1 => g.at = "program"
    BY <1>4, <2>3
  <2>5. k # 1 => g.at # "program" /\ g.estatus
    <3>1. k # 1 => f.at # "program" /\ f.estatus
      BY <1>4, <2>1, <2>3
    <3> QED
      BY <3>1
  <2>6. ASSUME g.at = "isr", NEW m \in 2 .. k - 1 PROVE g.irq < stack[m].irq
    <3>1. m \in 2 .. n /\ k \in 2 .. n /\ m < k /\ stack[k].at = "isr"
      BY <2>1, <2>2, <2>3, <2>6
    <3> QED
      BY <1>4, <2>3, <3>1
  <2> QED
    BY <2>4, <2>5, <2>6
<1>9. \A b : (k # 1 => b = below) => AtTop(g, b)'
  <2>1. Regs' /\ Tabs'
    BY DEF Regs, Tabs, Paired, Given, tabs
  <2>2. Suspended(k)
    BY <1>3, <1>4
  <2>3. Len(stack') = k /\ f = stack[k] /\ alt_priority_mask' = MaskOf(k)
    BY <1>2
  <2> QED
    BY <1>2, <1>3, <2>1, <2>2, <2>3, Wakes
<1>10. stack'[k] = g /\ Len(stack') = k
  BY <1>2
<1> QED
  BY <1>2, <1>3, <1>5, <1>6, <1>7, <1>8, <1>9, <1>10, Rebuilt
LEMMA ReturnSafe ==
  ASSUME IrqIndInv, Return
  PROVE  IrqIndInv'
<1>1. PICK n, f : n = Len(stack) /\ f = stack[n - 1]
  OBVIOUS
<1>2. n \in Nat \ {0} /\ StackOK
  BY <1>1, IndIs
<1>3. /\ top.at = "isr" /\ top.todo = << >> /\ stack' = Below /\ pie' = top.estatus
      /\ UNCHANGED <<ienable, alt_irq_active, alt_priority_mask, tabs, lines, fate>>
  BY DEF Return
<1>4. n # 1 /\ top.estatus
  <2>1. n # 1
    BY <1>1, <1>3, IndIs
  <2> QED
    BY <1>1, <2>1, IndIs
<1>5. pie' = TRUE
  <2>1. top \in Frames
    BY IndIs
  <2>2. top.estatus \in BOOLEAN
    BY <2>1 DEF Frames
  <2> QED
    BY <1>3, <1>4, <2>2
<1>6. Regs /\ Tabs /\ alt_priority_mask = MaskOf(n - 1)
  BY <1>1, <1>3, <1>4, Idle
<1>7. /\ stack' \in Seq(Frames) /\ Len(stack') = n - 1 /\ stack'[n - 1] = f /\ f \in Frames
      /\ \A m \in 1 .. n - 2 : stack'[m] = stack[m]
  <2>1. n - 1 \in 1 .. n - 1 /\ n - 1 \in 1 .. n /\ \A m \in 1 .. n - 2 : m \in 1 .. n - 1
    BY <1>2, <1>4
  <2> QED
    BY <1>1, <1>2, <1>3, <2>1, TopIs
<1> QED
  BY <1>1, <1>3, <1>4, <1>5, <1>6, <1>7, Popping

Went(f) == [f EXCEPT !.todo = Tail(@)]

BackTo(s, n, f) ==
  /\ s \in Seq(Frames) /\ Len(s) = n - 1 /\ \A m \in 1 .. n - 2 : s[m] = stack[m]
  /\ s[n - 1] \in Frames
  /\ \/ s[n - 1] = f
     \/ f.todo # << >> /\ Op(f) = "fault" /\ s[n - 1] = Went(f)

LEMMA Skipped ==
  ASSUME StackOK, NEW n, n = Len(stack), n # 1, NEW f, f = stack[n - 1],
         NEW s, \E skip \in BOOLEAN : s = Resume(skip)
  PROVE  BackTo(s, n, f)
<1>1. PICK k, skip : k = n - 1 /\ skip \in BOOLEAN /\ s = Resume(skip)
  OBVIOUS
<1>2. /\ n \in Nat \ {0} /\ Below \in Seq(Frames) /\ Len(Below) = k
      /\ \A m \in 1 .. k : Below[m] = stack[m]
      /\ \A m \in 1 .. n : stack[m] \in Frames
  BY <1>1, TopIs
<1>3. k \in 1 .. k /\ k \in 1 .. n /\ n - 2 = k - 1 /\ \A m \in 1 .. k - 1 : m \in 1 .. k /\ m # k
  BY <1>1, <1>2
<1>4. f \in Frames /\ Below[k] = f
  BY <1>1, <1>2, <1>3
<1>5. CASE skip /\ f.todo # << >> /\ Op(f) = "fault"
  <2>1. PICK d : d = Went(f)
    OBVIOUS
  <2>2. d \in Frames
    BY <1>4, <1>5, <2>1, DoneIs DEF Went
  <2>3. s = With(Below, k, d)
    <3>1. skip /\ stack[k].todo # << >> /\ Head(stack[k].todo).op = "fault"
      BY <1>1, <1>5 DEF Op
    <3>2. Resume(skip) = [Below EXCEPT ![k].todo = Tail(@)]
      BY <1>1, <3>1, Zenon DEF Resume
    <3>3. [Below EXCEPT ![k].todo = Tail(@)] = With(Below, k, Went(Below[k]))
      BY Zenon DEF With, Went
    <3> QED
      BY <1>1, <1>4, <2>1, <3>2, <3>3, Zenon
  <2>4. /\ With(Below, k, d) \in Seq(Frames) /\ Len(With(Below, k, d)) = k
        /\ \A j \in 1 .. k : With(Below, k, d)[j] = IF j = k THEN d ELSE Below[j]
    <3>1. PICK w : w = With(Below, k, d)
      OBVIOUS
    <3>2. Below \in Seq(Frames) /\ k \in 1 .. Len(Below) /\ d \in Frames
      BY <1>2, <1>3, <2>2
    <3>3. /\ w \in Seq(Frames) /\ Len(w) = Len(Below)
          /\ \A j \in 1 .. Len(Below) : w[j] = IF j = k THEN d ELSE Below[j]
      BY <3>1, <3>2, ExceptSeq DEF With
    <3> QED
      BY <1>2, <3>1, <3>3
  <2>5. s[k] = d /\ \A m \in 1 .. k - 1 : s[m] = stack[m]
    BY <1>2, <1>3, <2>3, <2>4
  <2> QED
    BY <1>1, <1>3, <1>5, <2>1, <2>2, <2>3, <2>4, <2>5, Zenon DEF BackTo
<1>6. CASE ~ (skip /\ f.todo # << >> /\ Op(f) = "fault")
  <2>1. s = Below
    <3>1. ~ (skip /\ stack[k].todo # << >> /\ Head(stack[k].todo).op = "fault")
      BY <1>1, <1>6 DEF Op
    <3> QED
      BY <1>1, <3>1, Zenon DEF Resume
  <2> QED
    BY <1>1, <1>2, <1>3, <1>4, <2>1 DEF BackTo
<1> QED
  BY <1>5, <1>6

LEMMA ExceptionSafe ==
  ASSUME IrqIndInv, alt_instruction_exception_entry
  PROVE  IrqIndInv'
<1>1. PICK n, f, below : n = Len(stack) /\ f = top /\ below = MaskOf(n - 1)
  OBVIOUS
<1>2. n \in Nat \ {0} /\ StackOK /\ Registers0 /\ AtTop(f, below) /\ f \in Frames
  BY <1>1, IndIs
<1>3. /\ f.at = "entry" /\ ~ (f.estatus /\ pending # {})
      /\ UNCHANGED <<ienable, alt_irq_active, alt_priority_mask, tabs, lines, negated>>
  BY <1>1 DEF alt_instruction_exception_entry
<1>4. n # 1 /\ f.estatus
  <2>1. n # 1
    BY <1>1, <1>3, IndIs
  <2> QED
    BY <1>1, <2>1, IndIs
<1>5. Regs /\ Tabs /\ alt_priority_mask = MaskOf(n - 1)
  BY <1>1, <1>3, <1>4, Idle
<1>6. CASE exceptionHandler = NULL
  <2>1. hung' = TRUE /\ UNCHANGED <<pie, stack>>
    BY <1>6 DEF alt_instruction_exception_entry
  <2>2. UNCHANGED <<regs, tabs, stack>>
    BY <1>3, <2>1 DEF regs
  <2>3. negated
    <3>1. Entering(f, below)
      BY <1>1, <1>2, <1>3, <1>4 DEF AtTop
    <3>2. CASE n = 2 /\ stack[1].todo = One("fault", << >>)
      <4>1. Suspended(1)
        <5>1. 1 \in 1 .. Len(stack) - 1
          BY <1>1, <3>2
        <5> QED
          BY <1>2, <5>1 DEF StackOK
      <4>2. PICK q : q = stack[1]
        OBVIOUS
      <4>3. "fault" \in Ops
        BY DEF Ops
      <4>4. Starts(q.todo, "fault", << >>)
        BY <3>2, <4>2, <4>3, NoCode, OneStarts
      <4>5. q.todo # << >> /\ Op(q) = "fault"
        BY <4>4, FrameStarts
      <4>6. Plain(q)
        BY <4>1, <4>2, <4>5, FaultsOnly
      <4>7. {"exception_register"} \subseteq Ops /\ 0 \in Int
        BY DEF Ops
      <4>8. \A h \in Handlers \cup {NULL} : q.todo # Then("exception_register", 0, h, << >>)
        BY <4>5, <4>7, LastStarts, Elsewhere DEF Isrs
      <4>9. exceptionHandler # NULL
        BY <4>5, <4>6, <4>8 DEF Plain
      <4> QED
        BY <1>6, <4>9
    <3> QED
      BY <1>1, <1>3, <1>4, <3>1, <3>2 DEF Entering
  <2>4. lines' \subseteq Irq
    BY <1>2, <1>3 DEF Registers0
  <2> QED
    BY <1>3, <2>1, <2>2, <2>3, <2>4, Steady
<1>7. CASE exceptionHandler # NULL
  <2>1. \E skip \in BOOLEAN : stack' = Resume(skip)
    BY <1>7 DEF alt_instruction_exception_entry
  <2>2. pie' = f.estatus /\ UNCHANGED hung
    BY <1>1, <1>7 DEF alt_instruction_exception_entry
  <2>3. pie' = TRUE
    BY <1>2, <1>4, <2>2 DEF Frames
  <2>4. PICK q, s : q = stack[n - 1] /\ s = stack'
    OBVIOUS
  <2>5. /\ s \in Seq(Frames) /\ Len(s) = n - 1 /\ \A m \in 1 .. n - 2 : s[m] = stack[m]
        /\ s[n - 1] \in Frames
        /\ \/ s[n - 1] = q
           \/ q.todo # << >> /\ Op(q) = "fault" /\ s[n - 1] = Went(q)
    <3>1. n = Len(stack) /\ StackOK /\ n # 1 /\ q = stack[n - 1]
      BY <1>1, <1>2, <1>4, <2>4
    <3>2. \E skip \in BOOLEAN : s = Resume(skip)
      BY <2>1, <2>4
    <3>3. BackTo(s, n, q)
      BY <3>1, <3>2, Skipped
    <3> QED
      BY <3>3, Zenon DEF BackTo
  <2>6. PICK g : g = s[n - 1]
    OBVIOUS
  <2>7. q \in Frames
    <3>1. n - 1 \in 1 .. n
      BY <1>2, <1>4
    <3> QED
      BY <1>1, <1>2, <2>4, <3>1, TopIs
  <2>8. /\ g \in Frames /\ g.at = q.at /\ g.irq = q.irq /\ g.saved = q.saved /\ g.mask = q.mask /\ g.estatus = q.estatus
        /\ g.todo = q.todo \/ (q.todo # << >> /\ Op(q) = "fault" /\ g.todo = Rest(q))
    <3>1. CASE g = q
      BY <2>7, <3>1
    <3>2. CASE g # q
      <4>1. q.todo # << >> /\ Op(q) = "fault" /\ g = Went(q)
        BY <2>5, <2>6, <3>2, Zenon
      <4> QED
        BY <2>7, <4>1, DoneIs DEF Went
    <3> QED
      BY <3>1, <3>2
  <2>9. UNCHANGED <<ienable, alt_irq_active, alt_priority_mask, tabs, lines, fate>>
    BY <1>3, <2>2 DEF fate
  <2>10. stack' \in Seq(Frames) /\ Len(stack') = n - 1 /\ stack'[n - 1] = g /\ \A m \in 1 .. n - 2 : stack'[m] = stack[m]
    BY <2>4, <2>5, <2>6, Zenon
  <2>11. n = Len(stack)
    BY <1>1
  <2> QED
    BY <1>4, <1>5, <2>3, <2>4, <2>8, <2>9, <2>10, <2>11, Popping
<1> QED
  BY <1>6, <1>7
-----------------------------------------------------------------------------
(* The program's calls.                                                    *)
LEMMA CallTyped ==
  ASSUME NEW i \in Irq, NEW h \in Isrs
  PROVE  /\ alt_iic_isr_register(i, h) \in Seq(Cells)
         /\ alt_irq_disable_all \o alt_irq_disable(i) \o alt_irq_enable_all \in Seq(Cells)
<1>1. "handler" \in Ops /\ "context" \in Ops /\ i \in Int
  BY NirqAssumption DEF Ops, Irq
<1>2. PICK a, b, c, d, e :
        /\ a = alt_irq_disable_all /\ b = Put("handler", i, h) /\ c = Put("context", i, h)
        /\ d = (IF h # NULL THEN alt_irq_enable(i) ELSE alt_irq_disable(i)) /\ e = alt_irq_enable_all
  OBVIOUS
<1>3. a \in Seq(Cells) /\ b \in Seq(Cells) /\ c \in Seq(Cells) /\ e \in Seq(Cells)
  BY <1>1, <1>2, DisableAll, EnableAll, PutCell
<1>4. d \in Seq(Cells) /\ alt_irq_disable(i) \in Seq(Cells)
  BY <1>2, UpdateIs
<1>5. alt_iic_isr_register(i, h) = Cat(Cat(Cat(Cat(a, b), c), d), e)
  BY <1>2, Zenon DEF Cat, alt_iic_isr_register
<1>6. Cat(Cat(Cat(Cat(a, b), c), d), e) \in Seq(Cells)
  <2>1. Cat(Cat(Cat(a, b), c), d) \in Seq(Cells)
    BY <1>3, <1>4, Chain
  <2> QED
    BY <1>3, <2>1, Catted
<1>7. alt_irq_disable_all \o alt_irq_disable(i) \o alt_irq_enable_all = Cat(Cat(a, alt_irq_disable(i)), e)
  BY <1>2, Zenon DEF Cat
<1>8. Cat(Cat(a, alt_irq_disable(i)), e) \in Seq(Cells)
  <2>1. Cat(a, alt_irq_disable(i)) \in Seq(Cells)
    BY <1>3, <1>4, Catted
  <2> QED
    BY <1>3, <2>1, Catted
<1> QED
  BY <1>5, <1>6, <1>7, <1>8

LEMMA CatNone ==
  ASSUME NEW s \in Seq(Cells)
  PROVE  Cat(s, << >>) = s
  BY ConcatEmptySeq DEF Cat

LEMMA OperationIs ==
  ASSUME NEW t \in Operations
  PROVE  /\ t \in Seq(Cells)
         /\ \/ \E b : IsBody(b, << >>) /\ t = Section(b)
            \/ \E h \in Handlers \cup {NULL} : t = Then("exception_register", 0, h, << >>)
            \/ t = One("fault", << >>) /\ exceptionHandler # NULL
<1>1. \/ \E i \in Irq, h \in Handlers \cup {NULL} : t = alt_iic_isr_register(i, h)
      \/ \E i \in Irq : handler[i] # NULL /\ t = alt_irq_enable(i)
      \/ \E i \in Irq : t = alt_irq_disable(i)
      \/ \E i \in Irq : t = alt_irq_disable_all \o alt_irq_disable(i) \o alt_irq_enable_all
      \/ \E h \in Handlers \cup {NULL} : t = alt_instruction_exception_register(h)
      \/ t = Do("fault") /\ exceptionHandler # NULL
  BY SMT DEF Operations
<1>2. PICK z : z = << >>
  OBVIOUS
<1>3. z \in Seq(Cells)
  BY <1>2, NoCode
<1>4. ASSUME NEW i \in Irq, NEW h \in Handlers \cup {NULL}, t = alt_iic_isr_register(i, h)
      PROVE  t \in Seq(Cells) /\ \E b : IsBody(b, z) /\ t = Section(b)
  <2>1. h \in Isrs
    BY DEF Isrs
  <2>2. t \in Seq(Cells)
    BY <1>4, <2>1, CallTyped
  <2>3. t = Section(Register(i, h, z))
    BY <1>2, <1>3, <1>4, <2>1, <2>2, CatNone, RegisterIs
  <2> QED
    BY <1>2, <2>2, <2>3 DEF IsBody
<1>5. ASSUME NEW i \in Irq, handler[i] # NULL, t = alt_irq_enable(i)
      PROVE  t \in Seq(Cells) /\ \E b : IsBody(b, z) /\ t = Section(b)
  <2>1. t \in Seq(Cells)
    BY <1>5, UpdateIs
  <2>2. t = Section(Update("activate", i, Restores(z)))
    BY <1>2, <1>3, <1>5, <2>1, CatNone, UpdateIs
  <2> QED
    BY <1>5, <2>1, <2>2 DEF IsBody
<1>6. ASSUME NEW i \in Irq, t = alt_irq_disable(i)
      PROVE  t \in Seq(Cells) /\ \E b : IsBody(b, z) /\ t = Section(b)
  <2>1. t \in Seq(Cells)
    BY <1>6, UpdateIs
  <2>2. t = Section(Update("deactivate", i, Restores(z)))
    BY <1>2, <1>3, <1>6, <2>1, CatNone, UpdateIs
  <2> QED
    BY <2>1, <2>2 DEF IsBody
<1>7. ASSUME NEW i \in Irq, t = alt_irq_disable_all \o alt_irq_disable(i) \o alt_irq_enable_all
      PROVE  t \in Seq(Cells) /\ \E b : IsBody(b, z) /\ t = Section(b)
  <2>1. t \in Seq(Cells)
    <3>1. NULL \in Isrs
      BY DEF Isrs
    <3> QED
      BY <1>7, <3>1, CallTyped
  <2>2. Cat(alt_irq_disable_all \o alt_irq_disable(i) \o alt_irq_enable_all, z) = Section(Inner("deactivate", i, z))
    BY <1>3, NestedIs
  <2>3. t = Section(Inner("deactivate", i, z))
    BY <1>2, <1>7, <2>1, <2>2, CatNone
  <2> QED
    BY <2>1, <2>3 DEF IsBody
<1>8. ASSUME NEW h \in Handlers \cup {NULL}, t = alt_instruction_exception_register(h)
      PROVE  t \in Seq(Cells) /\ t = Then("exception_register", 0, h, << >>)
  <2>1. "exception_register" \in Ops /\ 0 \in Int /\ h \in Isrs
    BY DEF Ops, Isrs
  <2>2. t = Put("exception_register", 0, h) /\ t \in Seq(Cells)
    BY <1>8, <2>1, PutCell DEF alt_instruction_exception_register
  <2> QED
    BY <2>2, CatNone DEF Then, Cat
<1>9. t = Do("fault") => t \in Seq(Cells) /\ t = One("fault", << >>)
  <2>1. "fault" \in Ops
    BY DEF Ops
  <2> QED
    BY <2>1, DoIs
<1> QED
  BY <1>1, <1>2, <1>4, <1>5, <1>6, <1>7, <1>8, <1>9

(* Between two operations the program has its interrupts as it asked.      *)
LEMMA Between ==
  ASSUME IrqIndInv, top.at = "program", top.todo = << >>
  PROVE  /\ Len(stack) = 1 /\ pie /\ Regs /\ Tabs /\ alt_priority_mask = Irq /\ top.saved = << >>
         /\ ienable = alt_irq_active
<1>1. Len(stack) = 1
  BY IndIs
<1>2. PICK f, below : f = top /\ below = MaskOf(Len(stack) - 1)
  OBVIOUS
<1>3. InProgram(f) /\ Registers0
  BY <1>1, <1>2, IndIs DEF AtTop
<1>4. ~ InCode(f, << >>, TRUE)
  BY <1>2, CodeOp, NoCode
<1>5. Starting # << >> /\ One("open", << >>) # << >>
  <2>1. {"ienable_none", "open"} \subseteq Ops /\ 0 \in Int /\ NULL \in Isrs
    BY DEF Ops, Isrs
  <2>2. One("open", << >>) # << >> /\ One("open", << >>) \in Seq(Cells)
    BY <2>1, LastStarts DEF One
  <2> QED
    BY <2>1, <2>2, OneStarts, StartsIs DEF Starting
<1>6. pie /\ Regs /\ Tabs /\ alt_priority_mask = Irq /\ f.saved = << >>
  BY <1>2, <1>3, <1>4, <1>5 DEF InProgram, Plain
<1>7. ienable = alt_irq_active
  BY <1>3, <1>6 DEF Regs, Registers0
<1> QED
  BY <1>1, <1>2, <1>6, <1>7

Calling(f, t) == [f EXCEPT !.todo = t]

LEMMA CallSafe ==
  ASSUME IrqIndInv, Call
  PROVE  IrqIndInv'
<1>1. PICK f : f = top
  OBVIOUS
<1>2. f \in Frames /\ Registers0 /\ StackOK /\ (hung => negated)
  BY <1>1, IndIs
<1>3. top.at = "program" /\ top.todo = << >> /\ UNCHANGED <<regs, tabs, lines, fate>>
  BY DEF Call
<1>4. PICK t \in Operations : stack' = <<Calling(f, t)>>
  BY <1>1, Zenon DEF Call, Calling
<1>5. Len(stack) = 1 /\ pie /\ Regs /\ Tabs /\ alt_priority_mask = Irq /\ f.saved = << >>
  BY <1>1, <1>3, Between
<1>6. /\ t \in Seq(Cells)
      /\ \/ \E b : IsBody(b, << >>) /\ t = Section(b)
         \/ \E h \in Handlers \cup {NULL} : t = Then("exception_register", 0, h, << >>)
         \/ t = One("fault", << >>) /\ exceptionHandler # NULL
  BY OperationIs
<1>7. PICK g : g = Calling(f, t)
  OBVIOUS
<1>8. g \in Frames /\ g.at = "program" /\ g.todo = t /\ g.saved = << >>
  BY <1>1, <1>2, <1>3, <1>5, <1>6, <1>7 DEF Frames, Calling
<1>9. stack' \in Seq(Frames) /\ Len(stack') = 1 /\ stack'[1] = g
  BY <1>4, <1>7, <1>8
<1>10. InProgram(g)'
  <2>1. /\ pie' /\ alt_priority_mask' = Irq /\ Regs' /\ Tabs' /\ exceptionHandler' = exceptionHandler
    BY <1>3, <1>5, Same DEF regs, tabs
  <2>2. CASE \E b : IsBody(b, << >>) /\ t = Section(b)
    <3>1. PICK b : IsBody(b, << >>) /\ t = Section(b)
      BY <2>2
    <3>2. IsBody(b, << >>)'
      BY <1>3, <3>1, Same
    <3>3. pie' = TRUE
      BY <1>2, <1>3, <1>5 DEF Registers0, regs
    <3>4. Opens(g, << >>, TRUE)'
      BY <1>8, <2>1, <3>1, <3>2, <3>3 DEF Opens
    <3> QED
      BY <2>1, <3>4 DEF InProgram, InCode
  <2>3. CASE \/ \E h \in Handlers \cup {NULL} : t = Then("exception_register", 0, h, << >>)
             \/ t = One("fault", << >>) /\ exceptionHandler # NULL
    <3>1. Plain(g)'
      BY <1>8, <2>1, <2>3 DEF Plain
    <3> QED
      BY <2>1, <3>1 DEF InProgram
  <2> QED
    BY <1>6, <2>2, <2>3
<1>11. \A b : AtTop(g, b)'
  BY <1>9, <1>10 DEF AtTop
<1>12. Registers0' /\ (hung' => negated')
  BY <1>2, <1>3 DEF Registers0, regs, tabs, fate
<1>13. PICK k : k = 1
  OBVIOUS
<1>14. /\ k \in Nat \ {0} /\ k <= Len(stack) + 1 /\ Len(stack') = k /\ stack'[k] = g
       /\ \A m \in 1 .. k - 1 : stack'[m] = stack[m] /\ Suspended(m)'
  BY <1>5, <1>9, <1>13
<1>15. PICK below : below = {}
  OBVIOUS
<1> QED
  BY <1>8, <1>9, <1>11, <1>12, <1>13, <1>14, Rebuilt
-----------------------------------------------------------------------------
LEMMA Starting0 ==
  alt_irq_init = Starting /\ Starting \in Seq(Cells)
<1>1. {"ienable_none", "open"} \subseteq Ops
  BY DEF Ops
<1>2. alt_irq_init = Cat(Do("ienable_none"), Do("open"))
  BY Zenon DEF alt_irq_init, Cat
<1>3. Do("open") \in Seq(Cells) /\ Do("open") = One("open", << >>) /\ Do("ienable_none") \in Seq(Cells)
  BY <1>1, DoIs
<1>4. alt_irq_init \in Seq(Cells)
  BY <1>2, <1>3, Catted
<1> QED
  BY <1>1, <1>2, <1>3, <1>4, DoIs DEF Starting

LEMMA InitSafe ==
  ASSUME Init
  PROVE  IrqIndInv
<1>1. PICK f : f = Calling(Frame("program"), alt_irq_init)
  OBVIOUS
<1>2. stack = <<f>>
  BY <1>1, Zenon DEF Init, Calling
<1>3. f \in Frames /\ f.at = "program" /\ f.todo = Starting /\ f.saved = << >>
  <2>1. PICK q : q = Frame("program")
    OBVIOUS
  <2>2. q = [at |-> "program", irq |-> ALT_NIRQ, todo |-> << >>, saved |-> << >>, mask |-> Irq, estatus |-> FALSE]
    BY <2>1 DEF Frame
  <2>3. PICK t, v, a, m, e :
          t = << >> /\ v = << >> /\ a = "program" /\ m = Irq /\ e = FALSE
    OBVIOUS
  <2>4. /\ t \in Seq(Cells) /\ v \in Seq(BOOLEAN) /\ a \in {"program", "entry", "handler", "isr"}
        /\ m \in SUBSET Irq /\ e \in BOOLEAN /\ ALT_NIRQ \in Nat
    BY <2>3, NirqAssumption, EmptySeq
  <2>5. [at |-> a, irq |-> ALT_NIRQ, todo |-> t, saved |-> v, mask |-> m, estatus |-> e] \in Frames
    BY <2>4, FrameTyped
  <2>6. q \in Frames /\ q.at = "program" /\ q.saved = << >>
    BY <2>2, <2>3, <2>5
  <2>7. PICK s : s = alt_irq_init
    OBVIOUS
  <2>8. s = Starting /\ s \in Seq(Cells)
    BY <2>7, Starting0
  <2>9. f = Calling(q, s)
    BY <1>1, <2>1, <2>7
  <2> QED
    BY <2>6, <2>8, <2>9 DEF Frames, Calling
<1>4. Len(stack) = 1 /\ stack[1] = f /\ stack \in Seq(Frames) /\ top = f
  BY <1>2, <1>3 DEF top
<1>5. Registers0
  BY DEF Init, Registers0
<1>6. TypeOK
  BY <1>4, <1>5, TypeIs
<1>7. StackOK
  BY <1>3, <1>4 DEF StackOK
<1>8. InProgram(f)
  <2>1. alt_irq_active = {} /\ ~ pie /\ alt_priority_mask = Irq /\ Paired(None)
    BY DEF Init, Paired
  <2> QED
    BY <1>3, <2>1 DEF InProgram
<1>9. \A g, below : g = top /\ below = MaskOf(Len(stack) - 1) => AtTop(g, below)
  BY <1>4, <1>8 DEF AtTop
<1>10. hung => negated
  BY DEF Init
<1> QED
  BY <1>6, <1>7, <1>9, <1>10, Zenon DEF IrqIndInv

LEMMA StepSafe ==
  ASSUME ~ NestedEnables, IrqIndInv, [Next]_vars
  PROVE  IrqIndInv'
<1>1. CASE UNCHANGED vars
  <2>1. UNCHANGED <<regs, tabs, stack>> /\ UNCHANGED <<lines, hung, negated>>
    BY <1>1 DEF vars, fate
  <2>2. Registers0 /\ (hung => negated)
    BY IndIs
  <2>3. pending' = pending
    BY <2>1 DEF pending, regs
  <2> QED
    BY <2>1, <2>2, <2>3, Steady DEF Registers0
<1>2. CASE Next
  <2>1. CASE \E i \in Irq : Raise(i) \/ Negate(i)
    BY <2>1, LineSafe
  <2>2. CASE Take \/ Fault
    BY <2>2, TakeSafe, FaultSafe
  <2>3. CASE EntryIrq \/ alt_instruction_exception_entry
    BY <2>3, EntrySafe, ExceptionSafe
  <2>4. CASE Dispatch \/ DispatchNothing \/ Return
    BY <2>4, DispatchSafe, NothingSafe, ReturnSafe
  <2>5. CASE ReadStatus \/ WritePie("clear_pie", FALSE) \/ WritePie("open", TRUE) \/ Restore
    BY <2>5, ReadSafe, ClearSafe, OpenSafe, RestoreSafe
  <2>6. CASE SetActive \/ WriteIenable \/ Narrow \/ Widen
    BY <2>6, ActiveSafe, IenableSafe, NarrowSafe, WidenSafe
  <2>7. CASE WriteTable \/ Acknowledge
    BY <2>7, TableSafe, AckSafe
  <2>8. CASE Call
    BY <2>8, CallSafe
  <2> QED
    BY <1>2, <2>1, <2>2, <2>3, <2>4, <2>5, <2>6, <2>7, <2>8, Zenon DEF Next, Cpu
<1> QED
  BY <1>1, <1>2

-----------------------------------------------------------------------------
LEMMA NotInSection ==
  ASSUME NEW m \in Nat \ {0}, Suspended(m)
  PROVE  ~ InSection(stack[m])
<1>1. PICK f : f = stack[m]
  OBVIOUS
<1>2. CASE f.saved = << >>
  <2>1. Len(f.saved) = 0
    BY <1>2
  <2> QED
    BY <1>1, <2>1 DEF InSection
<1>3. CASE f.saved # << >>
  <2>1. m = 1
    BY <1>1, <1>3 DEF Suspended
  <2>2. PICK b : IsBody(b, << >>) /\ f.todo = One("clear_pie", b) /\ f.saved = <<TRUE>>
    BY <1>1, <1>3, <2>1 DEF Suspended, Plain
  <2>3. b \in Seq(Cells)
    BY <2>2, NoCode, BodyTyped
  <2>4. Starts(f.todo, "clear_pie", b)
    BY <2>2, <2>3, SectionStarts
  <2>5. f.todo # << >> /\ Head(f.todo).op = "clear_pie"
    BY <2>4, StartsIs
  <2>6. Len(f.saved) = 1
    BY <2>2
  <2> QED
    BY <1>1, <2>5, <2>6 DEF InSection
<1> QED
  BY <1>2, <1>3

LEMMA IrqSound ==
  ASSUME IrqIndInv
  PROVE  IrqInv
<1>1. TypeOK /\ (hung => negated) /\ StackOK /\ Len(stack) \in Nat \ {0} /\ stack \in Seq(Frames)
  BY IndIs DEF StackOK
<1>2. PICK n : n = Len(stack)
  OBVIOUS
<1>3. DOMAIN stack = 1 .. n
  BY <1>1, <1>2
<1>4. OnlyHigherNest
  <2>1. ASSUME NEW m \in DOMAIN stack, NEW k \in DOMAIN stack, m < k, stack[m].at = "isr", stack[k].at = "isr"
        PROVE  stack[k].irq < stack[m].irq
    <3>1. m # 1 /\ k # 1
      BY <1>1, <2>1 DEF StackOK
    <3>2. m \in 2 .. Len(stack) /\ k \in 2 .. Len(stack)
      BY <1>1, <1>2, <1>3, <3>1
    <3> QED
      BY <1>1, <2>1, <3>2 DEF StackOK
  <2> QED
    BY <2>1 DEF OnlyHigherNest
<1>5. ASSUME NEW m \in DOMAIN stack, InSection(stack[m]) PROVE m = Len(stack) /\ ~ pie
  <2>1. ASSUME m # Len(stack) PROVE FALSE
    <3>1. m \in 1 .. Len(stack) - 1 /\ m \in Nat \ {0}
      BY <1>1, <1>2, <1>3, <2>1
    <3>2. Suspended(m)
      BY <1>1, <3>1 DEF StackOK
    <3> QED
      BY <1>5, <3>1, <3>2, NotInSection
  <2>2. ASSUME m = Len(stack), pie PROVE FALSE
    <3>1. Suspended(m)
      BY <2>2, Interruptible
    <3> QED
      BY <1>1, <1>5, <2>2, <3>1, NotInSection
  <2> QED
    BY <2>1, <2>2
<1>6. ASSUME pie, NEW i \in ienable PROVE handler[i] = context[i] /\ handler[i] # NULL
  <2>1. Tabs
    BY <1>6, <1>2, Interruptible
  <2>2. i \in Irq /\ i # None
    BY <1>1, NirqAssumption DEF TypeOK, Irq, None
  <2> QED
    BY <2>1, <2>2 DEF Tabs, Paired, Given
<1>7. top.at = "program" /\ top.todo = << >> => pie /\ ienable = alt_irq_active /\ alt_priority_mask = Irq
  BY Between
<1> QED
  BY <1>1, <1>4, <1>5, <1>6, <1>7 DEF IrqInv

(* A critical section is not interrupted, nested ones included; interrupts *)
(* are only taken into a table that is complete; handlers nest by          *)
(* priority; the program gets back what it enabled, and the processor only *)
(* hangs on an interrupt its device gave up: for any number of inputs, any *)
(* handlers and any nesting, if a handler that interrupts another leaves   *)
(* alone what is enabled, as the priority mask it has is not the program's *)
(* (alt_irq.h, alt_legacy_irq.h, alt_irq_handler.c).                       *)
THEOREM InterruptsSafe == ~ NestedEnables => (Spec => []IrqInv)
<1> SUFFICES ASSUME ~ NestedEnables PROVE Spec => []IrqInv
  OBVIOUS
<1>1. Init => IrqIndInv
  BY InitSafe
<1>2. IrqIndInv /\ [Next]_vars => IrqIndInv'
  BY StepSafe
<1>3. IrqIndInv => IrqInv
  BY IrqSound
<1> QED
  BY <1>1, <1>2, <1>3, PTL DEF Spec
=============================================================================
