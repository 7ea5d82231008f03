----------------------------- MODULE Interrupts -----------------------------
(***************************************************************************)
(* Interrupts and exceptions of the Nios II under the HAL: the exception   *)
(* entry, alt_irq_handler(), the registration of handlers (alt_iic.c,      *)
(* alt_iic_isr_register.c, alt_irq_register.c), the critical sections of   *)
(* alt_irq.h and the nesting of alt_legacy_irq.h.                          *)
(*                                                                         *)
(* Everything hard here happens between two instructions, so code is a     *)
(* sequence of accesses: a frame of the stack has the accesses its         *)
(* function still has to make, and an exception pushes a frame between any *)
(* two of them.  Devices drive level-sensitive lines; a smaller number is  *)
(* a higher priority.  What handlers do is external: any of IsrBodies.     *)
(***************************************************************************)
EXTENDS Integers, Sequences

CONSTANTS ALT_NIRQ,       \* 32: the inputs of the internal controller
          Handlers,       \* the functions a program may register
          NULL,
          NestedEnables   \* a handler enables and disables interrupts while one
                          \* below it on the stack is interruptible

ASSUME NirqAssumption == ALT_NIRQ \in Nat \ {0}
ASSUME NullAssumption == NULL \notin Handlers

Irq == 0 .. ALT_NIRQ - 1

VARIABLES pie,                \* status.PIE
          ienable,
          alt_irq_active,
          alt_priority_mask,
          handler, context,   \* alt_irq[]: for each the function it belongs to
          exceptionHandler,   \* alt_instruction_exception_handler
          lines,              \* the interrupt inputs asserted
          stack,              \* the program and the exceptions on top of it
          hung,               \* the processor loops for ever, or is in a break
          negated             \* history: a device gave up before it was served

regs == <<pie, ienable, alt_irq_active, alt_priority_mask>>
tabs == <<handler, context, exceptionHandler>>
fate == <<hung, negated>>
vars == <<regs, tabs, lines, stack, fate>>

-----------------------------------------------------------------------------
(* The code, as sequences of accesses.                                     *)
Do(op)        == <<[op |-> op, id |-> 0, isr |-> NULL]>>
On(op, i)     == <<[op |-> op, id |-> i, isr |-> NULL]>>
Put(op, i, h) == <<[op |-> op, id |-> i, isr |-> h]>>

alt_irq_disable_all == Do("read_status") \o Do("clear_pie")
alt_irq_enable_all  == Do("restore")

alt_irq_enable(i)  == alt_irq_disable_all \o On("activate", i) \o Do("ienable") \o alt_irq_enable_all
alt_irq_disable(i) == alt_irq_disable_all \o On("deactivate", i) \o Do("ienable") \o alt_irq_enable_all

\* alt_irq_register() of the legacy interface does the same.
alt_iic_isr_register(i, h) ==
  alt_irq_disable_all \o Put("handler", i, h) \o Put("context", i, h)
    \o (IF h # NULL THEN alt_irq_enable(i) ELSE alt_irq_disable(i)) \o alt_irq_enable_all

alt_irq_interruptible(i)  == On("narrow", i) \o Do("ienable_masked") \o Do("open")
alt_irq_non_interruptible_narrow == Do("clear_pie") \o Do("widen")   \* mutant
alt_irq_non_interruptible == Do("clear_pie") \o Do("widen") \o Do("ienable_masked")

alt_instruction_exception_register(h) == Put("exception_register", 0, h)

alt_irq_init == Do("ienable_none") \o Do("open")

\* What the program does, from main() or a driver's initialisation.
Operations ==
  {alt_iic_isr_register(i, h) : i \in Irq, h \in Handlers \cup {NULL}}
    \cup {alt_irq_enable(i) : i \in {i \in Irq : handler[i] # NULL}}
    \cup {alt_irq_disable(i) : i \in Irq}
    \cup {alt_irq_disable_all \o alt_irq_disable(i) \o alt_irq_enable_all : i \in Irq}
    \cup {alt_instruction_exception_register(h) : h \in Handlers \cup {NULL}}
    \cup (IF exceptionHandler # NULL THEN {Do("fault")} ELSE {})

\* What the handler of interrupt i does, beside satisfying its device.  It does
\* not unregister what the program may be enabling.
EnablingBodies(i) ==
  {alt_irq_disable(j) \o On("ack", i) : j \in Irq}
    \cup {alt_irq_enable(j) \o On("ack", i) : j \in {j \in Irq : handler[j] # NULL}}
    \cup {alt_iic_isr_register(j, h) \o On("ack", i) : j \in Irq, h \in Handlers}

IsrBodies(i) ==
  {On("ack", i), alt_irq_interruptible(i) \o On("ack", i) \o alt_irq_non_interruptible}
    \cup IF alt_priority_mask # Irq /\ ~ NestedEnables THEN {} ELSE EnablingBodies(i)

-----------------------------------------------------------------------------
Frame(at) == [at |-> at, irq |-> ALT_NIRQ, todo |-> << >>, saved |-> << >>,
              mask |-> Irq, estatus |-> FALSE]

Init ==
  /\ pie = FALSE
  /\ ienable \in SUBSET Irq          \* as the previous program left it
  /\ alt_irq_active = {}
  /\ alt_priority_mask = Irq
  /\ handler = [i \in Irq |-> NULL]
  /\ context = [i \in Irq |-> NULL]
  /\ exceptionHandler = NULL
  /\ lines = {}
  /\ stack = <<[Frame("program") EXCEPT !.todo = alt_irq_init]>>
  /\ hung = FALSE
  /\ negated = FALSE

pending      == lines \cap ienable   \* alt_irq_pending()
Interrupting == pie /\ pending # {}
top          == stack[Len(stack)]
Below        == SubSeq(stack, 1, Len(stack) - 1)

Raise(i) ==
  /\ i \notin lines
  /\ lines' = lines \cup {i}
  /\ UNCHANGED <<regs, tabs, stack, fate>>

Negate(i) ==
  /\ i \in lines
  /\ lines' = lines \ {i}
  /\ negated' = TRUE
  /\ UNCHANGED <<regs, tabs, stack, hung>>

\* The processor enters the exception handler: estatus gets the status.
Exception ==
  /\ stack' = Append(stack, [Frame("entry") EXCEPT !.estatus = pie])
  /\ pie' = FALSE
  /\ UNCHANGED <<ienable, alt_irq_active, alt_priority_mask, tabs, lines, fate>>

Take == ~ hung /\ Interrupting /\ Exception

\* alt_exception_entry.S and alt_irq_entry.S: an interrupt or an instruction?
EntryIrq ==
  /\ ~ hung
  /\ top.at = "entry" /\ top.estatus /\ pending # {}
  /\ stack' = [stack EXCEPT ![Len(stack)].at = "handler"]
  /\ UNCHANGED <<regs, tabs, lines, fate>>

\* The instruction is re-issued or skipped, as the registered handler says; it
\* looks at the instruction, and does not skip one that cannot have failed.
Resume(skip) ==
  LET n == Len(stack) - 1
  IN  IF skip /\ stack[n].todo # << >> /\ Head(stack[n].todo).op = "fault"
        THEN [Below EXCEPT ![n].todo = Tail(@)] ELSE Below

alt_instruction_exception_entry ==
  /\ ~ hung
  /\ top.at = "entry" /\ ~ (top.estatus /\ pending # {})
  /\ IF exceptionHandler = NULL
       THEN hung' = TRUE /\ UNCHANGED <<pie, stack>>
       ELSE /\ \E skip \in BOOLEAN : stack' = Resume(skip)
            /\ pie' = top.estatus
            /\ UNCHANGED hung
  /\ UNCHANGED <<ienable, alt_irq_active, alt_priority_mask, tabs, lines, negated>>

\* One turn of the loop of alt_irq_handler(): the lowest number first.
Dispatch ==
  /\ ~ hung
  /\ top.at = "handler" \/ (top.at = "isr" /\ top.todo = << >>)
  /\ ~ Interrupting
  /\ pending # {}
  /\ LET i == CHOOSE i \in pending : \A j \in pending : i <= j
     IN  \E body \in IsrBodies(i) :
           stack' = [stack EXCEPT ![Len(stack)] = [@ EXCEPT !.at = "isr", !.irq = i, !.todo = body]]
  /\ UNCHANGED <<regs, tabs, lines, fate>>

\* The first turn looks for a bit until it finds one.
DispatchNothing ==
  /\ ~ hung
  /\ top.at = "handler" /\ pending = {}
  /\ hung' = TRUE
  /\ UNCHANGED <<regs, tabs, lines, stack, negated>>

Return ==
  /\ ~ hung
  /\ top.at = "isr" /\ top.todo = << >> /\ pending = {}
  /\ stack' = Below
  /\ pie' = top.estatus
  /\ UNCHANGED <<ienable, alt_irq_active, alt_priority_mask, tabs, lines, fate>>

-----------------------------------------------------------------------------
(* The accesses.  A pending interrupt is taken before the next one.        *)
Access(op) ==
  /\ ~ hung /\ ~ Interrupting
  /\ top.at \in {"program", "isr"}
  /\ top.todo # << >>
  /\ Head(top.todo).op = op

id   == Head(top.todo).id
done == [top EXCEPT !.todo = Tail(@)]

Go(frame) == stack' = Append(Below, frame)

ReadStatus ==
  /\ Access("read_status")
  /\ Go([done EXCEPT !.saved = Append(@, pie)])
  /\ UNCHANGED <<regs, tabs, lines, fate>>

WritePie(op, b) ==
  /\ Access(op)
  /\ pie' = b
  /\ Go(done)
  /\ UNCHANGED <<ienable, alt_irq_active, alt_priority_mask, tabs, lines, fate>>

RestoreAlways ==   \* mutant: enables interrupts, whatever they were
  /\ Access("restore")
  /\ pie' = TRUE
  /\ Go([done EXCEPT !.saved = SubSeq(@, 1, Len(@) - 1)])
  /\ UNCHANGED <<ienable, alt_irq_active, alt_priority_mask, tabs, lines, fate>>

Restore ==
  /\ Access("restore")
  /\ pie' = top.saved[Len(top.saved)]
  /\ Go([done EXCEPT !.saved = SubSeq(@, 1, Len(@) - 1)])
  /\ UNCHANGED <<ienable, alt_irq_active, alt_priority_mask, tabs, lines, fate>>

SetActive ==
  /\ \/ Access("activate") /\ alt_irq_active' = alt_irq_active \cup {id}
     \/ Access("deactivate") /\ alt_irq_active' = alt_irq_active \ {id}
  /\ Go(done)
  /\ UNCHANGED <<pie, ienable, alt_priority_mask, tabs, lines, fate>>

WriteIenable ==
  /\ \/ Access("ienable") /\ ienable' = alt_irq_active
     \/ Access("ienable_masked") /\ ienable' = alt_irq_active \cap alt_priority_mask
     \/ Access("ienable_none") /\ ienable' = {}
  /\ Go(done)
  /\ UNCHANGED <<pie, alt_irq_active, alt_priority_mask, tabs, lines, fate>>

Narrow ==
  /\ Access("narrow")
  /\ alt_priority_mask' = 0 .. id - 1
  /\ Go([done EXCEPT !.mask = alt_priority_mask])
  /\ UNCHANGED <<pie, ienable, alt_irq_active, tabs, lines, fate>>

Widen ==
  /\ Access("widen")
  /\ alt_priority_mask' = top.mask
  /\ Go(done)
  /\ UNCHANGED <<pie, ienable, alt_irq_active, tabs, lines, fate>>

WriteTable ==
  /\ \/ Access("handler") /\ handler' = [handler EXCEPT ![id] = Head(top.todo).isr]
        /\ UNCHANGED <<context, exceptionHandler>>
     \/ Access("context") /\ context' = [context EXCEPT ![id] = Head(top.todo).isr]
        /\ UNCHANGED <<handler, exceptionHandler>>
     \/ Access("exception_register") /\ exceptionHandler' = Head(top.todo).isr
        /\ UNCHANGED <<handler, context>>
  /\ Go(done)
  /\ UNCHANGED <<regs, lines, fate>>

Acknowledge ==   \* the handler satisfies its device
  /\ Access("ack")
  /\ lines' = lines \ {id}
  /\ Go(done)
  /\ UNCHANGED <<regs, tabs, fate>>

Fault == Access("fault") /\ Exception

Call ==   \* the program starts another operation
  /\ ~ hung /\ ~ Interrupting
  /\ top.at = "program" /\ top.todo = << >>
  /\ \E todo \in Operations : stack' = <<[top EXCEPT !.todo = todo]>>
  /\ UNCHANGED <<regs, tabs, lines, fate>>

Cpu ==
  \/ Take \/ EntryIrq \/ alt_instruction_exception_entry
  \/ Dispatch \/ DispatchNothing \/ Return
  \/ ReadStatus \/ WritePie("clear_pie", FALSE) \/ WritePie("open", TRUE) \/ Restore
  \/ SetActive \/ WriteIenable \/ Narrow \/ Widen
  \/ WriteTable \/ Acknowledge \/ Fault

Next == Cpu \/ Call \/ \E i \in Irq : Raise(i) \/ Negate(i)

Spec     == Init /\ [][Next]_vars
FairSpec == Spec /\ WF_vars(Cpu)   \* the processor executes what it has begun

-----------------------------------------------------------------------------
TypeOK ==
  /\ pie \in BOOLEAN /\ hung \in BOOLEAN /\ negated \in BOOLEAN
  /\ ienable \subseteq Irq /\ alt_irq_active \subseteq Irq /\ alt_priority_mask \subseteq Irq
  /\ handler \in [Irq -> Handlers \cup {NULL}] /\ context \in [Irq -> Handlers \cup {NULL}]
  /\ exceptionHandler \in Handlers \cup {NULL}
  /\ lines \subseteq Irq
  /\ \A n \in DOMAIN stack : stack[n].at \in {"program", "entry", "handler", "isr"}

\* The frame is between a call of alt_irq_disable_all and the matching
\* alt_irq_enable_all.
InSection(f) ==
  LET opening == f.todo # << >> /\ Head(f.todo).op = "clear_pie"
  IN  Len(f.saved) > IF opening THEN 1 ELSE 0

\* Of two handlers on the stack the upper has the higher priority.
OnlyHigherNest ==
  \A m, n \in DOMAIN stack :
    m < n /\ stack[m].at = "isr" /\ stack[n].at = "isr" => stack[n].irq < stack[m].irq

(* A critical section is not interrupted, nested ones included; an         *)
(* interrupt is only taken into a table that is complete, with the context *)
(* that belongs to its handler; handlers nest by priority; and a program   *)
(* that is back from whatever happened has its interrupts enabled, exactly *)
(* the ones it asked for.  The processor hangs only on an interrupt that   *)
(* its device gave up.                                                     *)
IrqInv ==
  /\ TypeOK
  /\ hung => negated
  /\ OnlyHigherNest
  /\ \A n \in DOMAIN stack : InSection(stack[n]) => n = Len(stack) /\ ~ pie
  /\ pie => \A i \in ienable : handler[i] = context[i] /\ handler[i] # NULL
  /\ top.at = "program" /\ top.todo = << >> =>
       pie /\ ienable = alt_irq_active /\ alt_priority_mask = Irq

(* An interrupt the program keeps enabled is served, once the devices of   *)
(* higher priority are quiet: it is not lost in a critical section, behind *)
(* a handler that runs, or while handlers nest.                            *)
Served ==
  \A i \in Irq :
    []~ negated /\ <>[](lines \cap (0 .. i - 1) = {}) =>
      ((i \in lines /\ i \in alt_irq_active) ~> (i \notin lines \/ i \notin alt_irq_active))
=============================================================================
