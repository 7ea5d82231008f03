------------------------------- MODULE Profiler -------------------------------
(***************************************************************************)
(* A program compiled for profiling: every function begins with a call of  *)
(* mcount(), which counts the arc it was reached by (alt_gmon.c; the        *)
(* search and the count are alt_mcount.S), the tick interrupt samples the  *)
(* program counter into a histogram, and all of it takes its memory from   *)
(* sbrk() (alt_sbrk.c, sys/alt_stack.h).  Functions that interrupts call   *)
(* are profiled too: mcount() is re-entered between any two of its steps,  *)
(* except in the sections that disable interrupts.                         *)
(*                                                                         *)
(* An address is a multiple of two bytes: an unsigned short.  The lists    *)
(* are sequences, newest first, of one bucket of the hash.                 *)
(***************************************************************************)
EXTENDS Integers, FiniteSets, SequencesExt

CONSTANTS SLAB,         \* MCOUNT_SLAB_INCREMENT, a multiple of ENTRY
          BUCKET,       \* PCSAMPLE_BYTES_PER_BUCKET
          Texts,        \* sizes of the text section, in bytes
          HEAP_LIMIT,   \* __alt_heap_limit, or the start and ALT_MAX_HEAP_BYTES
          STACK,        \* the stack pointer
          Mallocs,      \* what the program asks of sbrk() itself
          ThreadCalls,  \* the arcs of the program: <<self_pc, from_pc>>
          IrqCalls,     \* those of its interrupts
          CALLS, SAMPLES   \* bounds: calls of the program, interrupts

ENTRY      == 6   \* three words: mcount_fn_entry, and mcount_fn_arc
HEAP_START == 2

ASSUME ProfilerAssumption ==
  /\ SLAB \in Nat \ {0} /\ SLAB % ENTRY = 0
  /\ BUCKET \in Nat \ {0} /\ HEAP_LIMIT \in Nat /\ STACK \in Nat /\ STACK > HEAP_START
  /\ Texts \subseteq Nat /\ Mallocs \subseteq Nat
  /\ \A c \in ThreadCalls \cup IrqCalls : c = <<c[1], c[2]>>

VARIABLES text_size,    \* the size of the text section
          heap_end,
          stack_limit,  \* register et, in a build with ALT_STACK_CHECK
          slab,         \* mcount_slab_ptr and mcount_slab_size
          fns, arcs,    \* the lists of mcount
          need_init,    \* pcsample_need_init
          rate,         \* the tick rate: 0 until a driver announces it
          histograms,   \* where s_pcsamples pointed; the last is where it does
          starts,       \* how often the sampling alarm was linked into its list
          mallocs,      \* the blocks the program has
          frame,        \* the program, in mcount()
          fate,         \* "runs", or what has become of the program
          calls, samples,
          sampled,      \* history: where the last sample was counted
          made          \* history: the calls that were counted

profVars == <<text_size, heap_end, stack_limit, slab, fns, arcs, need_init, rate, histograms,
              starts, mallocs, frame, fate, calls, samples, sampled, made>>

Buckets == text_size \div BUCKET   \* pcsamples_size
Returned == [at |-> "returned"]

ProfInit ==
  /\ text_size \in Texts
  /\ heap_end = HEAP_START /\ stack_limit = HEAP_START
  /\ slab = [ptr |-> 0, size |-> 0]
  /\ fns = << >> /\ arcs = << >>
  /\ need_init = TRUE /\ rate = 0
  /\ histograms = << >> /\ starts = 0 /\ mallocs = << >>
  /\ frame = Returned /\ fate = "runs"
  /\ calls = 0 /\ samples = 0 /\ sampled = 0
  /\ made = [c \in ThreadCalls \cup IrqCalls |-> 0]

(* What mcount() changes, as a record, so that an interrupt can take all   *)
(* its steps at once.                                                      *)
Profile == [heap_end |-> heap_end, stack_limit |-> stack_limit, slab |-> slab, fns |-> fns,
            arcs |-> arcs, need_init |-> need_init, histograms |-> histograms,
            starts |-> starts, fate |-> fate, made |-> made]

Becomes(p) ==
  /\ heap_end' = p.heap_end /\ stack_limit' = p.stack_limit /\ slab' = p.slab
  /\ fns' = p.fns /\ arcs' = p.arcs /\ need_init' = p.need_init
  /\ histograms' = p.histograms /\ starts' = p.starts /\ fate' = p.fate /\ made' = p.made

-----------------------------------------------------------------------------
(* Memory.  -1 is what sbrk() returns without any left; whoever uses it as *)
(* an address writes anywhere.                                             *)
NoMemory == -1

Extend(p, prev, incr) ==   \* the stack limit moves with the heap
  IF p.stack_limit # prev THEN [p EXCEPT !.heap_end = prev + incr]
  ELSE [p EXCEPT !.heap_end = prev + incr, !.stack_limit = prev + incr,
                 !.fate = IF STACK <= prev + incr THEN "overflow reported" ELSE @]

ALT_SBRK(p, incr) ==
  LET aligned == 2 * ((p.heap_end + 1) \div 2)
  IN  IF aligned + incr > HEAP_LIMIT
        THEN [p |-> [p EXCEPT !.heap_end = aligned], block |-> NoMemory]
        ELSE [p |-> Extend(p, aligned, incr), block |-> aligned]

Wild(p, block) == IF block = NoMemory THEN [p EXCEPT !.fate = "wild"] ELSE p

mcount_allocate_undiminished(p, size) ==   \* mutant: the slab never runs out
  LET s == IF size <= p.slab.size THEN [p |-> p, block |-> p.slab.ptr] ELSE ALT_SBRK(p, SLAB)
  IN  [p |-> [Wild(s.p, s.block) EXCEPT !.slab = [ptr |-> s.block + size, size |-> SLAB]],
       block |-> s.block]

mcount_allocate(p, size) ==
  LET s    == IF size <= p.slab.size THEN [p |-> p, block |-> p.slab.ptr] ELSE ALT_SBRK(p, SLAB)
      left == IF size <= p.slab.size THEN p.slab.size ELSE SLAB
  IN  [p |-> [Wild(s.p, s.block) EXCEPT !.slab = [ptr |-> s.block + size, size |-> left - size]],
       block |-> s.block]

-----------------------------------------------------------------------------
(* mcount() and __mcount_record(), one step for every access that an       *)
(* interrupt can come between.  f.fn and f.arc are addresses, 0 for NULL.  *)
Entered(c) == [at |-> "find fn", call |-> c, fn |-> 0, arc |-> 0, count |-> 0]

Count(p, f) == [p EXCEPT !.made[f.call] = @ + 1]
AddressAt(list, i) == IF i = 0 THEN 0 ELSE list[i].block

FnOf(p, f)  == AddressAt(p.fns, SelectInSeq(p.fns, LAMBDA e : e.self = f.call[1]))
ArcOf(p, f) == AddressAt(p.arcs, SelectInSeq(p.arcs, LAMBDA a : a.fn = f.fn /\ a.from = f.call[2]))
CountOf(p, f) == p.arcs[SelectInSeq(p.arcs, LAMBDA a : a.block = f.arc)].count

\* What comes after an allocation, if the program has got there.
Got(s) == s.p.fate = "runs"

nios2_pcsample_init(p) ==   \* up to the start of the alarm
  LET h == ALT_SBRK(p, Buckets)
      q == Wild(h.p, h.block)
  IN  IF q.fate = "runs" THEN [q EXCEPT !.histograms = Append(@, h.block)] ELSE q

\* Interrupts are disabled: the allocations and both lists at once.
AddFn(p, f) ==
  LET e == mcount_allocate(p, ENTRY)
  IN  IF Got(e)
        THEN [p |-> [e.p EXCEPT !.fns = <<[block |-> e.block, self |-> f.call[1]]>> \o @],
              block |-> e.block]
        ELSE e

AddArc(p, f, fn) ==
  LET a == mcount_allocate(p, ENTRY)
  IN  IF Got(a)
        THEN [Count(a.p, f) EXCEPT
                !.arcs = <<[block |-> a.block, fn |-> fn, from |-> f.call[2], count |-> 1]>> \o @]
        ELSE a.p

Link(p, f) ==
  LET e == AddFn(p, f)
  IN  IF f.fn # 0 THEN AddArc(p, f, f.fn)
      ELSE IF Got(e) THEN AddArc(e.p, f, e.block) ELSE e.p

McountStep(p, f) ==
  LET To(at) == [f EXCEPT !.at = at]
  IN  CASE f.at = "find fn" ->
             <<p, [f EXCEPT !.fn = FnOf(p, f), !.at = IF FnOf(p, f) = 0 THEN "test" ELSE "find arc"]>>
        [] f.at = "find arc" ->
             <<p, [f EXCEPT !.arc = ArcOf(p, f), !.at = IF ArcOf(p, f) = 0 THEN "test" ELSE "load"]>>
        [] f.at = "load"  -> <<p, [f EXCEPT !.count = CountOf(p, f), !.at = "store"]>>
        [] f.at = "store" ->
             <<[Count(p, f) EXCEPT
                  !.arcs[SelectInSeq(p.arcs, LAMBDA a : a.block = f.arc)].count = f.count + 1],
               Returned>>
        [] f.at = "test"  -> <<p, To(IF p.need_init THEN "clear" ELSE "link")>>
        [] f.at = "clear" -> <<[p EXCEPT !.need_init = FALSE], To("init")>>
        [] f.at = "init"  -> IF rate = 0 THEN <<p, To("again")>>
                             ELSE <<nios2_pcsample_init(p), To("start")>>
        [] f.at = "start" -> <<[p EXCEPT !.starts = @ + 1], To("set")>>
        [] f.at = "set"   -> <<[p EXCEPT !.need_init = FALSE], To("link")>>
        [] f.at = "again" -> <<[p EXCEPT !.need_init = TRUE], To("link")>>
        [] f.at = "link"  -> <<Link(p, f), Returned>>
        [] OTHER          -> <<p, f>>

\* All the steps of a call, of which there are at most eight.
Goes(s)      == IF s[1].fate = "runs" THEN McountStep(s[1], s[2]) ELSE s
GoesFour(s)  == Goes(Goes(Goes(Goes(s))))
mcount(p, c) == GoesFour(GoesFour(<<p, Entered(c)>>))[1]

-----------------------------------------------------------------------------
Live == fate = "runs"

CallFunction ==
  /\ Live /\ frame = Returned /\ calls < CALLS
  /\ \E c \in ThreadCalls : frame' = Entered(c)
  /\ calls' = calls + 1
  /\ UNCHANGED <<text_size, heap_end, stack_limit, slab, fns, arcs, need_init, rate, histograms,
                 starts, mallocs, fate, samples, sampled, made>>

Mcount ==
  /\ Live /\ frame # Returned
  /\ Becomes(McountStep(Profile, frame)[1])
  /\ frame' = McountStep(Profile, frame)[2]
  /\ UNCHANGED <<text_size, rate, mallocs, calls, samples, sampled>>

Malloc ==   \* the program looks at what sbrk() returns
  /\ Live /\ frame = Returned /\ mallocs = << >>
  /\ \E n \in Mallocs :
       LET m == ALT_SBRK(Profile, n)
       IN  /\ Becomes(m.p)
           /\ mallocs' = IF m.block = NoMemory THEN mallocs
                         ELSE Append(mallocs, [block |-> m.block, size |-> n])
  /\ UNCHANGED <<text_size, rate, frame, calls, samples, sampled>>

alt_sysclk_up ==   \* the timer's driver calls alt_sysclk_init
  /\ Live /\ rate = 0 /\ frame = Returned
  /\ rate' = 1
  /\ UNCHANGED <<text_size, heap_end, stack_limit, slab, fns, arcs, need_init, histograms, starts,
                 mallocs, frame, fate, calls, samples, sampled, made>>

\* The alarm of the sampler samples; linked twice it points to itself, and
\* alt_tick() does not come to its end.
nios2_pcsample(p) ==
  \/ /\ starts = 1
     /\ \E pc \in 0 .. text_size - 1 : sampled' = Last(p.histograms) + pc \div BUCKET
     /\ Becomes(p)
  \/ /\ starts > 1
     /\ Becomes([p EXCEPT !.fate = "loops"])
     /\ UNCHANGED sampled

\* An interrupt calls functions first; then it is a tick at which the alarm is
\* due, or it is not.
ProfIrq ==
  /\ Live /\ samples < SAMPLES
  /\ samples' = samples + 1
  /\ \E c \in IrqCalls :
       LET p == mcount(Profile, c)
       IN  \/ Becomes(p) /\ UNCHANGED sampled
           \/ p.fate = "runs" /\ nios2_pcsample(p)
  /\ UNCHANGED <<text_size, rate, mallocs, frame, calls>>

ProfStep == CallFunction \/ Mcount \/ Malloc \/ alt_sysclk_up

-----------------------------------------------------------------------------
(* What the profiler promises.                                             *)
Extent(b, n) == b .. b + n - 1

\* What the heap is used for: <<kind, number, address, size>>, the oldest
\* entry of a list having number 0.
EntryBlocks(p) == {<<"fn", Len(p.fns) - i, p.fns[i].block, ENTRY>> : i \in DOMAIN p.fns}
                  \cup {<<"arc", Len(p.arcs) - i, p.arcs[i].block, ENTRY>> : i \in DOMAIN p.arcs}
DataBlocks(p)  == {<<"histogram", i, p.histograms[i], Buckets>> : i \in DOMAIN p.histograms}
                  \cup {<<"malloc", i, mallocs[i].block, mallocs[i].size>> : i \in DOMAIN mallocs}

Apart(p) ==
  \A b \in EntryBlocks(p) \cup DataBlocks(p) :
    /\ Extent(b[3], b[4]) \subseteq HEAP_START .. p.heap_end - 1
    /\ \A d \in EntryBlocks(p) \cup DataBlocks(p) :
         b # d => Extent(b[3], b[4]) \cap Extent(d[3], d[4]) = {}

\* The arcs of a call, and a mark for each time one of them was counted.
Copies(p, c) == {i \in DOMAIN p.arcs : /\ p.arcs[i].from = c[2]
                                       /\ \E e \in DOMAIN p.fns : /\ p.fns[e].block = p.arcs[i].fn
                                                                   /\ p.fns[e].self = c[1]}
Marks(p, c)  == UNION {{p.arcs[i].block} \X (1 .. p.arcs[i].count) : i \in Copies(p, c)}
Recorded(p, c) == Cardinality(Marks(p, c))

\* As long as sbrk() has memory, no two blocks of the profiler and the program
\* share any, re-entered as it is; every call that was made is in the graph,
\* none is there that was not, an interrupt costs a count at most one, and a
\* function is listed at most twice; a sample of a text that divides into
\* buckets falls into no block but the histogram; and where what was asked of
\* sbrk() is whole words the heap meets the stack only with the report of it.
ProfileInv ==
  fate # "wild" =>
    /\ Apart(Profile)
    /\ \A c \in DOMAIN made :
         /\ Recorded(Profile, c) <= made[c] /\ made[c] <= Recorded(Profile, c) + samples
         /\ made[c] > 0 => Copies(Profile, c) # {}
    /\ \A i, j, k \in DOMAIN fns : fns[i].self = fns[j].self /\ fns[j].self = fns[k].self =>
                                     i = j \/ j = k \/ i = k
    /\ text_size % BUCKET = 0 => \A b \in EntryBlocks(Profile) : sampled \notin Extent(b[3], b[4])
    /\ Buckets % 2 = 0 /\ (\A n \in Mallocs : n % 2 = 0) =>
         stack_limit = heap_end /\ (fate = "runs" => heap_end < STACK)

(* The sampling alarm is started once.  __mcount_record() says "This        *)
(* function might be called at interrupt time so must be able to cope with *)
(* reentrancy" (alt_gmon.c:152-153), and nios2_pcsample_init() that it is  *)
(* "called the first time mcount is called, and on subsequent calls to     *)
(* mcount until it returns zero" (213-216); but pcsample_need_init is      *)
(* tested at 167 and cleared at 169, and an interrupt may fall between.    *)
SamplerStartsOnce == starts <= 1

===============================================================================
