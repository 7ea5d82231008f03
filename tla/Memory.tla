------------------------------- MODULE Memory --------------------------------
(***************************************************************************)
(* The memory of a Nios II system with caches as the HAL uses it: alt_load *)
(* copies the sections of a program that runs from flash into RAM          *)
(* (alt_load.c, sys/alt_load.h), the cache calls of sys/alt_cache.h keep   *)
(* the caches and the memory together, the uncached allocator hands out    *)
(* blocks that bypass the data cache, and sys/alt_flash.h programs flash.  *)
(*                                                                         *)
(* Not the values but the copies are modelled: which lines each cache      *)
(* holds, which are newer than the memory (dirty) and which of their words *)
(* are older (stale).  An address is a word, LINE of them in a line of     *)
(* either cache; the caches are direct mapped, the data cache writes back. *)
(***************************************************************************)
EXTENDS Integers, SequencesExt

CONSTANTS LINE,         \* words in a line
          DLINES,       \* lines of the data cache: NIOS2_DCACHE_SIZE is DLINES * LINE
          ILINES,       \* lines of the instruction cache
          FLUSHDA,      \* NIOS2_FLUSHDA_SUPPORTED: flush by address, not by line
          Sections,     \* what alt_load copies: where from, where to, and the end
          Heap, Flash,  \* words
          Lengths       \* of the blocks the program asks for

ASSUME MemAssumption ==
  /\ LINE \in Nat \ {0} /\ DLINES \in Nat \ {0} /\ ILINES \in Nat \ {0}
  /\ FLUSHDA \in BOOLEAN
ASSUME WordsAssumption ==
  /\ Heap \subseteq Nat /\ Flash \subseteq Nat /\ Heap \cap Flash = {}
  /\ Lengths \subseteq Nat \ {0}
  /\ Sections \in Seq([from : Nat, to : Nat, end : Nat])

NoLine == -1
LineOf(a)    == a \div LINE
WordsOf(l)   == l * LINE .. l * LINE + LINE - 1
Inside(s, n) == {l \in LineOf(s) .. LineOf(s + n) : WordsOf(l) \subseteq s .. s + n - 1}
Touched(s, n) == {LineOf(a) : a \in s .. s + n - 1}

VARIABLES mpc,        \* "load", then "main"
          sec, word,  \* where alt_load is
          tag,        \* the line in each place of the data cache
          dirty,      \* the lines it has to write back
          stale,      \* cached words older than the memory
          icached,    \* the lines in the instruction cache
          iold,       \* those older than the memory
          uncached,   \* the blocks that are used past the data cache
          failed      \* lines of flash left in a failed operation

memVars == <<mpc, sec, word, tag, dirty, stale, icached, iold, uncached, failed>>

Caches == [tag |-> tag, dirty |-> dirty, stale |-> stale, iold |-> iold]
Commit(c) == tag' = c.tag /\ dirty' = c.dirty /\ stale' = c.stale /\ iold' = c.iold

-----------------------------------------------------------------------------
(* The caches.                                                             *)
Place(l)     == l % DLINES
Cached(c)    == {c.tag[p] : p \in DOMAIN c.tag} \ {NoLine}

\* The memory of lines changes: instructions fetched before are old.
Stored(c, L) == [c EXCEPT !.iold = @ \cup (L \cap icached)]

\* Lines leave the cache as they are.
Drop(c, L) ==
  [c EXCEPT !.tag = [p \in DOMAIN c.tag |-> IF c.tag[p] \in L THEN NoLine ELSE c.tag[p]],
            !.dirty = @ \ L, !.stale = {a \in @ : LineOf(a) \notin L}]

\* Lines leave the cache, those that are dirty for the memory.
Flush(c, L) == Drop(Stored(c, L \cap c.dirty), L)

\* What the flushes of the addresses A come to in any order: flushd takes
\* whatever line is in the place, flushda the line of the address.
ALT_FLUSH_DATA(c, A) ==
  Flush(c, {l \in Cached(c) : \E a \in A : IF FLUSHDA THEN LineOf(a) = l
                                                      ELSE Place(LineOf(a)) = Place(l)})

Load(c, a) == IF c.tag[Place(LineOf(a))] = LineOf(a) THEN c
              ELSE [Flush(c, {c.tag[Place(LineOf(a))]}) EXCEPT
                      !.tag[Place(LineOf(a))] = LineOf(a)]
Store(c, a) == [Load(c, a) EXCEPT !.dirty = @ \cup {LineOf(a)}, !.stale = @ \ {a}]

\* Stores past the data cache.
StoreIo(c, A) == [Stored(c, {LineOf(a) : a \in A}) EXCEPT
                    !.stale = @ \cup {a \in A : LineOf(a) \in Cached(c)}]

-----------------------------------------------------------------------------
(* The calls of sys/alt_cache.h.                                           *)

\* The addresses the loop of a flush goes through: from start in steps of a
\* line, and one more when start is not the first word of its line.
Steps(start, len) == {start + k * LINE : k \in 0 .. (len - 1) \div LINE}
Tail1(start, len) == start + ((len + LINE - 1) \div LINE) * LINE
Walk_short(start, len) == Steps(start, len)   \* mutant: no line for the unaligned end
Walk(start, len) ==
  Steps(start, len) \cup IF start % LINE # 0 THEN {Tail1(start, len)} ELSE {}

Trim(len, size) == IF len > size THEN size ELSE len

alt_dcache_flush(c, start, len) ==
  ALT_FLUSH_DATA(c, Walk(start, IF FLUSHDA THEN len ELSE Trim(len, DLINES * LINE)))

alt_dcache_flush_all(c) == Flush(c, Cached(c))

\* initda: the line is dropped as it is.
alt_dcache_flush_no_writeback(c, start, len) == Drop(c, {LineOf(a) : a \in Walk(start, len)})

\* flushi looks at the place only.  The lines that stay.
alt_icache_flush(start, len) ==
  {l \in icached : \A a \in Walk(start, Trim(len, ILINES * LINE)) :
                     LineOf(a) % ILINES # l % ILINES}
alt_icache_flush_all == alt_icache_flush(0, ILINES * LINE)

-----------------------------------------------------------------------------
(* Boot: whatever ran before may have left lines in the caches, clean and  *)
(* of the memory as it was; crt0 initialises them in part of the builds.   *)
SectionLines == UNION {Touched(s.to, s.end - s.to) : s \in Range(Sections)}

MemInit ==
  /\ mpc = "load" /\ sec = 1 /\ word = 0
  /\ tag = [p \in 0 .. DLINES - 1 |-> NoLine]
  /\ dirty = {} /\ stale = {}
  /\ icached \in {L \in SUBSET SectionLines : \A l, m \in L : l # m => l % ILINES # m % ILINES}
  /\ iold = {} /\ uncached = {} /\ failed = {}

\* alt_load_section, word by word; nothing to do where the program runs in place.
CopyWord ==
  /\ mpc = "load" /\ sec <= Len(Sections)
  /\ LET s == Sections[sec]
     IN  IF s.to = s.from \/ s.to + word = s.end
           THEN sec' = sec + 1 /\ word' = 0 /\ UNCHANGED <<tag, dirty, stale, iold>>
           ELSE word' = word + 1 /\ sec' = sec
                /\ Commit(Store(Load(Caches, s.from + word), s.to + word))
  /\ UNCHANGED <<mpc, icached, uncached, failed>>

LoadDone_dflush ==   \* mutant: flushes the data cache only
  /\ mpc = "load" /\ sec > Len(Sections)
  /\ Commit(alt_dcache_flush_all(Caches))
  /\ icached' = icached
  /\ mpc' = "main"
  /\ UNCHANGED <<sec, word, uncached, failed>>

LoadDone ==
  /\ mpc = "load" /\ sec > Len(Sections)
  /\ LET c == alt_dcache_flush_all(Caches)
     IN  /\ icached' = alt_icache_flush_all
         /\ Commit([c EXCEPT !.iold = @ \cap alt_icache_flush_all])
  /\ mpc' = "main"
  /\ UNCHANGED <<sec, word, uncached, failed>>

-----------------------------------------------------------------------------
(* The program.  It keeps to its own words: cached outside the uncached    *)
(* blocks, past the cache inside.                                          *)
Region(b)    == b.start .. b.start + b.len - 1
UncachedWords == UNION {Region(b) : b \in uncached}
Free(s, n)   == s .. s + n - 1 \subseteq Heap \ UncachedWords

InMain == mpc = "main" /\ UNCHANGED <<mpc, sec, word, icached>>

ReadCached ==
  /\ InMain
  /\ \E a \in (Heap \ UncachedWords) \cup Flash : Commit(Load(Caches, a))
  /\ UNCHANGED <<uncached, failed>>

WriteCached ==
  /\ InMain
  /\ \E a \in Heap \ UncachedWords : Commit(Store(Caches, a))
  /\ UNCHANGED <<uncached, failed>>

WriteUncached ==
  /\ InMain
  /\ \E a \in UncachedWords : Commit(StoreIo(Caches, {a}))
  /\ UNCHANGED <<uncached, failed>>

alt_remap_uncached(s, n) ==
  /\ Commit(alt_dcache_flush(Caches, s, n))
  /\ uncached' = uncached \cup {[start |-> s, len |-> n]}

RemapUncached ==
  /\ InMain
  /\ \E s \in Heap, n \in Lengths : Free(s, n) /\ alt_remap_uncached(s, n)
  /\ UNCHANGED failed

\* malloc returns multiples of eight bytes, two words.
UncachedMalloc ==
  /\ InMain
  /\ \E s \in Heap, n \in Lengths : s % 2 = 0 /\ Free(s, n) /\ alt_remap_uncached(s, n)
  /\ UNCHANGED failed

\* Clears a bit of the address, and does not look at the cache.
alt_remap_cached(b) == uncached' = uncached \ {b}

\* alt_uncached_free() does the same, and hands the block to free().
UncachedFree ==
  /\ InMain
  /\ \E b \in uncached : alt_remap_cached(b)
  /\ UNCHANGED <<tag, dirty, stale, iold, failed>>

NoWriteback ==
  /\ InMain
  /\ \E s \in Heap, n \in Lengths :
       /\ s .. s + n - 1 \subseteq Heap
       /\ Commit(alt_dcache_flush_no_writeback(Caches, s, n))
  /\ UNCHANGED <<uncached, failed>>

\* alt_erase_flash_block and alt_write_flash_block: the driver changes the
\* memory, all of it or, when it fails, any part; the cache is flushed
\* when it has not failed.
ProgramFlash(s, n, ok) ==
  LET c == StoreIo(Caches, s .. s + n - 1)
  IN  /\ Commit(IF ok THEN alt_dcache_flush(c, s, n) ELSE c)
      /\ failed' = IF ok THEN failed \ Inside(s, n) ELSE failed \cup Touched(s, n)

EraseFlashBlock ==
  /\ InMain
  /\ \E l \in {LineOf(a) : a \in Flash}, ok \in BOOLEAN : ProgramFlash(l * LINE, LINE, ok)
  /\ UNCHANGED uncached

WriteFlashBlock ==
  /\ InMain
  /\ \E s \in Flash, n \in Lengths, ok \in BOOLEAN :
       s .. s + n - 1 \subseteq Flash /\ ProgramFlash(s, n, ok)
  /\ UNCHANGED uncached

MemLoad == CopyWord \/ LoadDone
MemMain == ReadCached \/ WriteCached \/ WriteUncached \/ RemapUncached \/ UncachedMalloc
           \/ UncachedFree \/ NoWriteback \/ EraseFlashBlock \/ WriteFlashBlock

-----------------------------------------------------------------------------
\* The program does not start before its sections are where it looks for
\* them: every word copied, none of them still waiting in the data cache (a
\* line the heap begins in may be written again), no older instruction left.
\* No line wholly inside a block that is used past the cache is in the cache,
\* whatever start and length the block has.  A copy of flash in the data cache
\* is older than flash only where an operation failed.  Only lines that are
\* there are dirty or stale.
MemInv ==
  /\ dirty \subseteq Cached(Caches) /\ {LineOf(a) : a \in stale} \subseteq Cached(Caches)
  /\ iold \subseteq icached
  /\ mpc = "main" => /\ sec > Len(Sections)
                     /\ SectionLines \cap iold = {}
                     /\ SectionLines \cap dirty \subseteq {LineOf(a) : a \in Heap}
  /\ \A b \in uncached : Inside(b.start, b.len) \cap Cached(Caches) = {}
  /\ \A a \in stale \cap Flash : LineOf(a) \in failed

\* The inductive invariant behind both: a line is in its own place of the cache;
\* while the program is loaded nothing is uncached or has failed, and afterwards
\* nothing older is in the instruction cache, only words of the heap are written
\* and only they are uncached.
MemTypeOK ==
  /\ mpc \in {"load", "main"} /\ sec \in 1 .. Len(Sections) + 1 /\ word \in Nat
  /\ tag \in [0 .. DLINES - 1 -> Nat \cup {NoLine}]
  /\ dirty \subseteq Nat /\ stale \subseteq Nat /\ icached \subseteq Nat /\ iold \subseteq Nat
  /\ uncached \subseteq [start : Nat, len : Nat \ {0}]
  /\ failed \subseteq Nat

HeapLines == {LineOf(a) : a \in Heap}

MemIndInv ==
  /\ MemTypeOK
  /\ \A p \in DOMAIN tag : tag[p] # NoLine => Place(tag[p]) = p
  /\ dirty \subseteq Cached(Caches) /\ {LineOf(a) : a \in stale} \subseteq Cached(Caches)
  /\ iold \subseteq icached
  /\ mpc = "load" => stale = {} /\ uncached = {} /\ failed = {}
  /\ mpc = "main" => sec > Len(Sections) /\ icached = {} /\ dirty \subseteq HeapLines
  /\ UncachedWords \subseteq Heap
  /\ \A b \in uncached : Inside(b.start, b.len) \cap Cached(Caches) = {}
  /\ \A a \in stale \cap Flash : LineOf(a) \in failed

\* When a block goes uncached no line that has a word of it is in the cache: a
\* dirty one would be written back over what is stored past the cache.
BlockLeavesCache ==
  [][\A b \in uncached' \ uncached : Touched(b.start, b.len) \cap Cached(Caches') = {}]_memVars

===============================================================================
